-------------------------- MODULE VoteSubmitProofs --------------------------
(***************************************************************************)
(* Proofs about VoteSubmit, for any voters, requests, tables and clock     *)
(* bound.  What needs the lock is proved under MayOverrun = FALSE: no      *)
(* handler outlives the lifetime of its lock.                              *)
(***************************************************************************)
EXTENDS VoteSubmit, TLAPS

(* A voter's table as the serialised submits leave it. *)
Rising(s) ==
  \A i, j \in DOMAIN s : i < j =>
    s[i].attempt < s[j].attempt \/ (s[i].attempt = 0 /\ s[j].attempt = 0)

Contiguous(s) ==
  \A i \in DOMAIN s :
    IF i = 1 THEN s[i].attempt \in {0, 1}
    ELSE \/ s[i].attempt = s[i-1].attempt + 1
         \/ s[i].attempt = 0 /\ s[i-1].attempt = 0

OneFill(s) ==
  \A i, j \in DOMAIN s :
    s[i].attempt > 0 /\ s[j].attempt > 0 => s[i].fill = s[j].fill

InTime(s) ==
  \A i, j \in DOMAIN s :
    i < j /\ s[i].server /\ s[j].server => s[i].created <= s[j].created

SerialLog(s) == Rising(s) /\ Contiguous(s) /\ OneFill(s) /\ InTime(s)

StampedBy(s, t) == \A i \in DOMAIN s : s[i].server => s[i].created <= t

(* p is what _upsert must have read to continue the log s. *)
ReadsLast(p, s) ==
  IF s = <<>> THEN p.attempt = 0
  ELSE /\ p.attempt = s[Len(s)].attempt
       /\ p.attempt > 0 => p.fill = s[Len(s)].fill

(* Two states of a table that differ in void marks at most. *)
SameButMarks(s, t) ==
  /\ Len(t) = Len(s)
  /\ \A i \in DOMAIN s : /\ t[i].attempt = s[i].attempt
                          /\ t[i].fill = s[i].fill
                          /\ t[i].created = s[i].created
                          /\ t[i].server = s[i].server

Stamped == {"paper", "answers", "read", "write"}

Holders == \A r \in Requests : pc[r] \in Critical => lock[job[r].voter] = r

Logs == \A c \in Categories, v \in Voters :
          SerialLog(rows[c][v]) /\ StampedBy(rows[c][v], clock)

Snapshots == \A r \in Requests :
  /\ pc[r] = "write" => ReadsLast(prev[r], Table(r))
  /\ pc[r] \in Stamped /\ job[r].graphql =>
       stamp[r] <= clock /\ StampedBy(Table(r), stamp[r])

(* The inductive invariant, on top of TypeOK. *)
Serialised == Holders /\ Logs /\ Snapshots

-----------------------------------------------------------------------------
(* What _upsert inserts is a row. *)
LEMMA RowAfterTyped ==
  ASSUME NEW r \in Requests,
         job[r] \in Job, prev[r] \in Prev, stamp[r] \in Clock
  PROVE  RowAfter(prev[r], r) \in Row
<1>1. prev[r].attempt \in Nat /\ (prev[r].attempt # 0 => prev[r].fill \in FillTimes)
  BY DEF Prev, NoPrev
<1>2. CASE prev[r].attempt = 0
  BY <1>1, <1>2 DEF RowAfter, Row, Job
<1>3. CASE prev[r].attempt # 0
  BY <1>1, <1>3 DEF RowAfter, Row, Job
<1> QED BY <1>2, <1>3

(* Type correctness, whatever the locks do. *)
THEOREM TypeCorrect == Spec => []TypeOK
<1>1. Init => TypeOK
  <2> SUFFICES ASSUME Init PROVE TypeOK
    OBVIOUS
  <2>1. LegacyTables \subseteq Seq(Row)
    <3> SUFFICES ASSUME NEW t \in LegacyTables PROVE t \in Seq(Row)
      OBVIOUS
    <3>1. t \in Seq(LegacyRow)
      BY SubmitAssumption
    <3>2. LegacyRow \subseteq Row
      <4>1. 0 \in Clock /\ 0 \in Nat
        BY SubmitAssumption DEF Clock
      <4>2. {0} \subseteq Nat /\ {0} \subseteq Clock /\ {TRUE} \subseteq BOOLEAN
        BY <4>1
      <4> QED BY <4>2 DEF LegacyRow, Row
    <3> QED BY <3>1, <3>2
  <2>2. rows \in [Categories -> [Voters -> Seq(Row)]]
    BY <2>1 DEF Init
  <2> QED
    BY <2>2, SubmitAssumption
    DEF Init, TypeOK, Critical, Body, Terminal, Clock, Prev, NoPrev
<1>2. TypeOK /\ [Next]_vars => TypeOK'
  <2> SUFFICES ASSUME TypeOK, [Next]_vars PROVE TypeOK'
    OBVIOUS
  <2> USE SubmitAssumption DEF TypeOK, Critical, Body, Terminal, vars
  <2>1. ASSUME NEW r \in Requests, NEW j \in Job, Acquire(r, j) PROVE TypeOK'
    BY <2>1 DEF Acquire, Job
  <2>2. ASSUME NEW r \in Requests, NEW j \in Job, Refuse(r, j) PROVE TypeOK'
    BY <2>2 DEF Refuse
  <2>3. ASSUME NEW r \in Requests, StampBallot(r) PROVE TypeOK'
    BY <2>3 DEF StampBallot
  <2>4. ASSUME NEW r \in Requests, CheckPaper(r) PROVE TypeOK'
    BY <2>4 DEF CheckPaper
  <2>5. ASSUME NEW r \in Requests, CheckAnswers(r) PROVE TypeOK'
    BY <2>5 DEF CheckAnswers
  <2>6. ASSUME NEW r \in Requests, ReadPrev(r) PROVE TypeOK'
    <3>1. job[r] \in Job
      BY <2>6 DEF ReadPrev
    <3>2. Table(r) \in Seq(Row)
      BY <3>1 DEF Table, Job
    <3>3. NoPrev \in Prev
      BY DEF NoPrev, Prev
    <3>4. ASSUME NEW i \in HighestAttempt(Table(r))
          PROVE  [attempt |-> Table(r)[i].attempt, fill |-> Table(r)[i].fill] \in Prev
      <4>1. Table(r)[i] \in Row
        BY <3>2 DEF HighestAttempt
      <4> QED BY <4>1 DEF Prev, Row
    <3>5. ASSUME NEW p \in Prev, prev' = [prev EXCEPT ![r] = p]
          PROVE  prev' \in [Requests -> Prev]
      BY <3>5
    <3>6. prev' \in [Requests -> Prev]
      <4>1. CASE Table(r) = <<>> /\ prev' = [prev EXCEPT ![r] = NoPrev]
        BY <3>3, <3>5, <4>1
      <4>2. ASSUME NEW i \in HighestAttempt(Table(r)),
                   prev' = [prev EXCEPT ![r] = [attempt |-> Table(r)[i].attempt,
                                                fill |-> Table(r)[i].fill]]
            PROVE  prev' \in [Requests -> Prev]
        BY <3>4, <3>5, <4>2
      <4> QED BY <2>6, <4>1, <4>2 DEF ReadPrev
    <3> QED BY <2>6, <3>6 DEF ReadPrev
  <2>7. ASSUME NEW r \in Requests, WriteRow(r) PROVE TypeOK'
    <3>1. job[r] \in Job /\ prev[r] \in Prev /\ stamp[r] \in Clock
      BY <2>7 DEF WriteRow
    <3>2. RowAfter(prev[r], r) \in Row
      BY <3>1, RowAfterTyped
    <3>3. rows' \in [Categories -> [Voters -> Seq(Row)]]
      BY <2>7, <3>1, <3>2 DEF WriteRow, Job
    <3> QED BY <2>7, <3>3 DEF WriteRow
  <2>8. ASSUME NEW r \in Requests, End(r)
        PROVE  /\ job' \in [Requests -> Job \cup {NoJob}]
               /\ stamp' \in [Requests -> Clock]
               /\ prev' \in [Requests -> Prev]
               /\ pc' \in [Requests -> Critical \cup Terminal \cup {"idle"}]
               /\ \A q \in Requests : pc'[q] \in Critical => job'[q] \in Job
    <3>1. 0 \in Clock /\ NoPrev \in Prev
      BY DEF Clock, NoPrev, Prev
    <3>2. "ended" \notin Critical
      OBVIOUS
    <3> HIDE SubmitAssumption
    <3> QED BY <2>8, <3>1, <3>2 DEF End
  <2>9. ASSUME NEW r \in Requests, CheckOwner(r) PROVE TypeOK'
    <3>1. CASE lock[job[r].voter] = r
      BY <2>9, <3>1 DEF CheckOwner
    <3>2. CASE lock[job[r].voter] # r
      BY <2>9, <3>2, <2>8 DEF CheckOwner
    <3> QED BY <3>1, <3>2
  <2>10. ASSUME NEW r \in Requests, DeleteLock(r) PROVE TypeOK'
    BY <2>10, <2>8 DEF DeleteLock
  <2>11. ASSUME NEW r \in Requests, Abort(r) PROVE TypeOK'
    BY <2>11 DEF Abort
  <2>12. ASSUME NEW r \in Requests, Crash(r) PROVE TypeOK'
    BY <2>12, <2>8 DEF Crash
  <2>13. ASSUME NEW v \in Voters, Expire(v) PROVE TypeOK'
    BY <2>13 DEF Expire
  <2>14. ASSUME NEW v \in Answering, NEW g \in {"complete", "partial"}, Regrade(v, g)
         PROVE  TypeOK'
    BY <2>14 DEF Regrade
  <2>15. ASSUME Admin PROVE TypeOK'
    <3>1. PICK c \in Categories, v \in Voters, value \in BOOLEAN :
            \E i \in DOMAIN rows[c][v] : SetInvalidated(c, v, i, value)
      BY <2>15 DEF Admin
    <3>2. PICK i \in DOMAIN rows[c][v] : SetInvalidated(c, v, i, value)
      BY <3>1
    <3>3. rows[c][v] \in Seq(Row) /\ rows[c][v][i] \in Row
      OBVIOUS
    <3>4. [rows[c][v] EXCEPT ![i].invalidated = value] \in Seq(Row)
      <4>1. [rows[c][v][i] EXCEPT !.invalidated = value] \in Row
        BY <3>3 DEF Row
      <4> QED BY <3>3, <4>1
    <3>5. rows' \in [Categories -> [Voters -> Seq(Row)]]
      BY <3>2, <3>4 DEF SetInvalidated
    <3> QED BY <3>2, <3>5 DEF SetInvalidated
  <2>16. ASSUME Tick PROVE TypeOK'
    BY <2>16 DEF Tick, Clock
  <2>17. CASE UNCHANGED vars
    BY <2>17
  <2> QED
    BY <2>1, <2>2, <2>3, <2>4, <2>5, <2>6, <2>7, <2>9, <2>10, <2>11, <2>12, <2>13,
       <2>14, <2>15, <2>16, <2>17 DEF Next, Step
<1>3. QED
  BY <1>1, <1>2, PTL DEF Spec

-----------------------------------------------------------------------------
(* Lemmas about one voter's table. *)

(* The last attempt of a serial log is its highest, and of the numbered rows *)
(* only the last one has it: what _upsert reads is the end of the log.       *)
LEMMA HighestIsLast ==
  ASSUME NEW s \in Seq(Row), SerialLog(s), NEW i \in HighestAttempt(s)
  PROVE  ReadsLast([attempt |-> s[i].attempt, fill |-> s[i].fill], s)
<1> DEFINE n == Len(s)
<1>1. i \in 1..n /\ n \in 1..n /\ s # <<>>
  BY DEF HighestAttempt
<1>2. s[i].attempt \in Nat /\ s[n].attempt \in Nat
  <2>1. s[i] \in Row /\ s[n] \in Row
    BY <1>1
  <2> QED BY <2>1 DEF Row
<1>3. s[n].attempt <= s[i].attempt
  BY <1>1 DEF HighestAttempt
<1>4. CASE i = n
  BY <1>1, <1>4 DEF ReadsLast
<1>5. CASE i < n
  <2>1. s[i].attempt = 0 /\ s[n].attempt = 0
    BY <1>1, <1>2, <1>3, <1>5 DEF SerialLog, Rising
  <2> QED BY <1>1, <2>1 DEF ReadsLast
<1> QED BY <1>1, <1>4, <1>5

(* Appending the row that continues the log keeps it serial. *)
LEMMA AppendKeepsSerial ==
  ASSUME NEW s \in Seq(Row), SerialLog(s), NEW p \in Prev, ReadsLast(p, s),
         NEW x \in Row,
         x.attempt = p.attempt + 1,
         p.attempt > 0 => x.fill = p.fill,
         x.server => StampedBy(s, x.created)
  PROVE  SerialLog(Append(s, x))
<1> DEFINE n == Len(s)
           t == Append(s, x)
<1>1. n \in Nat /\ DOMAIN s = 1..n /\ DOMAIN t = 1..(n + 1)
  OBVIOUS
<1>2. t[n + 1] = x /\ \A i \in 1..n : t[i] = s[i]
  OBVIOUS
<1>3. x.attempt \in Nat \ {0} /\ \A i \in 1..n : s[i].attempt \in Nat
  <2>1. p.attempt \in Nat
    BY DEF Prev, NoPrev
  <2>2. \A i \in 1..n : s[i] \in Row
    BY <1>1
  <2> QED BY <2>1, <2>2 DEF Row
<1>4. \A i \in 1..n : s[i].attempt < x.attempt
  <2> SUFFICES ASSUME NEW i \in 1..n PROVE s[i].attempt < x.attempt
    OBVIOUS
  <2>1. s # <<>> /\ n \in 1..n /\ p.attempt = s[n].attempt
    BY <1>1 DEF ReadsLast
  <2>2. i < n => s[i].attempt < s[n].attempt \/ s[n].attempt = s[i].attempt
    BY <1>1, <2>1 DEF SerialLog, Rising
  <2> QED BY <1>3, <2>1, <2>2
<1>5. n > 0 => x.attempt = s[n].attempt + 1
  BY <1>1 DEF ReadsLast
<1>6. n = 0 => x.attempt = 1
  <2>1. n = 0 => p.attempt = 0
    BY <1>1 DEF ReadsLast
  <2> QED BY <2>1
<1>7. \A i \in 1..n : s[i].attempt > 0 => s[i].fill = x.fill
  <2> SUFFICES ASSUME NEW i \in 1..n, s[i].attempt > 0 PROVE s[i].fill = x.fill
    OBVIOUS
  <2>1. s # <<>> /\ n \in 1..n
    BY <1>1
  <2>2. s[n].attempt > 0 /\ s[n].fill = s[i].fill
    <3>1. i < n => s[i].attempt < s[n].attempt
      BY <1>1, <2>1 DEF SerialLog, Rising
    <3>2. s[n].attempt > 0
      BY <1>3, <2>1, <3>1
    <3> QED BY <1>1, <2>1, <3>2 DEF SerialLog, OneFill
  <2>3. p.attempt = s[n].attempt /\ p.fill = s[n].fill
    BY <2>1, <2>2 DEF ReadsLast
  <2> QED BY <2>2, <2>3
<1>8. \A i \in 1..n : s[i].server /\ x.server => s[i].created <= x.created
  BY <1>1 DEF StampedBy
<1>9. \A i, j \in 1..(n + 1) : i < j =>
        \/ t[i].attempt < t[j].attempt
        \/ t[i].attempt = 0 /\ t[j].attempt = 0
  BY <1>1, <1>2, <1>4 DEF SerialLog, Rising
<1>10. \A i \in 1..(n + 1) :
         IF i = 1 THEN t[i].attempt \in {0, 1}
         ELSE \/ t[i].attempt = t[i-1].attempt + 1
              \/ t[i].attempt = 0 /\ t[i-1].attempt = 0
  <2> SUFFICES ASSUME NEW i \in 1..(n + 1)
               PROVE  IF i = 1 THEN t[i].attempt \in {0, 1}
                      ELSE \/ t[i].attempt = t[i-1].attempt + 1
                           \/ t[i].attempt = 0 /\ t[i-1].attempt = 0
    OBVIOUS
  <2>1. CASE i \in 1..n
    <3>1. t[i] = s[i] /\ (i # 1 => i - 1 \in 1..n /\ t[i-1] = s[i-1])
      BY <1>1, <1>2, <2>1
    <3> QED BY <1>1, <2>1, <3>1 DEF SerialLog, Contiguous
  <2>2. CASE i = n + 1 /\ n > 0
    <3>1. t[i] = x /\ i # 1 /\ i - 1 = n /\ n \in 1..n
      BY <1>1, <1>2, <2>2
    <3>2. t[i-1] = s[n]
      BY <1>2, <3>1
    <3> QED BY <1>5, <2>2, <3>1, <3>2
  <2>3. CASE i = n + 1 /\ n = 0
    BY <1>2, <1>6, <2>3
  <2> QED BY <1>1, <2>1, <2>2, <2>3
<1>11. \A i, j \in 1..(n + 1) :
         t[i].attempt > 0 /\ t[j].attempt > 0 => t[i].fill = t[j].fill
  BY <1>1, <1>2, <1>7 DEF SerialLog, OneFill
<1>12. \A i, j \in 1..(n + 1) :
         i < j /\ t[i].server /\ t[j].server => t[i].created <= t[j].created
  BY <1>1, <1>2, <1>8 DEF SerialLog, InTime
<1> QED BY <1>1, <1>9, <1>10, <1>11, <1>12
  DEF SerialLog, Rising, Contiguous, OneFill, InTime

(* Rows that agree on everything but the void mark are equally serial. *)
LEMMA MarkKeepsSerial ==
  ASSUME NEW s \in Seq(Row), NEW t \in Seq(Row), SameButMarks(s, t)
  PROVE  /\ SerialLog(s) => SerialLog(t)
         /\ \A b : StampedBy(s, b) => StampedBy(t, b)
         /\ \A p : ReadsLast(p, s) => ReadsLast(p, t)
<1> USE DEF SameButMarks
<1>1. DOMAIN t = DOMAIN s /\ DOMAIN s = 1..Len(s) /\ Len(s) \in Nat
  OBVIOUS
<1>2. ASSUME SerialLog(s) PROVE SerialLog(t)
  <2>1. \A i \in DOMAIN s : i # 1 => i - 1 \in DOMAIN s
    BY <1>1
  <2>2. \A i \in DOMAIN s : /\ t[i].attempt = s[i].attempt /\ t[i].fill = s[i].fill
                             /\ t[i].created = s[i].created /\ t[i].server = s[i].server
    OBVIOUS
  <2> HIDE DEF SameButMarks
  <2>3. Rising(t)
    BY <1>1, <1>2, <2>2 DEF SerialLog, Rising
  <2>4. Contiguous(t)
    <3> SUFFICES ASSUME NEW i \in DOMAIN s
                 PROVE  IF i = 1 THEN t[i].attempt \in {0, 1}
                        ELSE \/ t[i].attempt = t[i-1].attempt + 1
                             \/ t[i].attempt = 0 /\ t[i-1].attempt = 0
      BY <1>1 DEF Contiguous
    <3>1. i # 1 => t[i-1].attempt = s[i-1].attempt
      BY <2>1, <2>2
    <3>2. t[i].attempt = s[i].attempt
      BY <2>2
    <3>3. IF i = 1 THEN s[i].attempt \in {0, 1}
          ELSE \/ s[i].attempt = s[i-1].attempt + 1
               \/ s[i].attempt = 0 /\ s[i-1].attempt = 0
      BY <1>2 DEF SerialLog, Contiguous
    <3> QED BY <3>1, <3>2, <3>3
  <2>5. OneFill(t)
    BY <1>1, <1>2, <2>2 DEF SerialLog, OneFill
  <2>6. InTime(t)
    BY <1>1, <1>2, <2>2 DEF SerialLog, InTime
  <2> QED BY <2>3, <2>4, <2>5, <2>6 DEF SerialLog
<1>3. \A b : StampedBy(s, b) => StampedBy(t, b)
  BY <1>1 DEF StampedBy
<1>4. \A p : ReadsLast(p, s) => ReadsLast(p, t)
  <2>1. s = <<>> <=> t = <<>>
    BY <1>1
  <2>2. s # <<>> => Len(s) \in DOMAIN s
    BY <1>1
  <2> QED BY <1>1, <2>1, <2>2 DEF ReadsLast
<1> QED BY <1>2, <1>3, <1>4

-----------------------------------------------------------------------------
(* Under MayOverrun = FALSE a lock in the hands of a running request stays   *)
(* there until that request deletes it, so a voter's requests take turns.    *)
(* It holds at the start: no request, and legacy rows only.                  *)
LEMMA SerialisedInit == Init => Serialised
<1> SUFFICES ASSUME Init PROVE Serialised
  OBVIOUS
<1>1. Holders /\ Snapshots
  BY DEF Init, Holders, Snapshots, Critical, Body, Stamped
<1>2. ASSUME NEW c \in Categories, NEW v \in Voters
      PROVE  SerialLog(rows[c][v]) /\ StampedBy(rows[c][v], clock)
  <2>1. rows[c][v] \in Seq(LegacyRow) /\ clock = 0
    BY SubmitAssumption DEF Init
  <2>2. \A i \in DOMAIN rows[c][v] : rows[c][v][i] \in LegacyRow
    BY <2>1
  <2>3. \A i \in DOMAIN rows[c][v] : rows[c][v][i].attempt = 0 /\ rows[c][v][i].created = 0
    BY <2>2 DEF LegacyRow
  <2>4. \A i \in DOMAIN rows[c][v] : i # 1 => i - 1 \in DOMAIN rows[c][v]
    BY <2>1
  <2> QED
    BY <2>1, <2>3, <2>4 DEF SerialLog, Rising, Contiguous, OneFill, InTime, StampedBy
<1> QED BY <1>1, <1>2 DEF Serialised, Logs

(* Two requests of a voter in the locked section are the same request. *)
LEMMA TurnTaking == Holders => OneSubmitAtATime
BY DEF Holders, OneSubmitAtATime

(* A step that leaves the rows alone and starts no snapshot. *)
LEMMA RowsKept ==
  ASSUME TypeOK, TypeOK', Serialised, UNCHANGED <<rows, clock>>,
         \A r \in Requests : pc'[r] \in Stamped =>
            /\ pc[r] \in Stamped /\ job'[r] = job[r] /\ stamp'[r] = stamp[r]
            /\ pc'[r] = "write" => pc[r] = "write" /\ prev'[r] = prev[r]
  PROVE  Logs' /\ Snapshots'
<1>1. Logs'
  BY DEF Serialised, Logs
<1>2. ASSUME NEW r \in Requests
      PROVE  /\ pc'[r] = "write" => ReadsLast(prev'[r], Table(r)')
             /\ pc'[r] \in Stamped /\ job'[r].graphql =>
                  stamp'[r] <= clock' /\ StampedBy(Table(r)', stamp'[r])
  <2>1. pc'[r] \in Stamped => Table(r)' = Table(r)
    BY DEF Table
  <2>2. pc'[r] = "write" => pc'[r] \in Stamped
    BY DEF Stamped
  <2> QED BY <2>1, <2>2 DEF Serialised, Snapshots
<1> QED BY <1>1, <1>2 DEF Snapshots

(* Every step keeps the inductive invariant: the holder's snapshot stays that *)
(* of the end of the log because nobody else appends to it meanwhile.        *)
LEMMA SerialisedStep ==
  ASSUME MayOverrun = FALSE, TypeOK, TypeOK', Serialised, [Next]_vars
  PROVE  Serialised'
<1> USE SubmitAssumption DEF Critical, Body, Stamped
<1>1. ASSUME NEW r \in Requests, NEW j \in Job, Acquire(r, j) PROVE Serialised'
  <2>1. Holders'
    <3> SUFFICES ASSUME NEW q \in Requests, pc'[q] \in Critical
                 PROVE  lock'[job'[q].voter] = q
      BY DEF Holders
    <3>1. CASE q = r
      BY <1>1, <3>1 DEF Acquire, TypeOK, Job
    <3>2. CASE q # r
      <4>1. pc[q] \in Critical /\ job'[q] = job[q] /\ job[q] \in Job
        BY <1>1, <3>2 DEF Acquire, TypeOK
      <4>2. lock[job[q].voter] = q
        BY <4>1 DEF Serialised, Holders
      <4>3. job[q].voter # j.voter
        BY <1>1, <4>2 DEF Acquire
      <4> QED BY <1>1, <4>1, <4>2, <4>3 DEF Acquire, TypeOK, Job
    <3> QED BY <3>1, <3>2
  <2>2. Logs' /\ Snapshots'
    BY <1>1, RowsKept DEF Acquire, TypeOK
  <2> QED BY <2>1, <2>2 DEF Serialised
<1>2. ASSUME NEW r \in Requests, NEW j \in Job, Refuse(r, j) PROVE Serialised'
  <2>1. Holders'
    BY <1>2 DEF Refuse, TypeOK, Serialised, Holders
  <2>2. Logs' /\ Snapshots'
    BY <1>2, RowsKept DEF Refuse, TypeOK
  <2> QED BY <2>1, <2>2 DEF Serialised
<1>3. ASSUME NEW r \in Requests, StampBallot(r) PROVE Serialised'
  <2>1. Holders'
    BY <1>3 DEF StampBallot, TypeOK, Serialised, Holders
  <2>2. Logs'
    BY <1>3 DEF StampBallot, Serialised, Logs
  <2>3. Snapshots'
    <3> SUFFICES ASSUME NEW q \in Requests
                 PROVE  /\ pc'[q] = "write" => ReadsLast(prev'[q], Table(q)')
                        /\ pc'[q] \in Stamped /\ job'[q].graphql =>
                             stamp'[q] <= clock' /\ StampedBy(Table(q)', stamp'[q])
      BY DEF Snapshots
    <3>1. Table(q)' = Table(q) /\ prev'[q] = prev[q] /\ job'[q] = job[q]
      BY <1>3 DEF StampBallot, Table
    <3>2. CASE q = r
      <4>1. pc'[r] # "write" /\ job[r] \in Job /\ (job[r].graphql => stamp'[r] = clock)
        BY <1>3 DEF StampBallot, TypeOK
      <4>2. StampedBy(Table(r), clock)
        BY <4>1 DEF Serialised, Logs, Table, Job
      <4>3. clock \in Nat /\ clock' = clock
        BY <1>3 DEF StampBallot, TypeOK, Clock
      <4> QED BY <3>1, <3>2, <4>1, <4>2, <4>3
    <3>3. CASE q # r
      BY <1>3, <3>1, <3>3 DEF StampBallot, TypeOK, Serialised, Snapshots
    <3> QED BY <3>2, <3>3
  <2> QED BY <2>1, <2>2, <2>3 DEF Serialised
<1>4. ASSUME NEW r \in Requests, CheckPaper(r) PROVE Serialised'
  <2>1. Holders'
    BY <1>4 DEF CheckPaper, TypeOK, Serialised, Holders
  <2>2. Logs' /\ Snapshots'
    BY <1>4, RowsKept DEF CheckPaper, TypeOK
  <2> QED BY <2>1, <2>2 DEF Serialised
<1>5. ASSUME NEW r \in Requests, CheckAnswers(r) PROVE Serialised'
  <2>1. Holders'
    BY <1>5 DEF CheckAnswers, TypeOK, Serialised, Holders
  <2>2. Logs' /\ Snapshots'
    BY <1>5, RowsKept DEF CheckAnswers, TypeOK
  <2> QED BY <2>1, <2>2 DEF Serialised
<1>6. ASSUME NEW r \in Requests, ReadPrev(r) PROVE Serialised'
  <2>1. Holders'
    BY <1>6 DEF ReadPrev, TypeOK, Serialised, Holders
  <2>2. Logs'
    BY <1>6 DEF ReadPrev, Serialised, Logs
  <2>3. ReadsLast(prev'[r], Table(r))
    <3>1. job[r] \in Job
      BY <1>6 DEF ReadPrev, TypeOK
    <3>2. Table(r) \in Seq(Row) /\ SerialLog(Table(r))
      BY <3>1 DEF TypeOK, Table, Job, Serialised, Logs
    <3>3. CASE Table(r) = <<>> /\ prev' = [prev EXCEPT ![r] = NoPrev]
      BY <3>3 DEF TypeOK, ReadsLast, NoPrev
    <3>4. ASSUME NEW i \in HighestAttempt(Table(r)),
                 prev' = [prev EXCEPT ![r] = [attempt |-> Table(r)[i].attempt,
                                              fill    |-> Table(r)[i].fill]]
          PROVE  ReadsLast(prev'[r], Table(r))
      <4>1. prev'[r] = [attempt |-> Table(r)[i].attempt, fill |-> Table(r)[i].fill]
        BY <3>4 DEF TypeOK
      <4> QED BY <3>2, <4>1, HighestIsLast
    <3> QED BY <1>6, <3>3, <3>4 DEF ReadPrev
  <2>4. Snapshots'
    <3> SUFFICES ASSUME NEW q \in Requests
                 PROVE  /\ pc'[q] = "write" => ReadsLast(prev'[q], Table(q)')
                        /\ pc'[q] \in Stamped /\ job'[q].graphql =>
                             stamp'[q] <= clock' /\ StampedBy(Table(q)', stamp'[q])
      BY DEF Snapshots
    <3>1. /\ Table(q)' = Table(q) /\ job'[q] = job[q]
          /\ stamp'[q] = stamp[q] /\ clock' = clock
      BY <1>6 DEF ReadPrev, Table
    <3>2. pc'[q] \in Stamped => pc[q] \in Stamped
      BY <1>6 DEF ReadPrev, TypeOK
    <3>3. q # r => pc'[q] = pc[q] /\ prev'[q] = prev[q]
      BY <1>6 DEF ReadPrev, TypeOK
    <3> QED BY <2>3, <3>1, <3>2, <3>3 DEF Serialised, Snapshots
  <2> QED BY <2>1, <2>2, <2>4 DEF Serialised
<1>7. ASSUME NEW r \in Requests, WriteRow(r) PROVE Serialised'
  <2> DEFINE c == job[r].cat
             v == job[r].voter
             x == RowAfter(prev[r], r)
  <2>1. /\ pc[r] = "write" /\ job[r] \in Job /\ prev[r] \in Prev
        /\ c \in Categories /\ v \in Voters /\ rows[c][v] \in Seq(Row)
    BY <1>7 DEF WriteRow, TypeOK, Job
  <2>2. rows'[c][v] = Append(rows[c][v], x)
    BY <1>7, <2>1 DEF WriteRow, TypeOK
  <2>3. \A d \in Categories, w \in Voters : d # c \/ w # v => rows'[d][w] = rows[d][w]
    BY <1>7, <2>1 DEF WriteRow, TypeOK
  <2>4. clock' = clock /\ job' = job /\ stamp' = stamp /\ prev' = prev /\ lock' = lock
    BY <1>7 DEF WriteRow
  <2>5. ReadsLast(prev[r], rows[c][v])
    BY <2>1 DEF Serialised, Snapshots, Table
  <2>6. x.server => x.created <= clock /\ StampedBy(rows[c][v], x.created)
    BY <2>1 DEF Serialised, Snapshots, Table, RowAfter
  <2>7. x \in Row
    <3>1. stamp[r] \in Clock
      BY DEF TypeOK
    <3> QED BY <2>1, <3>1, RowAfterTyped
  <2>8. x.attempt = prev[r].attempt + 1 /\ (prev[r].attempt > 0 => x.fill = prev[r].fill)
    BY DEF RowAfter
  <2>9. SerialLog(rows'[c][v])
    <3>1. SerialLog(rows[c][v])
      BY <2>1 DEF Serialised, Logs
    <3> HIDE DEF x, c, v
    <3> QED BY <2>1, <2>2, <2>5, <2>6, <2>7, <2>8, <3>1, AppendKeepsSerial
  <2>10. StampedBy(rows'[c][v], clock)
    <3>1. StampedBy(rows[c][v], clock)
      BY <2>1 DEF Serialised, Logs
    <3> HIDE DEF x, c, v
    <3> QED BY <2>1, <2>2, <2>6, <3>1 DEF StampedBy
  <2>11. Logs'
    <3> SUFFICES ASSUME NEW d \in Categories, NEW w \in Voters
                 PROVE  SerialLog(rows'[d][w]) /\ StampedBy(rows'[d][w], clock)
      BY <2>4 DEF Logs
    <3>1. CASE d = c /\ w = v
      BY <2>9, <2>10, <3>1
    <3>2. CASE d # c \/ w # v
      BY <2>3, <3>2 DEF Serialised, Logs
    <3> QED BY <3>1, <3>2
  <2>12. Holders'
    BY <1>7 DEF WriteRow, TypeOK, Serialised, Holders
  <2>13. Snapshots'
    <3> SUFFICES ASSUME NEW q \in Requests, pc'[q] \in Stamped
                 PROVE  /\ pc'[q] = "write" => ReadsLast(prev'[q], Table(q)')
                        /\ job'[q].graphql =>
                             stamp'[q] <= clock' /\ StampedBy(Table(q)', stamp'[q])
      BY DEF Snapshots
    <3>1. q # r /\ pc'[q] = pc[q]
      BY <1>7 DEF WriteRow, TypeOK
    <3>2. job[q] \in Job /\ job[q].voter # v
      <4>1. job[q] \in Job
        BY <3>1 DEF TypeOK
      <4>2. lock[job[q].voter] = q /\ lock[v] = r
        BY <2>1, <3>1 DEF Serialised, Holders
      <4> QED BY <3>1, <4>1, <4>2
    <3>3. Table(q)' = Table(q)
      BY <2>3, <2>4, <3>2 DEF Table, Job
    <3> QED BY <2>4, <3>1, <3>3 DEF Serialised, Snapshots
  <2> QED BY <2>11, <2>12, <2>13 DEF Serialised
<1>8. ASSUME NEW r \in Requests, CheckOwner(r) PROVE Serialised'
  <2>1. Holders'
    <3> SUFFICES ASSUME NEW q \in Requests, pc'[q] \in Critical
                 PROVE  lock'[job'[q].voter] = q
      BY DEF Holders
    <3>1. lock' = lock
      BY <1>8 DEF CheckOwner
    <3>2. pc[q] \in Critical /\ job'[q] = job[q]
      <4>1. CASE q = r
        BY <1>8, <4>1 DEF CheckOwner, End, TypeOK, Critical
      <4>2. CASE q # r
        BY <1>8, <4>2 DEF CheckOwner, End, TypeOK
      <4> QED BY <4>1, <4>2
    <3> QED BY <3>1, <3>2 DEF Serialised, Holders
  <2>2. Logs' /\ Snapshots'
    BY <1>8, RowsKept DEF CheckOwner, End, TypeOK
  <2> QED BY <2>1, <2>2 DEF Serialised
<1>9. ASSUME NEW r \in Requests, DeleteLock(r) PROVE Serialised'
  <2>1. Holders'
    <3> SUFFICES ASSUME NEW q \in Requests, pc'[q] \in Critical
                 PROVE  lock'[job'[q].voter] = q
      BY DEF Holders
    <3>1. q # r /\ pc[q] \in Critical /\ job'[q] = job[q] /\ job[q] \in Job
      BY <1>9 DEF DeleteLock, End, TypeOK
    <3>2. lock[job[q].voter] = q /\ lock[job[r].voter] = r
      BY <1>9, <3>1 DEF DeleteLock, Serialised, Holders
    <3> QED BY <1>9, <3>1, <3>2 DEF DeleteLock, TypeOK, Job
  <2>2. Logs' /\ Snapshots'
    BY <1>9, RowsKept DEF DeleteLock, End, TypeOK
  <2> QED BY <2>1, <2>2 DEF Serialised
<1>10. ASSUME NEW r \in Requests, Abort(r) PROVE Serialised'
  <2>1. Holders'
    BY <1>10 DEF Abort, TypeOK, Serialised, Holders
  <2>2. Logs' /\ Snapshots'
    BY <1>10, RowsKept DEF Abort, TypeOK
  <2> QED BY <2>1, <2>2 DEF Serialised
<1>11. ASSUME NEW r \in Requests, Crash(r) PROVE Serialised'
  <2>1. Holders'
    BY <1>11 DEF Crash, End, TypeOK, Serialised, Holders
  <2>2. Logs' /\ Snapshots'
    BY <1>11, RowsKept DEF Crash, End, TypeOK
  <2> QED BY <2>1, <2>2 DEF Serialised
<1>12. ASSUME NEW w \in Voters, Expire(w) PROVE Serialised'
  <2>1. Holders'
    <3> SUFFICES ASSUME NEW q \in Requests, pc[q] \in Critical
                 PROVE  lock'[job[q].voter] = q
      BY <1>12 DEF Holders, Expire
    <3>1. lock[job[q].voter] = q /\ job[q] \in Job
      BY DEF Serialised, Holders, TypeOK
    <3>2. job[q].voter # w
      BY <1>12, <3>1 DEF Expire
    <3> QED BY <1>12, <3>1, <3>2 DEF Expire, TypeOK, Job
  <2>2. Logs' /\ Snapshots'
    BY <1>12, RowsKept DEF Expire, TypeOK
  <2> QED BY <2>1, <2>2 DEF Serialised
<1>13. ASSUME NEW w \in Answering, NEW g \in {"complete", "partial"}, Regrade(w, g)
       PROVE  Serialised'
  <2>1. Holders'
    BY <1>13 DEF Regrade, Serialised, Holders
  <2>2. Logs' /\ Snapshots'
    BY <1>13, RowsKept DEF Regrade, TypeOK
  <2> QED BY <2>1, <2>2 DEF Serialised
<1>14. ASSUME Admin PROVE Serialised'
  <2>1. PICK c \in Categories, v \in Voters, value \in BOOLEAN :
          \E i \in DOMAIN rows[c][v] : SetInvalidated(c, v, i, value)
    BY <1>14 DEF Admin
  <2>2. PICK k \in DOMAIN rows[c][v] : SetInvalidated(c, v, k, value)
    BY <2>1
  <2>3. UNCHANGED <<lock, clock, pc, job, stamp, prev>>
    BY <2>2 DEF SetInvalidated
  <2>4. \A d \in Categories, w \in Voters : SameButMarks(rows[d][w], rows'[d][w])
    <3> SUFFICES ASSUME NEW d \in Categories, NEW w \in Voters
                 PROVE  SameButMarks(rows[d][w], rows'[d][w])
      OBVIOUS
    <3>1. CASE d = c /\ w = v
      <4>1. rows'[c][v] = [rows[c][v] EXCEPT ![k].invalidated = value]
        BY <2>2 DEF SetInvalidated, TypeOK
      <4>2. rows[c][v] \in Seq(Row) /\ rows[c][v][k] \in Row
        BY DEF TypeOK
      <4> QED BY <3>1, <4>1, <4>2 DEF SameButMarks, Row
    <3>2. CASE d # c \/ w # v
      BY <2>2, <3>2 DEF SetInvalidated, TypeOK, SameButMarks
    <3> QED BY <3>1, <3>2
  <2>5. \A d \in Categories, w \in Voters :
          /\ SerialLog(rows[d][w]) => SerialLog(rows'[d][w])
          /\ \A b : StampedBy(rows[d][w], b) => StampedBy(rows'[d][w], b)
          /\ \A p : ReadsLast(p, rows[d][w]) => ReadsLast(p, rows'[d][w])
    <3> SUFFICES ASSUME NEW d \in Categories, NEW w \in Voters
                 PROVE  /\ SerialLog(rows[d][w]) => SerialLog(rows'[d][w])
                        /\ \A b : StampedBy(rows[d][w], b) => StampedBy(rows'[d][w], b)
                        /\ \A p : ReadsLast(p, rows[d][w]) => ReadsLast(p, rows'[d][w])
      OBVIOUS
    <3>1. rows[d][w] \in Seq(Row) /\ rows'[d][w] \in Seq(Row)
      BY DEF TypeOK
    <3> QED BY <2>4, <3>1, MarkKeepsSerial
  <2>6. Holders'
    BY <2>3 DEF Serialised, Holders
  <2>7. Logs'
    BY <2>3, <2>5 DEF Serialised, Logs
  <2>8. Snapshots'
    <3> SUFFICES ASSUME NEW q \in Requests
                 PROVE  /\ pc'[q] = "write" => ReadsLast(prev'[q], Table(q)')
                        /\ pc'[q] \in Stamped /\ job'[q].graphql =>
                             stamp'[q] <= clock' /\ StampedBy(Table(q)', stamp'[q])
      BY DEF Snapshots
    <3>1. CASE pc[q] \in Stamped
      <4>1. job[q].cat \in Categories /\ job[q].voter \in Voters
        BY <3>1 DEF TypeOK, Job
      <4> QED BY <2>3, <2>5, <3>1, <4>1 DEF Serialised, Snapshots, Table
    <3>2. CASE pc[q] \notin Stamped
      BY <2>3, <3>2
    <3> QED BY <3>1, <3>2
  <2> QED BY <2>6, <2>7, <2>8 DEF Serialised
<1>15. ASSUME Tick PROVE Serialised'
  <2>1. /\ UNCHANGED <<lock, rows, pc, job, stamp, prev>>
        /\ clock' = clock + 1 /\ clock \in Nat
    BY <1>15 DEF Tick, TypeOK, Clock
  <2>2. \A r \in Requests : stamp[r] \in Nat
    BY DEF TypeOK, Clock
  <2>3. Logs'
    <3> SUFFICES ASSUME NEW d \in Categories, NEW w \in Voters
                 PROVE  SerialLog(rows[d][w]) /\ StampedBy(rows[d][w], clock + 1)
      BY <2>1 DEF Logs
    <3>1. SerialLog(rows[d][w]) /\ StampedBy(rows[d][w], clock)
      BY DEF Serialised, Logs
    <3>2. \A i \in DOMAIN rows[d][w] : rows[d][w][i].created \in Nat
      <4>1. \A i \in DOMAIN rows[d][w] : rows[d][w][i] \in Row
        BY DEF TypeOK
      <4> QED BY <4>1 DEF Row, Clock
    <3> QED BY <2>1, <3>1, <3>2 DEF StampedBy
  <2>4. Holders'
    BY <2>1 DEF Serialised, Holders
  <2>5. Snapshots'
    BY <2>1, <2>2 DEF Serialised, Snapshots, Table
  <2> QED BY <2>3, <2>4, <2>5 DEF Serialised
<1>16. CASE UNCHANGED vars
  BY <1>16 DEF vars, Serialised, Holders, Logs, Snapshots, Table
<1> QED
  BY <1>1, <1>2, <1>3, <1>4, <1>5, <1>6, <1>7, <1>8, <1>9, <1>10, <1>11, <1>12,
     <1>13, <1>14, <1>15, <1>16 DEF Next, Step

(* Submits that do not outlive their lock are serialised, as SubmitDAO._upsert *)
(* takes for granted between its SELECT and its INSERT.                       *)
THEOREM SerialisedSubmits == MayOverrun = FALSE /\ Spec => []Serialised
<1> SUFFICES ASSUME MayOverrun = FALSE PROVE Spec => []Serialised
  OBVIOUS
<1>1. TypeOK /\ TypeOK' /\ Serialised /\ [Next]_vars => Serialised'
  BY SerialisedStep
<1> QED BY <1>1, SerialisedInit, TypeCorrect, PTL DEF Spec

-----------------------------------------------------------------------------
(* The promises of the vote store, for every instance. *)

(* _submit_lock: a voter's submits exclude each other. *)
THEOREM OneSubmit == MayOverrun = FALSE /\ Spec => []OneSubmitAtATime
BY SerialisedSubmits, TurnTaking, PTL DEF Serialised

(* _upsert: attempts are 1, 2, 3, ... in commit order. *)
THEOREM AttemptsCount == MayOverrun = FALSE /\ Spec => []AttemptsSerial
<1>1. Serialised => AttemptsSerial
  BY DEF Serialised, Logs, SerialLog, Contiguous, AttemptsSerial
<1> QED BY <1>1, SerialisedSubmits, PTL

(* _upsert: the first fill time survives every edit. *)
THEOREM FillTimeKept == MayOverrun = FALSE /\ Spec => []FirstFillKept
<1>1. Serialised => FirstFillKept
  BY DEF Serialised, Logs, SerialLog, OneFill, FirstFillKept
<1> QED BY <1>1, SerialisedSubmits, PTL

(* _latest_per_vote and get_*_submit pick the ballot committed last. *)
THEOREM LastCommitWins == MayOverrun = FALSE /\ Spec => []TallyReadsLastCommit
<1>1. TypeOK /\ Serialised => TallyReadsLastCommit
  <2> SUFFICES ASSUME TypeOK, Serialised, NEW c \in Categories, NEW v \in Voters,
                      rows[c][v] # <<>>,
                      rows[c][v][Len(rows[c][v])].attempt > 0,
                      \A i \in DOMAIN rows[c][v] : rows[c][v][i].server
               PROVE  LatestRows(rows[c][v]) = {Len(rows[c][v])}
    BY DEF TallyReadsLastCommit
  <2> DEFINE s == rows[c][v]
             n == Len(s)
  <2>1. s \in Seq(Row) /\ n \in DOMAIN s /\ DOMAIN s = 1..n /\ SerialLog(s)
    BY DEF TypeOK, Serialised, Logs
  <2>2. \A i \in DOMAIN s : s[i].attempt \in Nat /\ s[i].created \in Nat
    <3>1. \A i \in DOMAIN s : s[i] \in Row
      BY <2>1
    <3> QED BY <3>1 DEF Row, Clock
  <2> HIDE DEF s
  <2>3. \A i \in DOMAIN s : i # n =>
          s[i].attempt < s[n].attempt /\ s[i].created <= s[n].created
    <3>1. s[n].attempt > 0 /\ \A i \in DOMAIN s : s[i].server
      BY DEF s
    <3> QED BY <2>1, <2>2, <3>1 DEF SerialLog, Rising, InTime
  <2>4. \A i \in DOMAIN s : i # n => Newer(s[n], s[i]) /\ ~Newer(s[i], s[n])
    BY <2>1, <2>2, <2>3 DEF Newer
  <2>5. ~Newer(s[n], s[n])
    BY <2>1, <2>2 DEF Newer
  <2> QED BY <2>1, <2>4, <2>5 DEF LatestRows, s
<1> QED BY <1>1, SerialisedSubmits, TypeCorrect, PTL

(* Lock, SELECT and INSERT together implement the atomic ballot box. *)
THEOREM Refinement == MayOverrun = FALSE /\ Spec => BoxSpec
<1>1. Init => Box!Init
  BY DEF Init, Box!Init
<1>2. TypeOK /\ Serialised /\ [Next]_vars => [Box!Next]_rows
  <2> SUFFICES ASSUME TypeOK, Serialised, [Next]_vars PROVE [Box!Next]_rows
    OBVIOUS
  <2>1. ASSUME NEW r \in Requests, WriteRow(r) PROVE Box!Next
    <3> DEFINE c == job[r].cat
               v == job[r].voter
               b == [attempt |-> 0, fill |-> job[r].fill, created |-> stamp[r],
                     server |-> job[r].graphql, full |-> TRUE, invalidated |-> FALSE]
    <3>1. pc[r] = "write" /\ job[r] \in Job /\ stamp[r] \in Clock
          /\ prev[r] \in Prev /\ rows[c][v] \in Seq(Row)
      BY <2>1 DEF WriteRow, TypeOK, Critical, Body, Job
    <3>2. b \in Ballot /\ c \in Categories /\ v \in Voters
      BY <3>1 DEF Ballot, Job
    <3>3. ReadsLast(prev[r], rows[c][v])
      BY <3>1 DEF Serialised, Snapshots, Table
    <3>4. RowAfter(prev[r], r) = Box!Following(rows[c][v], b)
      <4>1. prev[r].attempt \in Nat
        BY <3>1 DEF Prev, NoPrev
      <4>2. CASE prev[r].attempt = 0
        <5>1. Box!Following(rows[c][v], b) = [b EXCEPT !.attempt = 1]
          BY <3>3, <4>2 DEF Box!Following, ReadsLast
        <5>2. prev[r].attempt + 1 = 1
          BY <4>2
        <5>3. RowAfter(prev[r], r)
                = [attempt |-> 1, fill |-> job[r].fill, created |-> stamp[r],
                   server |-> job[r].graphql, full |-> TRUE, invalidated |-> FALSE]
          BY <4>2, <5>2 DEF RowAfter
        <5> QED BY <5>1, <5>3
      <4>3. CASE prev[r].attempt # 0
        <5>1. rows[c][v] # <<>>
              /\ rows[c][v][Len(rows[c][v])].attempt = prev[r].attempt
              /\ rows[c][v][Len(rows[c][v])].fill = prev[r].fill
          BY <3>3, <4>1, <4>3 DEF ReadsLast
        <5>2. Box!Following(rows[c][v], b)
                = [b EXCEPT !.attempt = prev[r].attempt + 1, !.fill = prev[r].fill]
          BY <4>3, <5>1 DEF Box!Following
        <5> QED BY <4>3, <5>2 DEF RowAfter
      <4> QED BY <4>2, <4>3
    <3>5. rows' = [rows EXCEPT ![c][v] = Append(@, RowAfter(prev[r], r))]
      BY <2>1 DEF WriteRow
    <3>6. Box!Cast(c, v)
      BY <3>2, <3>4, <3>5 DEF Box!Cast
    <3> QED BY <3>2, <3>6 DEF Box!Next
  <2>2. ASSUME Admin PROVE Box!Next
    <3>1. PICK c \in Categories, v \in Voters, value \in BOOLEAN :
            \E i \in DOMAIN rows[c][v] : SetInvalidated(c, v, i, value)
      BY <2>2 DEF Admin
    <3>2. PICK i \in DOMAIN rows[c][v] : SetInvalidated(c, v, i, value)
      BY <3>1
    <3>3. Box!Mark(c, v, i, value)
      BY <3>2 DEF SetInvalidated, Box!Mark
    <3> QED BY <3>3 DEF Box!Next
  <2>3. CASE UNCHANGED rows
    BY <2>3
  <2>4. QED
    BY <2>1, <2>2, <2>3
    DEF Next, Step, vars, Acquire, Refuse, StampBallot, CheckPaper, CheckAnswers,
        ReadPrev, CheckOwner, DeleteLock, Abort, Crash, Expire, Regrade, Tick
<1> QED BY <1>1, <1>2, SerialisedSubmits, TypeCorrect, PTL DEF Spec, BoxSpec, Box!Spec

-----------------------------------------------------------------------------
(* The questionnaire gate needs no lock: what entitles a voter (a complete   *)
(* batch at some time, a paper row with content) is never taken back, and a  *)
(* gated request past the gate has seen it.                                  *)
PastGate ==
  \A r \in Requests :
    pc[r] \in {"read", "write"} /\ job[r].cat \in Gated => Entitled(job[r].voter)

AnswersKnown == \A v \in Voters : answers[v] = "complete" => v \in passed

GateInv == PastGate /\ AnswersKnown /\ GatedBallotsAreEntitled

(* No step takes an entitlement back. *)
LEMMA EntitlementKept ==
  ASSUME TypeOK, [Next]_vars, NEW v \in Voters, Entitled(v)
  PROVE  Entitled(v)'
<1> USE DEF Entitled
<1>1. rows[Paper] \in [Voters -> Seq(Row)] /\ Paper \in Categories
  BY DEF TypeOK, Categories
<1>2. ASSUME NEW r \in Requests, WriteRow(r) PROVE Entitled(v)'
  <2> DEFINE s == rows[Paper][v]
  <2>1. passed' = passed /\ s \in Seq(Row)
    BY <1>1, <1>2 DEF WriteRow
  <2>2. rows'[Paper][v] = s \/ rows'[Paper][v] = Append(s, RowAfter(prev[r], r))
    BY <1>1, <1>2 DEF WriteRow, TypeOK
  <2>3. \A i \in DOMAIN s : i \in DOMAIN rows'[Paper][v] /\ rows'[Paper][v][i] = s[i]
    BY <2>1, <2>2
  <2> QED BY <2>1, <2>3
<1>3. ASSUME Admin PROVE Entitled(v)'
  <2>1. PICK c \in Categories, w \in Voters, value \in BOOLEAN :
          \E i \in DOMAIN rows[c][w] : SetInvalidated(c, w, i, value)
    BY <1>3 DEF Admin
  <2>2. PICK k \in DOMAIN rows[c][w] : SetInvalidated(c, w, k, value)
    BY <2>1
  <2>3. passed' = passed
    BY <2>2 DEF SetInvalidated
  <2>4. rows[c][w] \in Seq(Row) /\ rows[c][w][k] \in Row
    BY DEF TypeOK
  <2>5. rows'[c][w] = [rows[c][w] EXCEPT ![k].invalidated = value]
    BY <2>2 DEF SetInvalidated, TypeOK
  <2>6. \A i \in DOMAIN rows[Paper][v] :
          /\ i \in DOMAIN rows'[Paper][v]
          /\ rows'[Paper][v][i].full = rows[Paper][v][i].full
    <3>1. CASE c = Paper /\ w = v
      BY <2>4, <2>5, <3>1 DEF Row
    <3>2. CASE c # Paper \/ w # v
      BY <1>1, <2>2, <3>2 DEF SetInvalidated, TypeOK
    <3> QED BY <3>1, <3>2
  <2> QED BY <2>3, <2>6
<1>4. CASE passed \subseteq passed' /\ UNCHANGED rows
  BY <1>4
<1> QED
  BY <1>2, <1>3, <1>4
  DEF Next, Step, vars, Acquire, Refuse, StampBallot, CheckPaper, CheckAnswers, End,
      ReadPrev, CheckOwner, DeleteLock, Abort, Crash, Expire, Regrade, Tick

(* _require_questionnaire (R-03): a gated ballot belongs to a voter who had  *)
(* completed the questionnaire at some time, even when locks expire under    *)
(* their holders and the administrator voids papers in between.              *)
THEOREM GateHolds == Spec => []GatedBallotsAreEntitled
<1>1. Init => GateInv
  <2> SUFFICES ASSUME Init PROVE GateInv
    OBVIOUS
  <2>1. PastGate /\ AnswersKnown
    BY DEF Init, PastGate, AnswersKnown
  <2>2. ASSUME NEW c \in Gated, NEW v \in Voters, NEW i \in DOMAIN rows[c][v]
        PROVE  rows[c][v][i].attempt = 0
    <3>1. rows[c][v] \in Seq(LegacyRow)
      BY SubmitAssumption DEF Init, Categories
    <3>2. rows[c][v][i] \in LegacyRow
      BY <3>1
    <3> QED BY <3>2 DEF LegacyRow
  <2> QED BY <2>1, <2>2 DEF GateInv, GatedBallotsAreEntitled
<1>2. TypeOK /\ TypeOK' /\ GateInv /\ [Next]_vars => GateInv'
  <2> SUFFICES ASSUME TypeOK, TypeOK', GateInv, [Next]_vars PROVE GateInv'
    OBVIOUS
  <2> USE SubmitAssumption
  <2>1. AnswersKnown'
    <3>1. CASE UNCHANGED <<answers, passed>>
      BY <3>1 DEF GateInv, AnswersKnown
    <3>2. ASSUME NEW w \in Answering, NEW g \in {"complete", "partial"}, Regrade(w, g)
          PROVE  AnswersKnown'
      BY <3>2 DEF Regrade, GateInv, AnswersKnown, TypeOK
    <3> QED
      BY <3>1, <3>2
      DEF Next, Step, vars, Acquire, Refuse, StampBallot, CheckPaper, CheckAnswers, End,
          ReadPrev, WriteRow, CheckOwner, DeleteLock, Abort, Crash, Expire, Tick,
          Admin, SetInvalidated
  <2>2. PastGate'
    <3>0. ASSUME NEW r \in Requests, pc'[r] \in {"read", "write"}
          PROVE  job'[r] \in Job
      BY <3>0 DEF TypeOK, Critical, Body
    <3> SUFFICES ASSUME NEW r \in Requests, NEW v \in Voters,
                        pc'[r] \in {"read", "write"},
                        job'[r].cat \in Gated, job'[r].voter = v
                 PROVE  Entitled(v)'
      BY <3>0 DEF PastGate, Job, Entitled
    <3>1. job'[r] \in Job
      BY <3>0
    <3>2. CASE /\ pc[r] \in {"read", "write"} /\ job'[r] = job[r]
      BY <3>2, EntitlementKept DEF GateInv, PastGate
    <3>3. CASE CheckPaper(r)
      <4>1. job' = job /\ PaperMeaningful(v)
        BY <3>3 DEF CheckPaper, TypeOK
      <4>2. Entitled(v)
        BY <4>1 DEF PaperMeaningful, LatestPaper, Entitled
      <4> QED BY <4>2, EntitlementKept
    <3>4. CASE CheckAnswers(r)
      <4>1. answers[v] = "complete"
        BY <3>4 DEF CheckAnswers, TypeOK
      <4>2. Entitled(v)
        BY <4>1 DEF GateInv, AnswersKnown, Entitled
      <4> QED BY <4>2, EntitlementKept
    <3>5. CASE StampBallot(r)
      <4>1. pc'[r] = "paper"
        BY <3>5 DEF StampBallot, TypeOK
      <4> QED BY <4>1
    <3>6. ASSUME NEW q \in Requests,
                 \/ \E j \in Job : Acquire(q, j) \/ Refuse(q, j)
                 \/ ReadPrev(q) \/ WriteRow(q) \/ Abort(q)
          PROVE  pc[r] \in {"read", "write"} /\ job'[r] = job[r]
      BY <3>6 DEF Acquire, Refuse, ReadPrev, WriteRow, Abort, TypeOK
    <3>7. ASSUME NEW q \in Requests, CheckOwner(q) \/ DeleteLock(q) \/ Crash(q)
          PROVE  pc[r] \in {"read", "write"} /\ job'[r] = job[r]
      BY <3>7 DEF CheckOwner, DeleteLock, Crash, End, TypeOK
    <3>8. ASSUME NEW q \in Requests, q # r,
                 StampBallot(q) \/ CheckPaper(q) \/ CheckAnswers(q)
          PROVE  pc[r] \in {"read", "write"} /\ job'[r] = job[r]
      BY <3>8 DEF StampBallot, CheckPaper, CheckAnswers, TypeOK
    <3>9. CASE UNCHANGED <<pc, job>>
      BY <3>2, <3>9
    <3> QED
      BY <3>2, <3>3, <3>4, <3>5, <3>6, <3>7, <3>8, <3>9
      DEF Next, Step, vars, Expire, Tick, Regrade, Admin, SetInvalidated
  <2>3. GatedBallotsAreEntitled'
    <3> SUFFICES ASSUME NEW c \in Gated, NEW v \in Voters,
                        NEW i \in DOMAIN rows'[c][v], rows'[c][v][i].attempt > 0
                 PROVE  Entitled(v)'
      BY DEF GatedBallotsAreEntitled
    <3>0. c \in Categories /\ rows[c][v] \in Seq(Row)
      BY DEF Categories, TypeOK
    <3>1. CASE i \in DOMAIN rows[c][v] /\ rows[c][v][i].attempt > 0
      BY <3>1, EntitlementKept DEF GateInv, GatedBallotsAreEntitled
    <3>2. ASSUME NEW r \in Requests, WriteRow(r) PROVE Entitled(v)'
      <4>1. pc[r] = "write" /\ job[r] \in Job
        BY <3>2 DEF WriteRow, TypeOK, Critical, Body
      <4>2. CASE job[r].cat = c /\ job[r].voter = v
        BY <4>1, <4>2, EntitlementKept DEF GateInv, PastGate
      <4>3. CASE job[r].cat # c \/ job[r].voter # v
        <5>1. rows'[c][v] = rows[c][v]
          BY <3>0, <3>2, <4>1, <4>3 DEF WriteRow, TypeOK, Job
        <5> QED BY <3>1, <5>1
      <4> QED BY <4>2, <4>3
    <3>3. ASSUME Admin PROVE Entitled(v)'
      <4>1. PICK d \in Categories, w \in Voters, value \in BOOLEAN :
              \E k \in DOMAIN rows[d][w] : SetInvalidated(d, w, k, value)
        BY <3>3 DEF Admin
      <4>2. PICK k \in DOMAIN rows[d][w] : SetInvalidated(d, w, k, value)
        BY <4>1
      <4>3. rows[d][w] \in Seq(Row) /\ rows[d][w][k] \in Row
        BY DEF TypeOK
      <4>4. rows'[d][w] = [rows[d][w] EXCEPT ![k].invalidated = value]
        BY <4>2 DEF SetInvalidated, TypeOK
      <4>5. i \in DOMAIN rows[c][v] /\ rows'[c][v][i].attempt = rows[c][v][i].attempt
        <5>1. CASE d = c /\ w = v
          <6>1. i \in DOMAIN rows[d][w]
            BY <4>3, <4>4, <5>1
          <6>2. CASE i = k
            BY <4>3, <4>4, <5>1, <6>1, <6>2 DEF Row
          <6>3. CASE i # k
            BY <4>3, <4>4, <5>1, <6>1, <6>3
          <6> QED BY <5>1, <6>1, <6>2, <6>3
        <5>2. CASE d # c \/ w # v
          BY <3>0, <4>2, <5>2 DEF SetInvalidated, TypeOK
        <5> QED BY <5>1, <5>2
      <4> QED BY <3>1, <4>5
    <3>4. CASE UNCHANGED rows
      BY <3>1, <3>4
    <3> QED
      BY <3>2, <3>3, <3>4
      DEF Next, Step, vars, Acquire, Refuse, StampBallot, CheckPaper, CheckAnswers,
          ReadPrev, CheckOwner, DeleteLock, Abort, Crash, Expire, Regrade, Tick
  <2> QED BY <2>1, <2>2, <2>3 DEF GateInv
<1> QED BY <1>1, <1>2, TypeCorrect, PTL DEF Spec, GateInv
=============================================================================
