--------------------------- MODULE MigrationProofs ---------------------------
(***************************************************************************)
(* Proofs about what is brought over from the old site.                    *)
(*                                                                         *)
(* MongoSync: what lies at or below a checkpoint has been copied or        *)
(* reported, for any collections, batch size, runs and jobs - if           *)
(* PostgreSQL refuses no row.  With refused rows it is false: a            *)
(* transaction that is aborted takes the rows before the refused one with  *)
(* it, and they are reported nowhere.                                      *)
(*                                                                         *)
(* LegacyImport, for any dump, chunk size, number of batches and people:   *)
(* the records of a person stay one account, nobody is forgotten by a plan *)
(* that has the whole dump, and a rollback deletes none but imported       *)
(* accounts.                                                               *)
(***************************************************************************)
EXTENDS MongoSync, LegacyImport, FiniteSetTheorems, WellFoundedInduction, TLAPS

Inside == {"scan", "flush", "save"}

(* The shape of the state the argument needs. *)
Shape ==
  /\ stored \in [Names -> SUBSET Nat] /\ reported \in [Names -> SUBSET Nat]
  /\ checkpoint \in [Runs -> [Names -> Nat]]
  /\ pc \in [Jobs -> {"idle"} \cup Working \cup Ended]
  /\ run \in [Jobs -> Runs \cup {NoRun}]
  /\ \A w \in Jobs : pc[w] # "idle" => run[w] \in Runs
  /\ at \in [Jobs -> Nat \ {0}]
  /\ pos \in [Jobs -> Nat]
  /\ batch \in [Jobs -> Seq(Nat)]

(* What a job has seen of its collection is accounted for or in its batch. *)
Seen(w) ==
  pc[w] \in Inside =>
    /\ at[w] <= Len(Collections)
    /\ InBatch(w) \subseteq 1..pos[w]
    /\ 1..pos[w] \subseteq Accounted(Here(w)) \cup InBatch(w)

Full(w) == pc[w] \in {"flush", "save"} => batch[w] # <<>>

Flushed(w) == pc[w] = "save" => InBatch(w) \subseteq Accounted(Here(w))

Covered ==
  /\ Shape
  /\ \A w \in Jobs : Seen(w) /\ Full(w) /\ Flushed(w)
  /\ CheckpointCovers

LEMMA HereIsNamed ==
  ASSUME SyncAssumption, NEW w, at[w] \in Nat \ {0}, at[w] <= Len(Collections)
  PROVE  Here(w) \in Names
  BY DEF SyncAssumption, Here, Names, Range

(* A batch and one more document. *)
LEMMA AppendInBatch ==
  ASSUME NEW s \in Seq(Nat), NEW d \in Nat
  PROVE  /\ Append(s, d) \in Seq(Nat) /\ Append(s, d) # <<>>
         /\ Range(Append(s, d)) = Range(s) \cup {d}
  <1>1. \A i \in 1..Len(s) : Append(s, d)[i] = s[i]
    OBVIOUS
  <1>2. Append(s, d)[Len(s) + 1] = d /\ Len(Append(s, d)) = Len(s) + 1
    OBVIOUS
  <1>3. DOMAIN s = 1..Len(s) /\ DOMAIN Append(s, d) = 1..(Len(s) + 1)
    OBVIOUS
  <1>4. Range(s) \cup {d} \subseteq Range(Append(s, d))
    BY <1>1, <1>2, <1>3 DEF Range
  <1>5. Range(Append(s, d)) \subseteq Range(s) \cup {d}
    BY <1>1, <1>2, <1>3 DEF Range
  <1> QED BY <1>4, <1>5

LEMMA CoveredInit ==
  ASSUME SyncAssumption, Init
  PROVE  Covered
  <1>1. stored \in [Names -> SUBSET Nat]
    <2>1. \A c \in Names : Present[c] \subseteq Nat
      BY DEF SyncAssumption, Docs
    <2> QED BY <2>1 DEF Init, SyncAssumption
  <1>2. Shape
    BY <1>1 DEF Init, Shape, Working, Ended
  <1>3. CheckpointCovers
    BY DEF Init, CheckpointCovers
  <1>4. \A w \in Jobs : Seen(w) /\ Full(w) /\ Flushed(w)
    BY DEF Init, Seen, Full, Flushed, Inside
  <1> QED BY <1>2, <1>3, <1>4 DEF Covered

(* The checkpoint is the last document of a batch that has been flushed.   *)
LEMMA SaveCovers ==
  ASSUME SyncAssumption, Covered, NEW w \in Jobs, SaveCheckpoint(w)
  PROVE  Covered'
  <1> USE DEF Covered, Shape, Inside, Working, Ended
  <1> DEFINE last == batch[w][Len(batch[w])]
  <1>1. pc[w] = "save" /\ at[w] <= Len(Collections) /\ run[w] \in Runs /\ Here(w) \in Names
    BY HereIsNamed DEF SaveCheckpoint, Seen
  <1>2. batch[w] \in Seq(Nat) /\ batch[w] # <<>>
    BY <1>1 DEF Full
  <1>3. last \in InBatch(w) /\ last \in Nat
    BY <1>2 DEF InBatch, Range
  <1>4. last <= pos[w] /\ pos[w] \in Nat
    BY <1>1, <1>3 DEF Seen
  <1>5. 1..pos[w] \subseteq Accounted(Here(w))
    BY <1>1 DEF Seen, Flushed
  <1>6. 1..last \subseteq Accounted(Here(w))
    BY <1>3, <1>4, <1>5
  <1>7. /\ checkpoint' = [checkpoint EXCEPT ![run[w]][Here(w)] = last]
        /\ batch' = [batch EXCEPT ![w] = <<>>]
        /\ pc' = [pc EXCEPT ![w] = "scan"]
        /\ stored' = stored /\ reported' = reported /\ run' = run /\ at' = at /\ pos' = pos
    BY DEF SaveCheckpoint, Goto, database
  <1>8. Shape'
    <2>1. checkpoint' \in [Runs -> [Names -> Nat]]
      BY <1>1, <1>3, <1>7
    <2>2. batch' \in [Jobs -> Seq(Nat)]
      BY <1>7
    <2> QED BY <1>1, <1>7, <2>1, <2>2
  <1>9. CheckpointCovers'
    <2>1. \A n : Accounted(n)' = Accounted(n)
      BY <1>7 DEF Accounted
    <2>2. ASSUME NEW r \in Runs, NEW c \in Names
          PROVE  checkpoint'[r][c] = checkpoint[r][c] \/ (c = Here(w) /\ checkpoint'[r][c] = last)
      BY <1>1, <1>7
    <2> QED BY <2>1, <2>2, <1>6 DEF CheckpointCovers
  <1>10. ASSUME NEW v \in Jobs PROVE (Seen(v) /\ Full(v) /\ Flushed(v))'
    <2>1. Here(v)' = Here(v) /\ \A n : Accounted(n)' = Accounted(n)
      BY <1>7 DEF Here, Accounted
    <2>2. CASE v = w
      <3>1. InBatch(w)' = {} /\ pc'[w] = "scan"
        BY <1>7 DEF InBatch, Range
      <3> QED BY <2>1, <2>2, <3>1, <1>1, <1>5, <1>7 DEF Seen, Full, Flushed
    <2>3. CASE v # w
      <3>1. pc'[v] = pc[v] /\ batch'[v] = batch[v]
        BY <2>3, <1>7
      <3>2. InBatch(v)' = InBatch(v)
        BY <3>1 DEF InBatch
      <3> QED BY <2>1, <3>1, <3>2, <1>7 DEF Seen, Full, Flushed
    <2> QED BY <2>2, <2>3
  <1> QED BY <1>8, <1>9, <1>10

(* A document joins the batch or the error file. *)
LEMMA ScanCovers ==
  ASSUME SyncAssumption, Covered, NEW w \in Jobs, ScanDocument(w)
  PROVE  Covered'
  <1> USE DEF Covered, Shape, Inside, Working, Ended
  <1> DEFINE c == Here(w)
             doc == pos[w] + 1
  <1>1. pc[w] = "scan" /\ at[w] <= Len(Collections) /\ c \in Names /\ doc \in Nat
    BY HereIsNamed DEF ScanDocument, Seen
  <1>2. 1..doc = 1..pos[w] \cup {doc}
    BY <1>1
  <1>3. CASE doc \in Unmappable[c]
    <2>1. /\ pos' = [pos EXCEPT ![w] = doc]
          /\ reported' = [reported EXCEPT ![c] = @ \cup {doc}]
          /\ UNCHANGED <<batch, pc, stored, redis, run, at>>
      BY <1>3 DEF ScanDocument
    <2>2. Shape'
      BY <2>1, <1>1 DEF redis
    <2>3. CheckpointCovers'
      BY <2>1, <1>1 DEF CheckpointCovers, Accounted, redis
    <2>4. ASSUME NEW v \in Jobs PROVE (Seen(v) /\ Full(v) /\ Flushed(v))'
      <3>1. \A n \in Names : Accounted(n) \subseteq Accounted(n)'
        BY <2>1, <1>1 DEF Accounted
      <3>2. InBatch(v)' = InBatch(v) /\ Here(v)' = Here(v) /\ pc'[v] = pc[v]
        BY <2>1 DEF InBatch, Here
      <3>3. pc[v] \in Inside => Here(v) \in Names
        BY HereIsNamed DEF Seen
      <3>4. CASE v = w
        BY <3>1, <3>2, <3>4, <1>1, <1>2, <2>1 DEF Seen, Full, Flushed, Accounted
      <3>5. CASE v # w
        BY <3>1, <3>2, <3>3, <3>5, <2>1 DEF Seen, Full, Flushed, Accounted
      <3> QED BY <3>4, <3>5
    <2> QED BY <2>2, <2>3, <2>4
  <1>4. CASE doc \notin Unmappable[c]
    <2>1. /\ pos' = [pos EXCEPT ![w] = doc]
          /\ batch' = [batch EXCEPT ![w] = Append(@, doc)]
          /\ \E l \in {"flush", "scan"} : pc' = [pc EXCEPT ![w] = l]
          /\ UNCHANGED <<reported, stored, redis, run, at>>
      BY <1>4 DEF ScanDocument, Goto
    <2>2. /\ batch[w] \in Seq(Nat) /\ batch'[w] = Append(batch[w], doc)
          /\ batch'[w] \in Seq(Nat) /\ batch'[w] # <<>>
          /\ InBatch(w)' = InBatch(w) \cup {doc}
      <3>1. batch[w] \in Seq(Nat) /\ batch'[w] = Append(batch[w], doc)
        BY <2>1
      <3> HIDE DEF doc
      <3>2. /\ Append(batch[w], doc) \in Seq(Nat) /\ Append(batch[w], doc) # <<>>
            /\ Range(Append(batch[w], doc)) = Range(batch[w]) \cup {doc}
        BY <3>1, <1>1, AppendInBatch, Zenon
      <3>5. InBatch(w)' = InBatch(w) \cup {doc}
        BY <3>1, <3>2 DEF InBatch
      <3>6. batch'[w] \in Seq(Nat) /\ batch'[w] # <<>>
        BY <3>1, <3>2, Zenon
      <3> QED BY <3>1, <3>5, <3>6
    <2>3. Shape'
      <3>1. batch' \in [Jobs -> Seq(Nat)]
        BY <2>1, <2>2
      <3>2. pc' \in [Jobs -> {"idle"} \cup Working \cup Ended]
        BY <2>1
      <3>3. pos' \in [Jobs -> Nat]
        BY <2>1, <1>1
      <3>4. \A v \in Jobs : pc'[v] # "idle" => run'[v] \in Runs
        BY <2>1, <1>1
      <3> QED BY <2>1, <3>1, <3>2, <3>3, <3>4 DEF redis
    <2>4. CheckpointCovers'
      BY <2>1 DEF CheckpointCovers, Accounted, redis
    <2>5. ASSUME NEW v \in Jobs PROVE (Seen(v) /\ Full(v) /\ Flushed(v))'
      <3>1. Here(v)' = Here(v) /\ \A n : Accounted(n)' = Accounted(n)
        BY <2>1 DEF Here, Accounted
      <3>2. CASE v = w
        <4>1. pc'[w] \in {"flush", "scan"} /\ pos'[w] = doc /\ at'[w] = at[w]
          BY <2>1
        <4>2. 1..doc \subseteq Accounted(Here(w)) \cup InBatch(w)'
          BY <1>1, <1>2, <2>2 DEF Seen
        <4>3. InBatch(w)' \subseteq 1..doc
          BY <1>1, <2>2 DEF Seen
        <4> QED BY <3>1, <3>2, <4>1, <4>2, <4>3, <1>1, <2>2 DEF Seen, Full, Flushed
      <3>3. CASE v # w
        <4>1. pc'[v] = pc[v] /\ pos'[v] = pos[v] /\ batch'[v] = batch[v] /\ at'[v] = at[v]
          BY <2>1, <3>3
        <4>2. InBatch(v)' = InBatch(v)
          BY <4>1 DEF InBatch
        <4> QED BY <3>1, <4>1, <4>2 DEF Seen, Full, Flushed
      <3> QED BY <3>2, <3>3
    <2> QED BY <2>3, <2>4, <2>5
  <1> QED BY <1>3, <1>4

(* A batch is stored as a whole where no row is refused. *)
LEMMA FlushCovers ==
  ASSUME SyncAssumption, \A c \in Names : Refused[c] = {}, Covered,
         NEW w \in Jobs, Flush(w)
  PROVE  Covered'
  <1> USE DEF Covered, Shape, Inside, Working, Ended
  <1>1. pc[w] = "flush" /\ at[w] <= Len(Collections) /\ Here(w) \in Names
    BY HereIsNamed DEF Flush, Seen
  <1>2. /\ stored' = [stored EXCEPT ![Here(w)] = @ \cup InBatch(w)]
        /\ pc' = [pc EXCEPT ![w] = "save"]
        /\ UNCHANGED <<reported, redis, run, cursor>>
    BY <1>1 DEF Flush, Goto
  <1>3. InBatch(w) \subseteq Nat
    BY DEF InBatch, Range
  <1>4. \A n \in Names : Accounted(n) \subseteq Accounted(n)'
    BY <1>2, <1>1 DEF Accounted
  <1>5. InBatch(w) \subseteq Accounted(Here(w))'
    BY <1>1, <1>2 DEF Accounted, Here, cursor
  <1>6. Shape'
    BY <1>1, <1>2, <1>3 DEF redis, cursor
  <1>7. CheckpointCovers'
    BY <1>2, <1>4 DEF CheckpointCovers, redis
  <1>8. ASSUME NEW v \in Jobs PROVE (Seen(v) /\ Full(v) /\ Flushed(v))'
    <2>1. InBatch(v)' = InBatch(v) /\ Here(v)' = Here(v) /\ pos'[v] = pos[v] /\ at'[v] = at[v]
          /\ batch'[v] = batch[v]
      BY <1>2 DEF InBatch, Here, cursor
    <2>2. pc[v] \in Inside => Here(v) \in Names
      BY HereIsNamed DEF Seen
    <2>3. pc[v] \in Inside => Accounted(Here(v)) \subseteq Accounted(Here(v))'
      BY <2>1, <2>2, <1>4, <1>2 DEF Accounted, cursor, Here
    <2>4. CASE v = w
      BY <2>1, <2>3, <2>4, <1>1, <1>2, <1>5 DEF Seen, Full, Flushed
    <2>5. CASE v # w
      <3>1. pc'[v] = pc[v]
        BY <2>5, <1>2
      <3> QED BY <2>1, <2>3, <3>1 DEF Seen, Full, Flushed
    <2> QED BY <2>4, <2>5
  <1> QED BY <1>6, <1>7, <1>8

(* A job opens a collection where its checkpoint stands. *)
LEMMA OpenCovers ==
  ASSUME SyncAssumption, Covered, NEW w \in Jobs, Open(w)
  PROVE  Covered'
  <1> USE DEF Covered, Shape, Inside, Working, Ended
  <1>1. pc[w] = "open" /\ at[w] <= Len(Collections) /\ Here(w) \in Names /\ run[w] \in Runs
    BY HereIsNamed DEF Open
  <1>2. Mark(w) \in Nat /\ 1..Mark(w) \subseteq Accounted(Here(w))
    BY <1>1 DEF Mark, CheckpointCovers
  <1>3. /\ batch' = [batch EXCEPT ![w] = <<>>]
        /\ UNCHANGED <<database, redis, run, at>>
        /\ \/ pc' = [pc EXCEPT ![w] = "fail"] /\ pos' = pos
           \/ pc' = [pc EXCEPT ![w] = "scan"] /\ pos' = [pos EXCEPT ![w] = Mark(w)]
    BY DEF Open, Goto
  <1>4. Shape'
    <2>1. batch' \in [Jobs -> Seq(Nat)] /\ pos' \in [Jobs -> Nat]
      <3>1. batch' \in [Jobs -> Seq(Nat)]
        BY <1>3
      <3>2. CASE pos' = pos
        BY <3>1, <3>2
      <3>3. CASE pos' = [pos EXCEPT ![w] = Mark(w)]
        BY <3>1, <3>3, <1>2
      <3> QED BY <1>3, <3>2, <3>3
    <2>2. pc' \in [Jobs -> {"idle"} \cup Working \cup Ended]
      BY <1>3
    <2>3. \A v \in Jobs : pc'[v] # "idle" => run'[v] \in Runs
      BY <1>1, <1>3
    <2> QED BY <1>3, <2>1, <2>2, <2>3 DEF redis, database
  <1>5. CheckpointCovers'
    BY <1>3 DEF CheckpointCovers, Accounted, redis, database
  <1>6. ASSUME NEW v \in Jobs PROVE (Seen(v) /\ Full(v) /\ Flushed(v))'
    <2>1. Here(v)' = Here(v) /\ at'[v] = at[v] /\ \A n : Accounted(n)' = Accounted(n)
      BY <1>3 DEF Here, Accounted, database
    <2>2. CASE v = w
      <3>1. InBatch(w)' = {}
        BY <1>3 DEF InBatch, Range
      <3>2. pc'[w] \notin {"flush", "save"} /\ (pc'[w] = "scan" => pos'[w] = Mark(w))
        BY <1>3
      <3> QED BY <2>1, <2>2, <3>1, <3>2, <1>1, <1>2 DEF Seen, Full, Flushed
    <2>3. CASE v # w
      <3>1. pc'[v] = pc[v] /\ pos'[v] = pos[v] /\ batch'[v] = batch[v]
        BY <2>3, <1>3
      <3>2. InBatch(v)' = InBatch(v)
        BY <3>1 DEF InBatch
      <3> QED BY <2>1, <3>1, <3>2 DEF Seen, Full, Flushed
    <2> QED BY <2>2, <2>3
  <1> QED BY <1>4, <1>5, <1>6

(* A step that at most moves a job out of a collection, or withdraws a     *)
(* checkpoint, disturbs nothing.                                           *)
LEMMA OutsideCovers ==
  ASSUME Covered, NEW w \in Jobs,
         UNCHANGED <<stored, reported, pos, batch>>,
         checkpoint' \in [Runs -> [Names -> Nat]],
         \A r \in Runs, c \in Names : checkpoint'[r][c] \in {0, checkpoint[r][c]},
         run' \in [Jobs -> Runs \cup {NoRun}],
         at' \in [Jobs -> Nat \ {0}],
         pc' \in [Jobs -> {"idle"} \cup Working \cup Ended],
         pc'[w] # "idle" => run'[w] \in Runs,
         (at'[w] = at[w] /\ pc'[w] = pc[w]) \/ pc'[w] \notin Inside,
         \A v \in Jobs \ {w} : pc'[v] = pc[v] /\ run'[v] = run[v] /\ at'[v] = at[v]
  PROVE  Covered'
  <1> USE DEF Covered, Shape, Inside
  <1>1. Shape'
    OBVIOUS
  <1>2. CheckpointCovers'
    BY DEF CheckpointCovers, Accounted
  <1>3. ASSUME NEW v \in Jobs PROVE (Seen(v) /\ Full(v) /\ Flushed(v))'
    <2>1. \A n : Accounted(n)' = Accounted(n)
      BY DEF Accounted
    <2>2. CASE pc'[v] \in Inside
      <3>1. pc'[v] = pc[v] /\ at'[v] = at[v] /\ pos'[v] = pos[v] /\ batch'[v] = batch[v]
        BY <2>2
      <3>2. InBatch(v)' = InBatch(v) /\ Here(v)' = Here(v)
        BY <3>1 DEF InBatch, Here
      <3> QED BY <2>1, <3>1, <3>2 DEF Seen, Full, Flushed
    <2>3. CASE pc'[v] \notin Inside
      BY <2>3 DEF Seen, Full, Flushed
    <2> QED BY <2>2, <2>3
  <1> QED BY <1>1, <1>2, <1>3

LEMMA StandingCovers ==
  ASSUME Covered, UNCHANGED <<database, checkpoint, pc, run, cursor>>
  PROVE  Covered'
  <1>1. UNCHANGED <<stored, reported, checkpoint, pc, run, at, pos, batch>>
    BY DEF database, cursor
  <1>2. Shape'
    BY <1>1 DEF Covered, Shape
  <1>3. CheckpointCovers'
    BY <1>1 DEF Covered, CheckpointCovers, Accounted
  <1>4. ASSUME NEW v \in Jobs PROVE (Seen(v) /\ Full(v) /\ Flushed(v))'
    <2>1. InBatch(v)' = InBatch(v) /\ Here(v)' = Here(v) /\ Accounted(Here(v))' = Accounted(Here(v))
      BY <1>1 DEF InBatch, Here, Accounted
    <2> QED BY <1>1, <2>1 DEF Covered, Seen, Full, Flushed
  <1> QED BY <1>2, <1>3, <1>4 DEF Covered

(* One step per action of Next. *)
LEMMA CoveredStep ==
  ASSUME SyncAssumption, \A c \in Names : Refused[c] = {}, Covered, [Next]_vars
  PROVE  Covered'
  <1>1. ASSUME NEW w \in Jobs, Step(w) \/ Interrupted(w) \/ Crash(w) PROVE Covered'
    <2> USE DEF Covered, Shape, Inside, Working, Ended, Goto, redis, database, cursor
    <2>1. CASE Announce(w)
      BY <2>1, OutsideCovers DEF Announce
    <2>2. CASE Open(w)
      BY <2>2, OpenCovers
    <2>3. CASE ScanDocument(w)
      BY <2>3, ScanCovers
    <2>4. CASE LeaveCollection(w)
      <3>1. at' \in [Jobs -> Nat \ {0}]
        BY <2>4 DEF LeaveCollection
      <3>2. run[w] \in Runs /\ pc' = [pc EXCEPT ![w] = "open"]
        BY <2>4 DEF LeaveCollection
      <3>3. \A v \in Jobs \ {w} : pc'[v] = pc[v] /\ run'[v] = run[v] /\ at'[v] = at[v]
        BY <2>4 DEF LeaveCollection
      <3>4. UNCHANGED <<stored, reported, checkpoint, pos, batch, run>>
        BY <2>4 DEF LeaveCollection
      <3>5. pc' \in [Jobs -> {"idle"} \cup Working \cup Ended] /\ pc'[w] = "open"
        BY <3>2
      <3>6. checkpoint' \in [Runs -> [Names -> Nat]] /\ run' \in [Jobs -> Runs \cup {NoRun}]
        BY <3>4
      <3> QED BY <3>1, <3>2, <3>3, <3>4, <3>5, <3>6, OutsideCovers
    <2>5. CASE Flush(w)
      BY <2>5, FlushCovers
    <2>6. CASE SaveCheckpoint(w)
      BY <2>6, SaveCovers
    <2>7. CASE Complete(w)
      BY <2>7, OutsideCovers DEF Complete
    <2>8. CASE Fail(w)
      BY <2>8, OutsideCovers DEF Fail
    <2>9. CASE ClearCurrent(w)
      BY <2>9, OutsideCovers DEF ClearCurrent
    <2>10. CASE Interrupted(w)
      BY <2>10, OutsideCovers DEF Interrupted
    <2>11. CASE Crash(w)
      BY <2>11, OutsideCovers DEF Crash
    <2> QED BY <1>1, <2>1, <2>2, <2>3, <2>4, <2>5, <2>6, <2>7, <2>8, <2>9, <2>10, <2>11 DEF Step
  <1>2. ASSUME NEW w \in Jobs, NEW r \in Runs, StartSync(w, r) \/ RetrySync(w, r) PROVE Covered'
    <2> USE DEF Covered, Shape, Inside, Working, Ended, Goto, redis, database, cursor
    <2>1. CASE StartSync(w, r)
      BY <2>1, OutsideCovers DEF StartSync
    <2>2. CASE RetrySync(w, r)
      BY <2>2, OutsideCovers DEF RetrySync
    <2> QED BY <1>2, <2>1, <2>2
  <1>3. ASSUME UNCHANGED <<database, checkpoint, pc, run, cursor>> PROVE Covered'
    BY <1>3, StandingCovers
  <1>4. ASSUME NEW r \in Runs, NEW c \in Names, ExpireCheckpoint(r, c) PROVE Covered'
    <2>1. Shape'
      BY <1>4 DEF ExpireCheckpoint, Covered, Shape, database, cursor
    <2>2. CheckpointCovers'
      BY <1>4 DEF ExpireCheckpoint, Covered, Shape, CheckpointCovers, Accounted, database
    <2>3. ASSUME NEW v \in Jobs PROVE (Seen(v) /\ Full(v) /\ Flushed(v))'
      <3>1. UNCHANGED <<stored, reported, pc, at, pos, batch>>
        BY <1>4 DEF ExpireCheckpoint, database, cursor
      <3>2. InBatch(v)' = InBatch(v) /\ Here(v)' = Here(v) /\ Accounted(Here(v))' = Accounted(Here(v))
        BY <3>1 DEF InBatch, Here, Accounted
      <3> QED BY <3>1, <3>2 DEF Covered, Seen, Full, Flushed
    <2> QED BY <2>1, <2>2, <2>3 DEF Covered
  <1>5. CASE CancelSync \/ ExpireCurrent \/ (\E r \in Runs : ExpireCancel(r)) \/ UNCHANGED vars
    BY <1>3, <1>5 DEF CancelSync, ExpireCurrent, ExpireCancel, vars, database, cursor
  <1> QED BY <1>1, <1>2, <1>4, <1>5 DEF Next

(* What a retry skips has been copied or reported (run_collection), as     *)
(* long as no row is refused by its table.                                 *)
THEOREM RetrySkipsNothing ==
  ASSUME SyncAssumption, \A c \in Names : Refused[c] = {}
  PROVE  Spec => []CheckpointCovers
  <1>1. Init => Covered
    BY CoveredInit
  <1>2. Covered /\ [Next]_vars => Covered'
    BY CoveredStep
  <1>3. Covered => CheckpointCovers
    BY DEF Covered
  <1> QED BY <1>1, <1>2, <1>3, PTL DEF Spec

-----------------------------------------------------------------------------
(* Completed runs.  A job that was not asked to stop has left behind it    *)
(* only collections that are accounted for, because its batch is empty     *)
(* when it has seen a last document that can be mapped.                    *)

Whole(c) == Size[c] \notin Unmappable[c] => Docs(c) \subseteq Accounted(c)

Drained(w) ==
  pc[w] = "scan" /\ pos[w] = Size[Here(w)] /\ pos[w] \notin Unmappable[Here(w)] => batch[w] = <<>>

Behind(w) ==
  run[w] \notin cancelled => \A i \in 1..(at[w] - 1) : i <= Len(Collections) => Whole(Collections[i])

CancelsKnown == \A r \in Runs : cancel[r] => r \in cancelled

Finishing ==
  /\ cancel \in [Runs -> BOOLEAN]
  /\ log \in [Runs -> {"none", "running", "completed", "failed"}]
  /\ \A w \in Jobs : pc[w] = "idle" => at[w] = 1
  /\ \A w \in Jobs : Drained(w) /\ Behind(w)
  /\ CancelsKnown
  /\ CompletedCovers

LEMMA FinishingInit ==
  ASSUME SyncAssumption, Init
  PROVE  Finishing
  BY DEF Init, Finishing, Drained, Behind, CancelsKnown, CompletedCovers

LEMMA Widened ==
  ASSUME NEW S, NEW T, NEW f \in [S -> T], NEW c \in S, NEW n, NEW more
  PROVE  f[c] \subseteq [f EXCEPT ![n] = @ \cup more][c]
<1>1. CASE c = n
  BY <1>1
<1>2. CASE c # n
  BY <1>2
<1> QED BY <1>1, <1>2

(* Nothing that is accounted for is ever lost. *)
LEMMA AccountedGrows ==
  ASSUME SyncAssumption, Covered, [Next]_vars, NEW c \in Names
  PROVE  Accounted(c) \subseteq Accounted(c)' /\ (Whole(c) => Whole(c)')
<1>1. stored[c] \subseteq stored'[c] /\ reported[c] \subseteq reported'[c]
  <2> USE DEF Covered, Shape, database
  <2>1. CASE UNCHANGED database
    BY <2>1
  <2>2. ASSUME NEW w \in Jobs, ScanDocument(w)
        PROVE  stored[c] \subseteq stored'[c] /\ reported[c] \subseteq reported'[c]
    <3>1. PICK n, d : stored' = stored /\ reported' \in {reported, [reported EXCEPT ![n] = @ \cup {d}]}
      BY <2>2 DEF ScanDocument
    <3> QED BY <3>1, Widened
  <2>3. ASSUME NEW w \in Jobs, Flush(w)
        PROVE  stored[c] \subseteq stored'[c] /\ reported[c] \subseteq reported'[c]
    <3>1. PICK n, rows : \/ stored' = [stored EXCEPT ![n] = @ \cup rows] /\ reported' = reported
                         \/ reported' = [reported EXCEPT ![n] = @ \cup rows] /\ stored' = stored
      BY <2>3 DEF Flush
    <3> QED BY <3>1, Widened
  <2>4. ASSUME NEW w \in Jobs,
               \/ Announce(w) \/ Open(w) \/ LeaveCollection(w) \/ SaveCheckpoint(w) \/ Complete(w)
               \/ Fail(w) \/ ClearCurrent(w) \/ Interrupted(w) \/ Crash(w)
        PROVE  UNCHANGED <<stored, reported>>
    BY <2>4 DEF Announce, Open, LeaveCollection, SaveCheckpoint, Complete, Fail, ClearCurrent,
                Interrupted, Crash
  <2>5. ASSUME NEW w \in Jobs, NEW r \in Runs, StartSync(w, r) \/ RetrySync(w, r)
        PROVE  UNCHANGED <<stored, reported>>
    BY <2>5 DEF StartSync, RetrySync
  <2>6. CASE CancelSync \/ ExpireCurrent
    BY <2>6 DEF CancelSync, ExpireCurrent
  <2>7. ASSUME NEW r \in Runs,
               ExpireCancel(r) \/ \E n \in Names : ExpireCheckpoint(r, n)
        PROVE  UNCHANGED <<stored, reported>>
    BY <2>7 DEF ExpireCancel, ExpireCheckpoint
  <2> QED
    BY <2>1, <2>2, <2>3, <2>4, <2>5, <2>6, <2>7 DEF Next, Step, vars
<1> QED BY <1>1 DEF Accounted, Whole

(* What may happen to a job without harm. *)
LEMMA BehindKept ==
  ASSUME SyncAssumption, NEW v, Behind(v), at[v] \in Nat \ {0}, at'[v] = at[v],
         run'[v] = run[v] \/ at[v] = 1, cancelled \subseteq cancelled',
         \A c \in Names : Whole(c) => Whole(c)'
  PROVE  Behind(v)'
<1>1. \A i \in 1..(at[v] - 1) : i <= Len(Collections) => Collections[i] \in Names
  BY DEF SyncAssumption, Names, Range
<1> QED BY <1>1 DEF Behind

LEMMA DrainedKept ==
  ASSUME NEW v, Drained(v),
         \/ pc'[v] # "scan"
         \/ pc'[v] = pc[v] /\ pos'[v] = pos[v] /\ batch'[v] = batch[v] /\ at'[v] = at[v]
  PROVE  Drained(v)'
  BY DEF Drained, Here

(* A step of a job that stays in its collection. *)
LEMMA FinishingStays ==
  ASSUME SyncAssumption, Covered, Finishing, NEW w \in Jobs,
         \A c \in Names : Whole(c) => Whole(c)',
         UNCHANGED <<cancel, cancelled, at>>,
         log' \in [Runs -> {"none", "running", "completed", "failed"}],
         \A r \in Runs \ cancelled : log'[r] = "completed" =>
            log[r] = "completed" \/ \A c \in Names : Whole(c),
         \A v \in Jobs \ {w} : pc'[v] = pc[v] /\ run'[v] = run[v] /\ pos'[v] = pos[v]
                               /\ batch'[v] = batch[v],
         run'[w] = run[w] \/ at[w] = 1, pc'[w] = "idle" => at[w] = 1,
         Drained(w)'
  PROVE  Finishing'
<1> USE DEF Finishing
<1>1. \A v \in Jobs : at[v] \in Nat \ {0}
  BY DEF Covered, Shape
<1>2. ASSUME NEW v \in Jobs PROVE Drained(v)' /\ Behind(v)'
  BY <1>1, <1>2, DrainedKept, BehindKept
<1>3. CancelsKnown'
  BY DEF CancelsKnown
<1>4. CompletedCovers'
  BY DEF CompletedCovers, Whole
<1>5. \A v \in Jobs : pc'[v] = "idle" => at'[v] = 1
  OBVIOUS
<1> QED BY <1>2, <1>3, <1>4, <1>5

LEMMA FinishingLeave ==
  ASSUME SyncAssumption, Covered, Finishing, NEW w \in Jobs, LeaveCollection(w),
         \A c \in Names : Whole(c) => Whole(c)'
  PROVE  Finishing'
<1> USE DEF Finishing, Goto, redis, database
<1>1. /\ pc[w] = "scan" /\ at[w] \in Nat \ {0} /\ at[w] <= Len(Collections)
      /\ run[w] \in Runs /\ Here(w) \in Names
  BY HereIsNamed DEF LeaveCollection, Covered, Shape, Seen, Inside
<1>2. /\ pc' = [pc EXCEPT ![w] = "open"] /\ at' = [at EXCEPT ![w] = @ + 1]
      /\ UNCHANGED <<stored, reported, log, cancel, cancelled, run, pos, batch>>
  BY DEF LeaveCollection
<1>3. run[w] \notin cancelled => Whole(Here(w))
  <2> SUFFICES ASSUME run[w] \notin cancelled, Size[Here(w)] \notin Unmappable[Here(w)]
               PROVE  Docs(Here(w)) \subseteq Accounted(Here(w))
    BY DEF Whole
  <2>1. pos[w] = Size[Here(w)]
    BY <1>1 DEF LeaveCollection, CancelsKnown
  <2>2. InBatch(w) = {}
    BY <1>1, <2>1 DEF Drained, InBatch, Range
  <2> QED BY <1>1, <2>1, <2>2 DEF Covered, Seen, Inside, Docs
<1>4. ASSUME NEW v \in Jobs PROVE Drained(v)' /\ Behind(v)'
  <2>1. CASE v = w
    <3>1. at'[w] = at[w] + 1 /\ run'[w] = run[w] /\ pc'[w] = "open"
      BY <1>2 DEF Covered, Shape
    <3>2. \A i \in 1..(at'[w] - 1) : i \in 1..(at[w] - 1) \/ i = at[w]
      BY <1>1, <3>1
    <3>3. \A i \in 1..(at'[w] - 1) : i <= Len(Collections) => Collections[i] \in Names
      BY <1>1, <3>1 DEF SyncAssumption, Names, Range
    <3> QED BY <1>2, <1>3, <2>1, <3>1, <3>2, <3>3 DEF Behind, Drained, Here
  <2>2. CASE v # w
    <3>1. at'[v] = at[v] /\ pc'[v] = pc[v] /\ at[v] \in Nat \ {0}
      BY <1>2, <2>2 DEF Covered, Shape
    <3> QED BY <1>2, <3>1, DrainedKept, BehindKept
  <2> QED BY <2>1, <2>2
<1>5. CancelsKnown'
  BY <1>2 DEF CancelsKnown
<1>6. CompletedCovers'
  BY <1>2 DEF CompletedCovers, Accounted
<1>7. \A v \in Jobs : pc'[v] = "idle" => at'[v] = 1
  BY <1>2 DEF Covered, Shape
<1> QED BY <1>2, <1>4, <1>5, <1>6, <1>7

LEMMA FinishingStep ==
  ASSUME SyncAssumption, \A c \in Names : Refused[c] = {}, Covered, Finishing, [Next]_vars
  PROVE  Finishing'
<1>a. \A c \in Names : Whole(c) => Whole(c)'
  BY AccountedGrows
<1> USE DEF Goto, redis, database, cursor
<1>s. Shape
  BY DEF Covered
<1>1. ASSUME NEW w \in Jobs, Step(w) \/ Interrupted(w) \/ Crash(w) PROVE Finishing'
  <2> USE DEF Shape, Finishing
  <2>1. CASE LeaveCollection(w)
    BY <1>a, <2>1, FinishingLeave
  <2>2. CASE Announce(w) \/ ClearCurrent(w) \/ Interrupted(w) \/ Crash(w)
    <3>1. Drained(w)'
      BY <1>s, <2>2 DEF Announce, ClearCurrent, Interrupted, Crash, Drained
    <3> QED
      BY <1>a, <1>s, <2>2, <3>1, FinishingStays DEF Announce, ClearCurrent, Interrupted, Crash
  <2>3. CASE Open(w)
    <3>1. Drained(w)'
      BY <1>s, <2>3 DEF Open, Drained
    <3> QED BY <1>a, <1>s, <2>3, <3>1, FinishingStays DEF Open
  <2>4. CASE ScanDocument(w)
    <3>1. Drained(w)'
      <4>1. pc'[w] = "scan" /\ pos'[w] = Size[Here(w)] => Size[Here(w)] \in Unmappable[Here(w)]
        BY <1>s, <2>4 DEF ScanDocument
      <4>2. Here(w)' = Here(w)
        BY <2>4 DEF ScanDocument, Here
      <4> QED BY <4>1, <4>2 DEF Drained
    <3> QED BY <1>a, <1>s, <2>4, <3>1, FinishingStays DEF ScanDocument
  <2>5. CASE Flush(w)
    <3>1. Drained(w)'
      BY <1>s, <2>5 DEF Flush, Drained
    <3> QED BY <1>a, <1>s, <2>5, <3>1, FinishingStays DEF Flush
  <2>6. CASE SaveCheckpoint(w)
    <3>1. Drained(w)'
      BY <1>s, <2>6 DEF SaveCheckpoint, Drained
    <3> QED BY <1>a, <1>s, <2>6, <3>1, FinishingStays DEF SaveCheckpoint
  <2>7. CASE Complete(w) \/ Fail(w)
    <3>1. Drained(w)'
      BY <1>s, <2>7 DEF Complete, Fail, Drained
    <3>2. run[w] \in Runs /\ pc[w] # "idle"
      BY <1>s, <2>7 DEF Complete, Fail
    <3>3. log' \in [Runs -> {"none", "running", "completed", "failed"}]
      BY <2>7, <3>2 DEF Complete, Fail, LogStatus
    <3>4. ASSUME NEW r \in Runs \ cancelled, log'[r] = "completed", log[r] # "completed",
                 NEW c \in Names
          PROVE  Whole(c)
      <4>1. r = run[w] /\ Complete(w)
        BY <2>7, <3>2, <3>4 DEF Complete, Fail, LogStatus
      <4>2. PICK i \in DOMAIN Collections : Collections[i] = c
        BY DEF Names, Range
      <4>3. i \in 1..Len(Collections) /\ at[w] > Len(Collections) /\ Len(Collections) \in Nat
        BY <4>1 DEF SyncAssumption, Complete
      <4>4. i \in 1..(at[w] - 1) /\ i <= Len(Collections)
        BY <1>s, <4>3
      <4> QED BY <3>4, <4>1, <4>2, <4>4 DEF Behind
    <3>5. /\ UNCHANGED <<cancel, cancelled, at, run, pos, batch>> /\ pc'[w] = "clear"
          /\ \A v \in Jobs \ {w} : pc'[v] = pc[v]
      BY <1>s, <2>7 DEF Complete, Fail
    <3> QED BY <1>a, <3>1, <3>3, <3>4, <3>5, FinishingStays
  <2> QED
    BY <1>1, <2>1, <2>2, <2>3, <2>4, <2>5, <2>6, <2>7 DEF Step
<1>2. ASSUME NEW w \in Jobs, NEW r \in Runs, StartSync(w, r) \/ RetrySync(w, r) PROVE Finishing'
  <2> USE DEF Shape, Finishing
  <2>1. Drained(w)'
    BY <1>s, <1>2 DEF StartSync, RetrySync, Drained
  <2>2. CASE StartSync(w, r)
    BY <1>a, <1>s, <2>1, <2>2, FinishingStays DEF StartSync
  <2>3. CASE RetrySync(w, r)
    BY <1>a, <1>s, <2>1, <2>3, FinishingStays DEF RetrySync
  <2> QED BY <1>2, <2>2, <2>3
(* The jobs stand still; who cancels is known. *)
<1>3. ASSUME UNCHANGED <<database, pc, run, cursor>>, cancelled \subseteq cancelled',
             cancel' \in [Runs -> BOOLEAN], \A r \in Runs : cancel'[r] => r \in cancelled'
      PROVE  Finishing'
  <2> USE DEF Finishing
  <2>1. ASSUME NEW v \in Jobs PROVE Drained(v)' /\ Behind(v)'
    BY <1>3, <1>a, <1>s, DrainedKept, BehindKept DEF Shape
  <2>2. CompletedCovers'
    BY <1>3 DEF CompletedCovers, Accounted
  <2> QED BY <1>3, <2>1, <2>2 DEF CancelsKnown
<1>4. CASE CancelSync
  BY <1>3, <1>4 DEF CancelSync, Finishing, CancelsKnown
<1>5. ASSUME NEW r \in Runs, ExpireCancel(r) \/ (\E c \in Names : ExpireCheckpoint(r, c))
      PROVE  Finishing'
  BY <1>3, <1>5 DEF ExpireCancel, ExpireCheckpoint, Finishing, CancelsKnown
<1>6. CASE ExpireCurrent \/ UNCHANGED vars
  BY <1>3, <1>6 DEF ExpireCurrent, vars, Finishing, CancelsKnown
<1> QED BY <1>1, <1>2, <1>4, <1>5, <1>6 DEF Next

(* A run that is logged as completed and was never cancelled has left no   *)
(* document of such a collection behind, whichever of its jobs crashed and *)
(* was retried, again where no row is refused.                             *)
THEOREM CompletedRunsAreWhole ==
  ASSUME SyncAssumption, \A c \in Names : Refused[c] = {}
  PROVE  Spec => []CompletedCovers
<1>1. Init => Covered /\ Finishing
  BY CoveredInit, FinishingInit
<1>2. Covered /\ Finishing /\ [Next]_vars => (Covered /\ Finishing)'
  BY CoveredStep, FinishingStep
<1>3. Finishing => CompletedCovers
  BY DEF Finishing
<1> QED BY <1>1, <1>2, <1>3, PTL DEF Spec

-----------------------------------------------------------------------------
(* Types, with refused rows too. *)

RedisTypes ==
  /\ checkpoint \in [Runs -> [Names -> Nat]]
  /\ cancel \in [Runs -> BOOLEAN]
  /\ current \in Runs \cup {NoRun}
  /\ cancelled \subseteq Runs

TableTypes ==
  /\ stored \in [Names -> SUBSET Nat] /\ reported \in [Names -> SUBSET Nat]
  /\ \A c \in Names : stored[c] \subseteq Docs(c) /\ reported[c] \subseteq Docs(c)
  /\ log \in [Runs -> {"none", "running", "completed", "failed"}]

(* A job at p, of run r, in collection a at document x with batch b.  Inside *)
(* a collection the batch is of this collection and not full while the job   *)
(* scans, and there is one to flush and to save.                             *)
JobTypes(p, r, a, x, b) ==
  /\ p \in {"idle"} \cup Working \cup Ended
  /\ r \in Runs \cup {NoRun} /\ (p # "idle" => r \in Runs)
  /\ a \in 1..(Len(Collections) + 1) /\ x \in Nat
  /\ b \in Seq(Nat) /\ Len(b) <= BatchSize
  /\ p \in Inside => a <= Len(Collections) /\ Range(b) \subseteq Docs(Collections[a])
  /\ p = "scan" => Len(b) < BatchSize
  /\ p \in {"flush", "save"} => b # <<>>

JobsTyped ==
  /\ pc = [w \in Jobs |-> pc[w]] /\ run = [w \in Jobs |-> run[w]] /\ at = [w \in Jobs |-> at[w]]
  /\ pos = [w \in Jobs |-> pos[w]] /\ batch = [w \in Jobs |-> batch[w]]
  /\ \A w \in Jobs : JobTypes(pc[w], run[w], at[w], pos[w], batch[w])

SyncInv == bytes \in BOOLEAN /\ RedisTypes /\ TableTypes /\ JobsTyped

LEMMA SyncInvTypes == SyncInv => TypeOK
<1> SUFFICES ASSUME SyncInv PROVE TypeOK
  OBVIOUS
<1>1. /\ pc \in [Jobs -> {"idle"} \cup Working \cup Ended]
      /\ run \in [Jobs -> Runs \cup {NoRun}]
      /\ at \in [Jobs -> 1..(Len(Collections) + 1)]
      /\ pos \in [Jobs -> Nat] /\ batch \in [Jobs -> Seq(Nat)]
  BY DEF SyncInv, JobsTyped, JobTypes
<1>2. \A w \in Jobs : (pc[w] # "idle" => run[w] \in Runs) /\ Len(batch[w]) <= BatchSize
  BY DEF SyncInv, JobsTyped, JobTypes
<1> QED BY <1>1, <1>2 DEF SyncInv, TypeOK, RedisTypes, TableTypes

(* A step of one job. *)
JobGoes(w, p, r, a, x, b) ==
  /\ pc' = [pc EXCEPT ![w] = p] /\ run' = [run EXCEPT ![w] = r] /\ at' = [at EXCEPT ![w] = a]
  /\ pos' = [pos EXCEPT ![w] = x] /\ batch' = [batch EXCEPT ![w] = b]

LEMMA JobMoves ==
  ASSUME JobsTyped, NEW w \in Jobs, NEW p, NEW r, NEW a, NEW x, NEW b,
         JobTypes(p, r, a, x, b), JobGoes(w, p, r, a, x, b)
  PROVE  JobsTyped'
<1> USE DEF JobGoes
<1>1. /\ pc' = [v \in Jobs |-> pc'[v]] /\ run' = [v \in Jobs |-> run'[v]]
      /\ at' = [v \in Jobs |-> at'[v]] /\ pos' = [v \in Jobs |-> pos'[v]]
      /\ batch' = [v \in Jobs |-> batch'[v]]
  BY DEF JobsTyped
<1>2. ASSUME NEW v \in Jobs PROVE JobTypes(pc'[v], run'[v], at'[v], pos'[v], batch'[v])
  <2>1. CASE v = w
    <3>1. pc'[v] = p /\ run'[v] = r /\ at'[v] = a /\ pos'[v] = x /\ batch'[v] = b
      BY <2>1 DEF JobsTyped
    <3> QED BY <3>1
  <2>2. CASE v # w
    <3>1. /\ pc'[v] = pc[v] /\ run'[v] = run[v] /\ at'[v] = at[v] /\ pos'[v] = pos[v]
          /\ batch'[v] = batch[v]
      BY <2>2 DEF JobsTyped
    <3> QED BY <3>1 DEF JobsTyped
  <2> QED BY <2>1, <2>2
<1>3. ASSUME NEW v \in Jobs
      PROVE  JobTypes(pc[v], run[v], at[v], pos[v], batch[v])'
  BY <1>2, <1>3 DEF JobTypes
<1> QED BY <1>1, <1>3 DEF JobsTyped

(* A row, or a report, more in one collection. *)
LEMMA MoreRows ==
  ASSUME TableTypes, NEW c \in Names, NEW S \in SUBSET Docs(c), UNCHANGED log,
         \/ stored' = [stored EXCEPT ![c] = @ \cup S] /\ UNCHANGED reported
         \/ reported' = [reported EXCEPT ![c] = @ \cup S] /\ UNCHANGED stored
  PROVE  TableTypes'
<1>1. S \in SUBSET Nat
  BY DEF Docs
<1> QED BY <1>1 DEF TableTypes, Docs

(* One step per action. *)
LEMMA SyncStep ==
  ASSUME SyncAssumption, SyncInv, [Next]_vars PROVE SyncInv'
<1> USE DEF SyncInv, redis, database, cursor, Goto
<1>j. ASSUME NEW w \in Jobs
      PROVE  /\ JobTypes(pc[w], run[w], at[w], pos[w], batch[w])
             /\ run = [run EXCEPT ![w] = run[w]] /\ at = [at EXCEPT ![w] = at[w]]
             /\ pos = [pos EXCEPT ![w] = pos[w]] /\ batch = [batch EXCEPT ![w] = batch[w]]
             /\ pc = [pc EXCEPT ![w] = pc[w]]
  BY DEF JobsTyped
<1>1. ASSUME NEW w \in Jobs, Step(w) \/ Interrupted(w) \/ Crash(w) PROVE SyncInv'
  <2>j. JobTypes(pc[w], run[w], at[w], pos[w], batch[w])
    BY <1>j
  <2>h. pc[w] \in Inside => Here(w) = Collections[at[w]] /\ Here(w) \in Names
    BY <2>j, HereIsNamed DEF JobTypes, Here
  <2>1. ASSUME NEW p, p \in Working \cup Ended, p \notin Inside, pc' = [pc EXCEPT ![w] = p],
               pc[w] # "idle", UNCHANGED <<run, cursor>>
        PROVE  JobsTyped'
    <3>1. JobTypes(p, run[w], at[w], pos[w], batch[w])
      BY <2>j, <2>1 DEF JobTypes, Inside
    <3>2. JobGoes(w, p, run[w], at[w], pos[w], batch[w])
      BY <1>j, <2>1 DEF JobGoes
    <3> QED BY <3>1, <3>2, JobMoves
  <2>2. CASE Announce(w)
    <3>1. run[w] \in Runs
      BY <2>2, <2>j DEF Announce, JobTypes
    <3>2. JobsTyped'
      BY <2>1, <2>2 DEF Announce, Working, Inside
    <3> QED BY <2>2, <3>1, <3>2 DEF Announce, RedisTypes, TableTypes
  <2>3. CASE Open(w)
    <3>1. CASE Mark(w) # 0 /\ ~ bytes
      <4>1. JobTypes("fail", run[w], at[w], pos[w], <<>>)
        BY <2>3, <2>j DEF Open, JobTypes, Working, Inside, SyncAssumption
      <4>2. JobsTyped'
        <5>g. JobGoes(w, "fail", run[w], at[w], pos[w], <<>>)
          BY <1>j, <2>3, <3>1 DEF JobGoes, Open
        <5> QED BY <4>1, <5>g, JobMoves
      <4> QED BY <2>3, <4>2 DEF Open, RedisTypes, TableTypes
    <3>2. CASE ~ (Mark(w) # 0 /\ ~ bytes)
      <4>1. at[w] <= Len(Collections) /\ run[w] \in Runs /\ Here(w) \in Names
        <5>1. at[w] <= Len(Collections) /\ at[w] \in Nat \ {0} /\ run[w] \in Runs
          BY <2>3, <2>j DEF Open, JobTypes, SyncAssumption
        <5> QED BY <5>1, HereIsNamed
      <4>2. Mark(w) \in Nat
        BY <4>1 DEF Mark, RedisTypes
      <4>3. JobTypes("scan", run[w], at[w], Mark(w), <<>>)
        BY <2>3, <2>j, <4>1, <4>2 DEF JobTypes, Working, Inside, SyncAssumption, Range
      <4>4. JobsTyped'
        <5>g. JobGoes(w, "scan", run[w], at[w], Mark(w), <<>>)
          BY <1>j, <2>3, <3>2 DEF JobGoes, Open
        <5> QED BY <4>3, <5>g, JobMoves
      <4> QED BY <2>3, <4>4 DEF Open, RedisTypes, TableTypes
    <3> QED BY <3>1, <3>2
  <2>4. CASE ScanDocument(w)
    <3> DEFINE c == Here(w)
               doc == pos[w] + 1
               longer == Append(batch[w], doc)
    <3>1. /\ pc[w] = "scan" /\ c = Collections[at[w]] /\ c \in Names /\ doc \in Docs(c)
          /\ doc \in Nat /\ batch[w] \in Seq(Nat) /\ Len(batch[w]) < BatchSize
          /\ Range(batch[w]) \subseteq Docs(c)
      BY <2>4, <2>j, <2>h DEF ScanDocument, Inside, JobTypes
    <3>2. CASE doc \in Unmappable[c]
      <4>1. JobTypes("scan", run[w], at[w], doc, batch[w])
        BY <2>j, <3>1 DEF JobTypes
      <4>2. JobsTyped'
        <5>g. JobGoes(w, "scan", run[w], at[w], doc, batch[w])
          BY <1>j, <2>4, <3>1, <3>2 DEF JobGoes, ScanDocument
        <5> QED BY <4>1, <5>g, JobMoves
      <4>3. TableTypes'
        <5>1. {doc} \in SUBSET Docs(c)
          BY <3>1
        <5>2. reported' = [reported EXCEPT ![c] = @ \cup {doc}] /\ UNCHANGED <<stored, log>>
          BY <2>4, <3>2 DEF ScanDocument
        <5> HIDE DEF doc, c
        <5> QED BY <3>1, <5>1, <5>2, MoreRows
      <4> QED BY <2>4, <4>2, <4>3 DEF ScanDocument, RedisTypes
    <3>3. CASE doc \notin Unmappable[c]
      <4> DEFINE p == IF Len(longer) >= BatchSize \/ doc = Size[c] THEN "flush" ELSE "scan"
      <4>1. /\ longer \in Seq(Nat) /\ longer # <<>> /\ Len(longer) = Len(batch[w]) + 1
            /\ Range(longer) = Range(batch[w]) \cup {doc}
        <5> HIDE DEF doc
        <5>1. Len(longer) = Len(batch[w]) + 1
          BY <3>1
        <5> QED BY <3>1, <5>1, AppendInBatch
      <4>2. JobTypes(p, run[w], at[w], doc, longer)
        <5> HIDE DEF longer, doc
        <5> QED BY <2>j, <3>1, <4>1 DEF JobTypes, Working, Inside, SyncAssumption
      <4>3. JobsTyped'
        <5>g. JobGoes(w, p, run[w], at[w], doc, longer)
          BY <1>j, <2>4, <3>1, <3>3 DEF JobGoes, ScanDocument
        <5> QED BY <4>2, <5>g, JobMoves
      <4> QED BY <2>4, <3>3, <4>3 DEF ScanDocument, RedisTypes, TableTypes
    <3> QED BY <3>2, <3>3
  <2>5. CASE LeaveCollection(w)
    <3>1. JobTypes("open", run[w], at[w] + 1, pos[w], batch[w])
      BY <2>5, <2>j DEF LeaveCollection, JobTypes, Inside, Working, SyncAssumption
    <3>2. at' = [at EXCEPT ![w] = at[w] + 1]
      BY <2>5 DEF LeaveCollection
    <3>3. JobsTyped'
      <4>g. JobGoes(w, "open", run[w], at[w] + 1, pos[w], batch[w])
        BY <1>j, <2>5, <3>2 DEF JobGoes, LeaveCollection
      <4> QED BY <3>1, <4>g, JobMoves
    <3> QED BY <2>5, <3>3 DEF LeaveCollection, RedisTypes, TableTypes
  <2>6. CASE Flush(w)
    <3>1. /\ pc[w] = "flush" /\ Here(w) \in Names /\ InBatch(w) \subseteq Docs(Here(w))
          /\ JobTypes("save", run[w], at[w], pos[w], batch[w])
      BY <2>6, <2>j, <2>h DEF Flush, InBatch, JobTypes, Inside, Working
    <3>2. JobsTyped'
      <4>g. JobGoes(w, "save", run[w], at[w], pos[w], batch[w])
        BY <1>j, <2>6 DEF JobGoes, Flush
      <4> QED BY <3>1, <4>g, JobMoves
    <3>3. \/ UNCHANGED reported /\ stored' = [stored EXCEPT ![Here(w)] = @ \cup InBatch(w)]
          \/ \E S \in SUBSET InBatch(w) :
               UNCHANGED stored /\ reported' = [reported EXCEPT ![Here(w)] = @ \cup S]
      BY <2>6 DEF Flush
    <3>4. TableTypes'
      BY <2>6, <3>1, <3>3, MoreRows DEF Flush
    <3> QED BY <2>6, <3>2, <3>4 DEF Flush, RedisTypes
  <2>7. CASE SaveCheckpoint(w)
    <3> DEFINE last == batch[w][Len(batch[w])]
    <3>1. /\ run[w] \in Runs /\ Here(w) \in Names /\ last \in Nat
          /\ JobTypes("scan", run[w], at[w], pos[w], <<>>)
      BY <2>7, <2>j, <2>h DEF SaveCheckpoint, JobTypes, Inside, Working, SyncAssumption, Range
    <3>2. JobsTyped'
      <4>g. JobGoes(w, "scan", run[w], at[w], pos[w], <<>>)
        BY <1>j, <2>7 DEF JobGoes, SaveCheckpoint
      <4> QED BY <3>1, <4>g, JobMoves
    <3>3. checkpoint' = [checkpoint EXCEPT ![run[w]][Here(w)] = last]
      BY <2>7 DEF SaveCheckpoint
    <3>4. checkpoint' \in [Runs -> [Names -> Nat]]
      <4> HIDE DEF last
      <4> QED BY <3>1, <3>3 DEF RedisTypes
    <3> QED BY <2>7, <3>2, <3>4 DEF SaveCheckpoint, RedisTypes, TableTypes
  <2>8. ASSUME Complete(w) \/ Fail(w) \/ ClearCurrent(w) \/ Interrupted(w) \/ Crash(w)
        PROVE  SyncInv'
    <3>1. JobsTyped'
      BY <2>1, <2>8 DEF Complete, Fail, ClearCurrent, Interrupted, Crash, Working, Ended, Inside
    <3>2. TableTypes'
      BY <2>8 DEF Complete, Fail, ClearCurrent, Interrupted, Crash, LogStatus, TableTypes
    <3>3. RedisTypes' /\ bytes' = bytes
      BY <2>8 DEF Complete, Fail, ClearCurrent, Interrupted, Crash, RedisTypes
    <3> QED BY <3>1, <3>2, <3>3
  <2> QED BY <1>1, <2>2, <2>3, <2>4, <2>5, <2>6, <2>7, <2>8 DEF Step
<1>2. ASSUME NEW w \in Jobs, NEW r \in Runs, StartSync(w, r) \/ RetrySync(w, r) PROVE SyncInv'
  <2>1. PICK p \in {"announce", "open"} : pc' = [pc EXCEPT ![w] = p]
    BY <1>2 DEF StartSync, RetrySync
  <2>2. JobTypes(p, r, at[w], pos[w], batch[w])
    BY <1>j, <2>1 DEF JobTypes, Working, Inside
  <2>3. JobsTyped'
    <3>g. JobGoes(w, p, r, at[w], pos[w], batch[w])
      BY <1>2, <1>j, <2>1 DEF JobGoes, StartSync, RetrySync
    <3> QED BY <2>2, <3>g, JobMoves
  <2> QED BY <1>2, <2>3 DEF StartSync, RetrySync, RedisTypes, TableTypes
<1>3. ASSUME UNCHANGED <<database, pc, run, cursor>> PROVE TableTypes' /\ JobsTyped'
  BY <1>3 DEF TableTypes, JobsTyped, JobTypes
<1>4. CASE CancelSync \/ ExpireCurrent \/ (\E r \in Runs : ExpireCancel(r)) \/ UNCHANGED vars
  BY <1>3, <1>4 DEF CancelSync, ExpireCurrent, ExpireCancel, vars, RedisTypes
<1>5. ASSUME NEW r \in Runs, NEW c \in Names, ExpireCheckpoint(r, c) PROVE SyncInv'
  BY <1>3, <1>5 DEF ExpireCheckpoint, RedisTypes
<1> QED BY <1>1, <1>2, <1>4, <1>5 DEF Next

(* Whatever jobs of whatever runs overlap, fail or are retried, and also   *)
(* when tables refuse rows: what is stored and reported are documents of   *)
(* the dump, no batch exceeds its size and no job runs without a run.      *)
THEOREM SyncTypes ==
  ASSUME SyncAssumption PROVE Spec => []TypeOK
<1>1. Init => SyncInv
  <2> SUFFICES ASSUME Init PROVE SyncInv
    OBVIOUS
  <2>1. RedisTypes /\ TableTypes /\ bytes \in BOOLEAN
    BY DEF Init, RedisTypes, TableTypes, SyncAssumption, Docs
  <2>2. JobsTyped
    BY DEF Init, JobsTyped, JobTypes, Working, Ended, Inside, SyncAssumption
  <2> QED BY <2>1, <2>2 DEF SyncInv
<1>2. SyncInv /\ [Next]_vars => SyncInv'
  BY SyncStep
<1> QED BY <1>1, <1>2, SyncInvTypes, PTL DEF Spec

-----------------------------------------------------------------------------
(* LegacyImport *)

(* Every import plans the whole dump. *)
WholeDump == \A n \in Limits : \A d \in Records : d <= n

Importing == step \in {"read", "insert", "report"}
MappingRows == [user : Users, role : Roles, batch : Batches]

(* A new account is named after the record that won, which is its primary. *)
Named ==
  /\ accounts \subseteq Users
  /\ identity \in [Subjects -> accounts \cup {NoUser}]
  /\ mapping \in [Records -> MappingRows \cup {NoMapping}]
  /\ \A d \in Records : IsMapped(d) =>
       /\ mapping[d].user \in accounts
       /\ mapping[d].role = "primary" => mapping[d].user = <<d, mapping[d].batch>>
  /\ \A w \in Records, b \in Batches : <<w, b>> \in accounts =>
       mapping[w] = [user |-> <<w, b>>, role |-> "primary", batch |-> b]

(* A script at work knows which records are mapped: no other script runs.  *)
Knows ==
  /\ step # "idle" => label \in Batches
  /\ Importing =>
       /\ limit \in Limits
       /\ mapped = {d \in Records : IsMapped(d)}
       /\ chunk \subseteq todo /\ todo \subseteq Winners(limit)
  /\ step = "report" => todo = {}
  /\ step # "insert" => chunk = {}
  /\ found \in [Subjects -> accounts \cup {NoUser}]

(* The records of one person are mapped together. *)
Together ==
  \A d, e \in Records \ Skipped : GroupKey(d) = GroupKey(e) =>
    /\ IsMapped(d) <=> IsMapped(e)
    /\ mapping[d].user = mapping[e].user /\ mapping[d].batch = mapping[e].batch

(* A record of the plan is mapped, or its winner is reported or still to do. *)
PlanKept ==
  Importing =>
    \A d \in Planned(limit) :
      IsMapped(d) \/ Winner(d, limit) \in refused \cup todo

(* Induction along 0..N: Q has 0 and, with any number below N, the next one. *)
LEMMA Reaches ==
  ASSUME NEW Q, NEW N \in Nat, 0 \in Q, \A k \in 0..(N - 1) : k \in Q => k + 1 \in Q
  PROVE  N \in Q
<1> DEFINE bad == {k \in 0..N : k \notin Q}
           T == {0..k : k \in bad}
           less == StrictSubsetOrdering(0..N)
<1> SUFFICES ASSUME bad # {} PROVE FALSE
  OBVIOUS
<1>1. IsWellFoundedOn(less, FiniteSubsetsOf(0..N))
  BY FS_Interval, FS_StrictSubsetOrderingWellFounded
<1>2. T \subseteq FiniteSubsetsOf(0..N) /\ T # {}
  <2>1. \A k \in bad : 0..k \subseteq 0..N /\ IsFiniteSet(0..k)
    BY FS_Interval
  <2> QED BY <2>1 DEF FiniteSubsetsOf
<1>3. PICK R \in T : \A S \in T : <<S, R>> \notin less
  <2> HIDE DEF T, less
  <2> QED BY <1>1, <1>2, WFMin
<1>4. PICK k \in bad : R = 0..k
  BY <1>3
<1>5. k # 0 /\ k - 1 \in bad
  BY <1>4
<1>6. 0..(k - 1) \subseteq 0..k /\ k \in 0..k /\ k \notin 0..(k - 1) /\ 0..k \subseteq 0..N
  BY <1>4, <1>5
<1>7. <<0..(k - 1), 0..k>> \in less
  BY <1>6 DEF StrictSubsetOrdering
<1> QED BY <1>3, <1>4, <1>5, <1>7

(* A non-empty set of documents has one that is preferred to the others. *)
LEMMA BestOf ==
  ASSUME ImportAssumption, NEW G \in SUBSET Records, G # {}
  PROVE  \E w \in G : \A e \in G \ {w} : Prefers(w, e)
<1> DEFINE N == Len(Dump)
           Best(k) == \E w \in G : w <= k /\ \A e \in G \ {w} : e <= k => Prefers(w, e)
           Q == {k \in 0..N : (\E g \in G : g <= k) => Best(k)}
<1>1. N \in Nat /\ G \subseteq 1..N /\ \A d \in G : Dump[d].seen \in Int /\ Dump[d].born \in Int
  <2>1. Dump \in Seq({Dump[d] : d \in Records})
    BY DEF ImportAssumption
  <2>2. N \in Nat /\ Records = 1..N
    BY <2>1 DEF Records
  <2> QED BY <2>2 DEF ImportAssumption
<1>2. 0 \in Q
  BY <1>1
<1>3. ASSUME NEW k \in 0..(N - 1), k \in Q PROVE k + 1 \in Q
  <2> SUFFICES ASSUME \E g \in G : g <= k + 1 PROVE Best(k + 1)
    BY <1>1
  <2>0. k \in Nat /\ G \subseteq Nat
    BY <1>1
  <2>1. CASE k + 1 \notin G
    <3>1. \A g \in G : g # k + 1 /\ g \in Nat
      BY <2>0, <2>1
    <3>2. \A g \in G : g <= k + 1 <=> g <= k
      <4> SUFFICES ASSUME NEW g \in G PROVE g <= k + 1 <=> g <= k
        OBVIOUS
      <4>1. g \in Nat /\ g # k + 1
        BY <3>1
      <4> HIDE DEF N, Q, Best
      <4> QED BY <2>0, <4>1
    <3>3. Best(k)
      BY <1>3, <3>2
    <3>4. PICK w \in G : w <= k /\ \A e \in G \ {w} : e <= k => Prefers(w, e)
      BY <3>3
    <3> QED BY <3>2, <3>4
  <2>2. CASE k + 1 \in G /\ ~\E g \in G : g <= k
    <3>1. \A e \in G \ {k + 1} : ~(e <= k + 1)
      BY <1>1, <2>2
    <3> QED BY <1>1, <2>2, <3>1
  <2>3. CASE k + 1 \in G /\ \E g \in G : g <= k
    <3>1. PICK w \in G : w <= k /\ \A e \in G \ {w} : e <= k => Prefers(w, e)
      BY <1>3, <2>3
    <3>2. \A e \in G : e <= k + 1 <=> e <= k \/ e = k + 1
      BY <1>1
    <3>3. CASE Prefers(w, k + 1)
      <4>1. \A e \in G \ {w} : e <= k + 1 => Prefers(w, e)
        BY <3>1, <3>2, <3>3
      <4>2. w <= k + 1
        BY <1>1, <3>1
      <4> QED BY <4>1, <4>2
    <3>4. CASE ~Prefers(w, k + 1)
      <4>1. Prefers(k + 1, w)
        BY <1>1, <2>3, <3>1, <3>4 DEF Prefers
      <4>2. ASSUME NEW e \in G \ {k + 1}, e <= k PROVE Prefers(k + 1, e)
        <5>1. e = w \/ Prefers(w, e)
          BY <3>1, <4>2
        <5> QED BY <1>1, <2>3, <3>1, <4>1, <4>2, <5>1 DEF Prefers
      <4> QED BY <1>1, <2>3, <3>2, <4>2
    <3> QED BY <3>3, <3>4
  <2> QED BY <2>1, <2>2, <2>3
<1>4. N \in Q
  <2> HIDE DEF Q, N
  <2> QED BY <1>1, <1>2, <1>3, Reaches
<1>5. PICK w \in G : \A e \in G \ {w} : e <= N => Prefers(w, e)
  BY <1>1, <1>4
<1> QED BY <1>1, <1>5

(* A group has one winner, and it is of the group. *)
LEMMA WinnerOfGroup ==
  ASSUME ImportAssumption, NEW n \in Nat, NEW d \in Planned(n)
  PROVE  /\ Winner(d, n) \in GroupOf(d, n)
         /\ \A e \in GroupOf(d, n) :
              /\ GroupOf(e, n) = GroupOf(d, n)
              /\ Winner(e, n) = Winner(d, n)
<1>1. d \in GroupOf(d, n) /\ GroupOf(d, n) \subseteq Records
  BY DEF GroupOf, Planned
<1>2. \E w \in GroupOf(d, n) :
        \A e \in GroupOf(d, n) \ {w} : Prefers(w, e)
  BY <1>1, BestOf
<1>3. \A e \in GroupOf(d, n) : GroupOf(e, n) = GroupOf(d, n)
  BY DEF GroupOf
<1> QED BY <1>2, <1>3 DEF Winner

LEMMA WinnersWin ==
  ASSUME ImportAssumption, NEW n \in Nat, NEW w \in Winners(n)
  PROVE  /\ w \in Planned(n) /\ w \in Records \ Skipped
         /\ \A d \in GroupOf(w, n) : d \in Planned(n) /\ Winner(d, n) = w
         /\ w \in GroupOf(w, n)
<1>1. PICK d \in Planned(n) : w = Winner(d, n)
  BY DEF Winners
<1>2. w \in GroupOf(d, n) /\ GroupOf(w, n) = GroupOf(d, n)
  BY <1>1, WinnerOfGroup
<1> QED BY <1>1, <1>2, WinnerOfGroup DEF GroupOf, Planned

(* No owner, one owner, or several. *)
LEMMA OwnersCounted ==
  ASSUME NEW w
  PROVE  /\ Cardinality(OwnersOf(w)) \in Nat
         /\ Cardinality(OwnersOf(w)) = 0 <=> OwnersOf(w) = {}
<1> DEFINE Rows == IdentityRows(w, limit)
           pair == {<<f, Merged(w, limit, f)>> : f \in {"phone", "qq"}}
<1>1. pair = {<<"phone", Merged(w, limit, "phone")>>, <<"qq", Merged(w, limit, "qq")>>}
  OBVIOUS
<1>2. IsFiniteSet(pair)
  <2>1. pair = {<<"phone", Merged(w, limit, "phone")>>}
                 \cup {<<"qq", Merged(w, limit, "qq")>>}
    BY <1>1
  <2> HIDE DEF pair
  <2> QED BY <2>1, FS_Singleton, FS_Union
<1>3. IsFiniteSet({<<"email", Dump[w].email>>} \cup pair)
  BY <1>2, FS_Singleton, FS_Union
<1>4. IsFiniteSet(Rows)
  BY <1>3, FS_Subset DEF IdentityRows
<1>5. IsFiniteSet({found[s] : s \in Rows})
  <2> DEFINE T == {found[s] : s \in Rows}
             f == [s \in Rows |-> found[s]]
  <2>1. f \in Surjection(Rows, T)
    BY DEF Surjection
  <2> HIDE DEF Rows, T, f
  <2> QED BY <1>4, <2>1, FS_Surjection DEF T
<1>6. IsFiniteSet(OwnersOf(w))
  BY <1>5, FS_Subset DEF OwnersOf
<1> QED BY <1>6, FS_CardinalityType, FS_EmptySet

-----------------------------------------------------------------------------
(* The records a chunk settles, and what becomes of them. *)
LEMMA Settled ==
  ASSUME ImportAssumption, Knows, step = "insert", NEW d \in Handled
  PROVE  /\ d \in Records \ mapped /\ d \in Planned(limit)
         /\ Winner(d, limit) \in chunk /\ Winner(d, limit) \notin mapped
         /\ Winner(d, limit) \in ToCreate \cup InConflict
         /\ GroupKey(d) = GroupKey(Winner(d, limit))
<1>1. PICK w \in ToCreate \cup InConflict : d \in GroupOf(w, limit)
  BY DEF Handled
<1>2. w \in chunk /\ w \notin mapped
  BY <1>1 DEF ToCreate, InConflict, Fresh
<1>3. w \in Winners(limit) /\ limit \in Nat
  BY <1>2 DEF Knows, Importing, ImportAssumption
<1>4. Winner(d, limit) = w /\ d \in Planned(limit)
  BY <1>1, <1>3, WinnersWin
<1> QED BY <1>1, <1>2, <1>4 DEF Handled, GroupOf

(* A new account has its name, its batch and its roles; a record whose      *)
(* address an account has already is mapped to that account.               *)
LEMMA Rows ==
  ASSUME ImportAssumption, Named, Knows, step = "insert", NEW d \in Handled
  PROVE  LET w == Winner(d, limit)
             row == RowFor(d, w)
         IN  /\ row \in MappingRows /\ row.batch = label
             /\ row.user = RowFor(w, w).user
             /\ row.user \in accounts \cup {NewUser(v) : v \in ToCreate}
             /\ row.role = "primary" => row.user = <<d, label>>
<1> DEFINE w == Winner(d, limit)
<1>0. label \in Batches /\ limit \in Nat /\ chunk \subseteq Winners(limit)
  BY DEF Knows, Importing, ImportAssumption
<1>1. w \in ToCreate \cup InConflict /\ w \in chunk
  BY Settled
<1>2. w \in Records
  BY <1>0, <1>1, WinnersWin
<1>3. CASE w \in ToCreate
  <2>1. NewUser(w) = <<w, label>> /\ <<w, label>> \in Users
    BY <1>0, <1>2 DEF NewUser, Users
  <2> HIDE DEF w
  <2>2. /\ RowFor(d, w) = [user |-> <<w, label>>,
                                  role |-> IF d = w THEN "primary" ELSE "duplicate",
                                  batch |-> label]
        /\ RowFor(w, w).user = <<w, label>>
    BY <1>3, <2>1 DEF RowFor
  <2> QED BY <1>0, <1>3, <2>1, <2>2 DEF MappingRows, Roles, w
<1>4. CASE w \notin ToCreate
  <2> HIDE DEF w
  <2>1. Cardinality(OwnersOf(w)) = 1
    <3>1. w \in InConflict
      BY <1>1, <1>4
    <3> QED BY <3>1 DEF InConflict
  <2>2. (CHOOSE u \in OwnersOf(w) : TRUE) \in OwnersOf(w)
    BY <2>1, OwnersCounted
  <2>3. OwnersOf(w) \subseteq accounts
    BY DEF OwnersOf, IdentityRows, Knows
  <2>4. /\ RowFor(d, w) = [user |-> CHOOSE u \in OwnersOf(w) : TRUE,
                                  role |-> "conflict_existing", batch |-> label]
        /\ RowFor(w, w).user = CHOOSE u \in OwnersOf(w) : TRUE
    BY <1>4 DEF RowFor
  <2> QED BY <1>0, <2>2, <2>3, <2>4 DEF MappingRows, Roles, Named, w
<1> QED BY <1>3, <1>4

LEMMA InsertNames ==
  ASSUME ImportAssumption, Named, Knows, InsertChunk
  PROVE  Named' /\ Knows'
<1> USE DEF site, tables
<1>0. /\ step = "insert" /\ label \in Batches /\ limit \in Limits /\ limit \in Nat
      /\ mapped = {d \in Records : IsMapped(d)}
      /\ chunk \subseteq todo /\ todo \subseteq Winners(limit)
  BY DEF InsertChunk, Knows, Importing, ImportAssumption
<1>1. /\ accounts' = accounts \cup {NewUser(w) : w \in ToCreate}
      /\ mapping' = [d \in Records |->
                       IF d \in Handled THEN RowFor(d, Winner(d, limit))
                                               ELSE mapping[d]]
      /\ mapped' = mapped \cup Handled
      /\ todo' = todo \ chunk /\ chunk' = {}
      /\ found' = [s \in Subjects |-> NoUser]
      /\ step' = (IF todo' = {} THEN "report" ELSE "read")
      /\ UNCHANGED <<label, limit>>
  BY DEF InsertChunk
<1>2. \A w \in ToCreate : /\ w \in Records /\ w \in Handled
                                 /\ Winner(w, limit) = w
                                 /\ NewUser(w) = <<w, label>>
                                 /\ <<w, label>> \in Users
  <2> SUFFICES ASSUME NEW w \in ToCreate
               PROVE  /\ w \in Records /\ w \in Handled
                      /\ Winner(w, limit) = w
                      /\ NewUser(w) = <<w, label>>
                      /\ <<w, label>> \in Users
    OBVIOUS
  <2>1. w \in Winners(limit) /\ w \notin mapped
    BY <1>0 DEF ToCreate, Fresh
  <2>2. w \in GroupOf(w, limit) /\ w \in Records /\ Winner(w, limit) = w
    BY <1>0, <2>1, WinnersWin
  <2> QED BY <1>0, <2>1, <2>2 DEF Handled, NewUser, Users
<1>3. accounts' \subseteq Users
  <2>1. \A w \in ToCreate : NewUser(w) \in Users
    BY <1>2
  <2>2. accounts \subseteq Users
    BY DEF Named
  <2> QED BY <1>1, <2>1, <2>2
<1>4. identity' \in [Subjects -> accounts' \cup {NoUser}]
  <2> SUFFICES ASSUME NEW s \in Subjects
               PROVE  (IF \E w \in ToCreate : s \in NewRows[w]
                         THEN NewUser(CHOOSE w \in ToCreate : s \in NewRows[w])
                         ELSE identity[s]) \in accounts' \cup {NoUser}
    BY DEF InsertChunk
  <2>1. CASE \E w \in ToCreate : s \in NewRows[w]
    <3>1. (CHOOSE w \in ToCreate : s \in NewRows[w]) \in ToCreate
      BY <2>1
    <3> QED BY <1>1, <2>1, <3>1
  <2> QED BY <1>1, <2>1 DEF Named
<1>5. \A d \in Records :
        /\ d \in Handled =>
             /\ mapping'[d] = RowFor(d, Winner(d, limit))
             /\ mapping'[d] \in MappingRows
             /\ mapping'[d].user \in accounts' /\ mapping'[d].batch = label
             /\ mapping'[d].role = "primary" => mapping'[d].user = <<d, label>>
        /\ d \notin Handled => mapping'[d] = mapping[d]
  BY <1>0, <1>1, Rows
<1>6. mapping' \in [Records -> MappingRows \cup {NoMapping}]
  BY <1>1, <1>5 DEF Named
<1>7. \A d \in Records : IsMapped(d)' =>
         /\ mapping'[d].user \in accounts'
         /\ mapping'[d].role = "primary" => mapping'[d].user = <<d, mapping'[d].batch>>
  BY <1>1, <1>5 DEF Named, IsMapped
<1>8. \A w \in Records, b \in Batches : <<w, b>> \in accounts' =>
        mapping'[w] = [user |-> <<w, b>>, role |-> "primary", batch |-> b]
  <2> SUFFICES ASSUME NEW w \in Records, NEW b \in Batches, <<w, b>> \in accounts'
               PROVE  mapping'[w] = [user |-> <<w, b>>, role |-> "primary", batch |-> b]
    OBVIOUS
  <2>1. CASE <<w, b>> \in accounts
    <3>1. mapping[w] = [user |-> <<w, b>>, role |-> "primary", batch |-> b]
      BY <2>1 DEF Named
    <3>2. w \in mapped
      BY <1>0, <3>1 DEF IsMapped, NoMapping
    <3> QED BY <1>5, <3>1, <3>2 DEF Handled
  <2>2. CASE <<w, b>> \notin accounts
    <3>1. PICK v \in ToCreate : <<w, b>> = NewUser(v)
      BY <1>1, <2>2
    <3>2. v = w /\ b = label
      <4>1. <<w, b>> = <<v, label>>
        BY <1>2, <3>1
      <4> QED BY <4>1
    <3> QED BY <1>2, <1>5, <3>1, <3>2 DEF RowFor
  <2> QED BY <2>1, <2>2
<1>9. Named'
  BY <1>3, <1>4, <1>6, <1>7, <1>8 DEF Named, MappingRows, Users, Roles,
     Records, Subjects, NoMapping, Fields
<1>10. mapped' = {d \in Records : IsMapped(d)'}
  <2>1. ASSUME NEW d \in Records PROVE IsMapped(d)' <=> d \in mapped \cup Handled
    <3>1. CASE d \in Handled
      BY <1>5, <3>1 DEF IsMapped, NoMapping, MappingRows, Roles
    <3>2. CASE d \notin Handled
      BY <1>0, <1>5, <3>2 DEF IsMapped
    <3> QED BY <3>1, <3>2
  <2>2. Handled \subseteq Records
    BY DEF Handled
  <2> QED BY <1>0, <1>1, <2>1, <2>2
<1>11. Knows'
  BY <1>0, <1>1, <1>10 DEF Knows, Importing
<1> QED BY <1>9, <1>11

LEMMA DeleteNames ==
  ASSUME ImportAssumption, Named, Knows, RollbackDelete
  PROVE  /\ Named' /\ Knows'
         /\ accounts \cap Residents \subseteq accounts'
<1> DEFINE gone == PrimaryOf(label)
<1>1. /\ label \in Batches
      /\ accounts' = accounts \ gone
      /\ identity' = [s \in Subjects |->
                        IF identity[s] \in gone THEN NoUser ELSE identity[s]]
      /\ mapping' = [d \in Records |->
                       IF mapping[d].batch = label \/ mapping[d].user \in gone
                         THEN NoMapping ELSE mapping[d]]
      /\ step' = "idle" /\ chunk' = {} /\ found' = [s \in Subjects |-> NoUser]
  BY DEF RollbackDelete, Exit, Knows
<1>2. \A d \in Records :
        mapping[d].role = "primary" => IsMapped(d) /\ mapping[d].user = <<d, mapping[d].batch>>
  BY DEF Named, IsMapped, NoMapping
<1>3. gone \subseteq Records \X Batches
  <2> SUFFICES ASSUME NEW d \in Records, mapping[d].batch = label, mapping[d].role = "primary"
               PROVE  mapping[d].user \in Records \X Batches
    BY DEF PrimaryOf
  <2>1. mapping[d].user = <<d, label>>
    BY <1>2
  <2> QED BY <1>1, <2>1
<1> HIDE DEF gone
<1>4. ASSUME NEW w \in Records, NEW b \in Batches, <<w, b>> \in accounts'
      PROVE  mapping'[w] = [user |-> <<w, b>>, role |-> "primary", batch |-> b]
  <2>1. mapping[w] = [user |-> <<w, b>>, role |-> "primary", batch |-> b] /\ <<w, b>> \notin gone
    BY <1>1, <1>4 DEF Named
  <2>2. b # label
    BY <2>1 DEF gone, PrimaryOf
  <2>3. mapping[w].batch = b /\ mapping[w].user = <<w, b>>
    BY <2>1
  <2> QED BY <1>1, <2>1, <2>2, <2>3
<1>5. accounts' \subseteq Users
  BY <1>1 DEF Named
<1>6. identity' \in [Subjects -> accounts' \cup {NoUser}]
  BY <1>1 DEF Named
<1>7. mapping' \in [Records -> MappingRows \cup {NoMapping}]
  BY <1>1 DEF Named
<1>8. \A d \in Records : IsMapped(d)' =>
         /\ mapping'[d].user \in accounts'
         /\ mapping'[d].role = "primary" => mapping'[d].user = <<d, mapping'[d].batch>>
  BY <1>1 DEF Named, IsMapped
<1>9. Named'
  BY <1>4, <1>5, <1>6, <1>7, <1>8 DEF Named
<1>10. Knows'
  BY <1>1 DEF Knows, Importing
<1>11. accounts \cap Residents \subseteq accounts'
  BY <1>1, <1>3 DEF ImportAssumption
<1> QED BY <1>9, <1>10, <1>11

(* Everything but the two transactions of the scripts. *)
Others ==
  \/ \E b \in Batches, n \in Limits : StartImport(b, n)
  \/ ReadExisting \/ Abort \/ WriteReports
  \/ \E b \in Batches, force \in BOOLEAN : RollbackCheck(b, force)
  \/ RollbackCrash
  \/ \E u \in Residents, s \in Subjects : Register(u, s)
  \/ \E u \in Users, s \in Subjects : Bind(u, s)
  \/ \E u \in Users : Login(u) \/ Vote(u)
  \/ UNCHANGED importVars

LEMMA OtherSteps ==
  ASSUME ImportAssumption, Named, Knows, Others
  PROVE  /\ Named' /\ Knows' /\ UNCHANGED mapping /\ accounts \subseteq accounts'
<1> USE DEF tables, site, script
<1>1. /\ UNCHANGED mapping
      /\ UNCHANGED accounts \/ \E u \in Residents : accounts' = accounts \cup {u}
  BY DEF Others, StartImport, ReadExisting, Abort, WriteReports,
     RollbackCheck, RollbackCrash, Register, Bind, Login,
     Vote, importVars
<1>2. accounts \subseteq accounts' /\ accounts' \subseteq Users
  BY <1>1 DEF Named, Users
<1>3. identity' \in [Subjects -> accounts' \cup {NoUser}]
  <2>1. CASE UNCHANGED identity
    BY <2>1, <1>2 DEF Named
  <2>2. ASSUME NEW u \in Residents, NEW s \in Subjects, Register(u, s)
        PROVE  identity' \in [Subjects -> accounts' \cup {NoUser}]
    BY <2>2, <1>2 DEF Named, Register
  <2>3. ASSUME NEW u \in Users, NEW s \in Subjects, Bind(u, s)
        PROVE  identity' \in [Subjects -> accounts' \cup {NoUser}]
    BY <2>3, <1>2 DEF Named, Bind
  <2> QED
    BY <2>1, <2>2, <2>3 DEF Others, StartImport, ReadExisting, Abort,
       WriteReports, RollbackCheck, RollbackCrash, Login,
       Vote, importVars
<1>4. \A w \in Records, b \in Batches : <<w, b>> \in accounts' => <<w, b>> \in accounts
  BY <1>1 DEF ImportAssumption
<1>5. Named'
  BY <1>1, <1>2, <1>3, <1>4 DEF Named, IsMapped
<1>6. Knows'
  <2>1. CASE \E b \in Batches, n \in Limits : StartImport(b, n)
    BY <2>1 DEF Knows, Importing, StartImport, IsMapped
  <2>2. CASE ReadExisting
    <3>1. /\ step = "read" /\ step' = "insert" /\ chunk' \subseteq todo
          /\ UNCHANGED <<label, limit, mapped, todo, mapping, accounts>>
      BY <2>2 DEF ReadExisting, NextChunk
    <3>2. found' \in [Subjects -> accounts \cup {NoUser}]
      BY <2>2 DEF ReadExisting, Named
    <3> QED BY <3>1, <3>2 DEF Knows, Importing, IsMapped
  <2>3. CASE Abort \/ WriteReports \/ RollbackCrash
    BY <2>3 DEF Knows, Importing, Abort, WriteReports, RollbackCrash,
       Exit
  <2>4. CASE \E b \in Batches, force \in BOOLEAN : RollbackCheck(b, force)
    BY <2>4 DEF Knows, Importing, RollbackCheck
  <2>5. CASE UNCHANGED <<script, mapping>>
    BY <2>5, <1>2 DEF Knows, Importing, IsMapped
  <2> QED
    BY <2>1, <2>2, <2>3, <2>4, <2>5 DEF Others, Register, Bind, Login,
       Vote, importVars
<1> QED BY <1>1, <1>2, <1>5, <1>6

LEMMA Steps ==
  ASSUME [ImportNext]_(importVars)
  PROVE  InsertChunk \/ RollbackDelete \/ Others
BY DEF ImportNext, Others

LEMMA NamedInit ==
  ASSUME ImportAssumption, ImportInit PROVE Named /\ Knows /\ Together /\ PlanKept
BY DEF ImportInit, Named, Knows, Together, PlanKept, Importing, IsMapped,
   ImportAssumption, Users

LEMMA NamedStep ==
  ASSUME ImportAssumption, Named /\ Knows, [ImportNext]_(importVars)
  PROVE  (Named /\ Knows)' /\ accounts \cap Residents \subseteq accounts'
<1>1. CASE InsertChunk
  <2>1. accounts \subseteq accounts'
    BY <1>1 DEF InsertChunk
  <2> QED BY <1>1, <2>1, InsertNames
<1>2. CASE RollbackDelete
  BY <1>2, DeleteNames
<1>3. CASE Others
  BY <1>3, OtherSteps
<1> QED BY <1>1, <1>2, <1>3, Steps

(* No rollback deletes the account of a person who registered on the site. *)
THEOREM ResidentsAreSafe ==
  ASSUME ImportAssumption PROVE ImportSpec => ResidentsStay
<1>1. ImportSpec => [](Named /\ Knows)
  <2>1. (Named /\ Knows) /\ [ImportNext]_(importVars) => (Named /\ Knows)'
    BY NamedStep
  <2> QED BY NamedInit, <2>1, PTL DEF ImportSpec
<1>2. (Named /\ Knows) /\ [ImportNext]_(importVars)
        => [accounts \cap Residents \subseteq accounts']_(importVars)
  BY NamedStep
<1> QED BY <1>1, <1>2, PTL DEF ImportSpec, ResidentsStay

-----------------------------------------------------------------------------
(* With the whole dump in every plan, groups are mapped whole. *)
LEMMA InsertTogether ==
  ASSUME ImportAssumption, WholeDump, Named, Knows, Together, PlanKept, InsertChunk
  PROVE  Together' /\ PlanKept'
<1>0. /\ step = "insert" /\ limit \in Limits /\ limit \in Nat
      /\ mapped = {d \in Records : IsMapped(d)}
      /\ chunk \subseteq todo /\ todo \subseteq Winners(limit)
  BY DEF InsertChunk, Knows, Importing, ImportAssumption
<1>1. /\ mapping' = [d \in Records |->
                       IF d \in Handled THEN RowFor(d, Winner(d, limit))
                                               ELSE mapping[d]]
      /\ todo' = todo \ chunk /\ refused' = refused \cup Multi
      /\ limit' = limit
  BY DEF InsertChunk
<1>2. Planned(limit) = Records \ Skipped
  BY <1>0 DEF Planned, WholeDump
<1>3. \A d, e \in Records \ Skipped : GroupKey(d) = GroupKey(e) =>
        d \in GroupOf(e, limit) /\ Winner(d, limit) = Winner(e, limit)
  BY <1>0, <1>2, WinnerOfGroup DEF GroupOf
<1>4. \A d \in Records :
        /\ d \in Handled =>
             /\ IsMapped(d)' /\ ~IsMapped(d) /\ mapping'[d].batch = label
             /\ mapping'[d].user
                  = RowFor(Winner(d, limit), Winner(d, limit)).user
        /\ d \notin Handled => mapping'[d] = mapping[d]
  <2> SUFFICES ASSUME NEW d \in Records, d \in Handled
               PROVE  /\ IsMapped(d)' /\ ~IsMapped(d) /\ mapping'[d].batch = label
                      /\ mapping'[d].user
                           = RowFor(Winner(d, limit), Winner(d, limit)).user
    BY <1>1
  <2>1. mapping'[d] = RowFor(d, Winner(d, limit))
    BY <1>1
  <2>2. mapping'[d] \in MappingRows
    BY <1>0, <2>1, Rows
  <2>3. IsMapped(d)'
    BY <2>2 DEF MappingRows, IsMapped, NoMapping, Roles
  <2>4. ~IsMapped(d)
    BY <1>0 DEF Handled
  <2> QED BY <1>0, <2>1, <2>3, <2>4, Rows
<1>5. ASSUME NEW d \in Records \ Skipped, NEW e \in Records \ Skipped,
             GroupKey(d) = GroupKey(e), d \in Handled
      PROVE  e \in Handled
  <2>1. PICK w \in ToCreate \cup InConflict : d \in GroupOf(w, limit)
    BY <1>5 DEF Handled
  <2>2. e \in GroupOf(w, limit)
    BY <1>2, <1>5, <2>1 DEF GroupOf
  <2>3. ~IsMapped(e)
    BY <1>4, <1>5 DEF Together
  <2> QED BY <1>0, <2>1, <2>2, <2>3 DEF Handled
<1>6. Together'
  <2> SUFFICES ASSUME NEW d \in Records \ Skipped, NEW e \in Records \ Skipped,
                      GroupKey(d) = GroupKey(e)
               PROVE  /\ IsMapped(d)' <=> IsMapped(e)'
                      /\ mapping'[d].user = mapping'[e].user
                      /\ mapping'[d].batch = mapping'[e].batch
    BY DEF Together, Records, GroupKey
  <2>1. CASE d \in Handled
    BY <1>3, <1>4, <1>5, <2>1
  <2>2. CASE d \notin Handled
    <3>1. mapping'[d] = mapping[d] /\ mapping'[e] = mapping[e]
      BY <1>4, <1>5, <2>2
    <3> QED BY <3>1 DEF Together, IsMapped
  <2> QED BY <2>1, <2>2
<1>7. ASSUME NEW d \in Planned(limit)
      PROVE  IsMapped(d)' \/ Winner(d, limit) \in refused' \cup todo'
  <2> DEFINE w == Winner(d, limit)
  <2>0. d \in Records \ Skipped
    BY <1>2
  <2>1. CASE IsMapped(d)
    BY <1>4, <2>0, <2>1 DEF IsMapped
  <2>2. CASE ~IsMapped(d)
    <3>1. w \in refused \cup todo
      BY <1>0, <2>2 DEF PlanKept, Importing
    <3>2. CASE w \notin chunk
      BY <1>1, <3>1, <3>2
    <3>3. CASE w \in chunk
      <4>1. w \in Winners(limit)
        BY <1>0, <3>3
      <4>2. w \in Records \ Skipped /\ d \in GroupOf(w, limit)
        <5>1. w \in GroupOf(d, limit)
          BY <1>0, WinnerOfGroup
        <5>2. w \in Records \ Skipped /\ GroupKey(w) = GroupKey(d)
          BY <1>2, <5>1 DEF GroupOf
        <5> QED BY <1>3, <2>0, <5>2
      <4>3. w \notin mapped
        <5>1. GroupKey(w) = GroupKey(d)
          BY <4>2 DEF GroupOf
        <5>2. ~IsMapped(w)
          BY <2>0, <2>2, <4>2, <5>1 DEF Together
        <5> QED BY <1>0, <5>2
      <4> DEFINE count == Cardinality(OwnersOf(w))
      <4>4. count \in Nat /\ (count = 0 <=> OwnersOf(w) = {})
        BY OwnersCounted
      <4> HIDE DEF w
      <4>5. CASE count = 0 \/ count = 1
        <5>1. w \in ToCreate \cup InConflict
          BY <3>3, <4>3, <4>4, <4>5 DEF ToCreate, InConflict, Fresh
        <5>2. d \in Handled
          BY <1>0, <2>0, <2>2, <4>2, <5>1 DEF Handled
        <5> QED BY <1>4, <2>0, <5>2
      <4>6. CASE count > 1
        <5>1. w \in Multi
          BY <3>3, <4>3, <4>6 DEF Multi, Fresh
        <5> QED BY <1>1, <5>1 DEF w
      <4> QED BY <4>4, <4>5, <4>6
    <3> QED BY <3>2, <3>3
  <2> QED BY <2>1, <2>2
<1> QED BY <1>1, <1>6, <1>7 DEF PlanKept

LEMMA TogetherStep ==
  ASSUME ImportAssumption, WholeDump, Named, Knows, Together, PlanKept,
         [ImportNext]_(importVars)
  PROVE  Together' /\ PlanKept'
<1> USE DEF tables, site, script
<1>1. CASE InsertChunk
  BY <1>1, InsertTogether
<1>2. CASE RollbackDelete
  <2>1. /\ step' = "idle"
        /\ mapping' = [d \in Records |->
                         IF mapping[d].batch = label \/ mapping[d].user \in PrimaryOf(label)
                           THEN NoMapping ELSE mapping[d]]
    BY <1>2 DEF RollbackDelete, Exit
  <2>2. PlanKept'
    BY <2>1 DEF PlanKept, Importing
  <2>3. Together'
    <3> SUFFICES ASSUME NEW d \in Records \ Skipped, NEW e \in Records \ Skipped,
                        GroupKey(d) = GroupKey(e)
                 PROVE  /\ IsMapped(d)' <=> IsMapped(e)'
                        /\ mapping'[d].user = mapping'[e].user
                        /\ mapping'[d].batch = mapping'[e].batch
      BY DEF Together
    <3> QED BY <2>1 DEF Together, IsMapped
  <2> QED BY <2>2, <2>3
<1>3. CASE Others
  <2>1. UNCHANGED mapping
    BY <1>3, OtherSteps
  <2>2. Together'
    BY <2>1 DEF Together, IsMapped
  <2>3. PlanKept'
    <3>1. CASE \E b \in Batches, n \in Limits : StartImport(b, n)
      BY <3>1 DEF PlanKept, StartImport, Winners
    <3>2. CASE ~Importing'
      BY <3>2 DEF PlanKept
    <3>3. CASE UNCHANGED <<todo, refused, limit>> /\ Importing
      BY <2>1, <3>3 DEF PlanKept, IsMapped
    <3>4. (\E b \in Batches, n \in Limits : StartImport(b, n))
            \/ ~Importing' \/ (UNCHANGED <<todo, refused, limit>> /\ Importing)
      <4>1. CASE ReadExisting \/ UNCHANGED importVars
        BY <4>1 DEF Importing, ReadExisting, importVars
      <4>2. CASE Abort \/ WriteReports \/ RollbackCrash
        BY <4>2 DEF Importing, Abort, WriteReports, RollbackCrash, Exit
      <4>3. CASE \E b \in Batches, force \in BOOLEAN : RollbackCheck(b, force)
        BY <4>3 DEF Importing, RollbackCheck
      <4>4. CASE UNCHANGED script
        BY <4>4 DEF Importing
      <4> QED
        BY <1>3, <4>1, <4>2, <4>3, <4>4 DEF Others, Register, Bind, Login,
           Vote
    <3> QED BY <3>1, <3>2, <3>3, <3>4
  <2> QED BY <2>2, <2>3
<1> QED BY <1>1, <1>2, <1>3, Steps

LEMMA ImportsKeepTrack ==
  ASSUME ImportAssumption, WholeDump
  PROVE  ImportSpec => [](Named /\ Knows /\ Together /\ PlanKept)
<1>1. (Named /\ Knows /\ Together /\ PlanKept) /\ [ImportNext]_(importVars)
        => (Named /\ Knows /\ Together /\ PlanKept)'
  BY NamedStep, TogetherStep
<1> QED BY <1>1, NamedInit, PTL DEF ImportSpec

(* However imports are aborted, repeated and rolled back, the records of   *)
(* one address lead to one account and no row points nowhere.              *)
THEOREM GroupsAreOne ==
  ASSUME ImportAssumption, WholeDump PROVE ImportSpec => []GroupsStayTogether
<1>1. Named /\ Knows /\ Together => GroupsStayTogether
  <2> SUFFICES ASSUME Named, Knows, Together PROVE GroupsStayTogether
    OBVIOUS
  <2>1. ASSUME NEW u \in accounts \ Residents
        PROVE  Cardinality({d \in Records : mapping[d].user = u
                                                        /\ mapping[d].role = "primary"}) = 1
    <3>1. PICK w \in Records, b \in Batches : u = <<w, b>>
      BY DEF Named, Users
    <3>2. mapping[w] = [user |-> u, role |-> "primary", batch |-> b]
      BY <3>1 DEF Named
    <3>3. ASSUME NEW d \in Records, mapping[d].user = u, mapping[d].role = "primary"
          PROVE  d = w
      <4>1. IsMapped(d)
        BY <3>3 DEF IsMapped, NoMapping
      <4>2. u = <<d, mapping[d].batch>>
        BY <3>3, <4>1 DEF Named
      <4> QED BY <3>1, <4>2
    <3>4. {d \in Records : mapping[d].user = u /\ mapping[d].role = "primary"} = {w}
      BY <3>2, <3>3
    <3> QED BY <3>4, FS_Singleton
  <2>2. NothingDangles
    BY <2>1 DEF Named, NothingDangles
  <2> QED BY <2>2 DEF Together, GroupsStayTogether
<1> QED BY <1>1, ImportsKeepTrack, PTL

(* An import that reaches its reports has accounted for every record. *)
THEOREM NobodyIsForgotten ==
  ASSUME ImportAssumption, WholeDump PROVE ImportSpec => []FinishedAccounts
<1>1. Knows /\ PlanKept => FinishedAccounts
  BY DEF Knows, PlanKept, Importing, FinishedAccounts
<1> QED BY <1>1, ImportsKeepTrack, PTL

(* The part of the types that Named and Knows leave out. *)
ScriptTypes ==
  /\ referenced \cup tokens \cup voted \subseteq Users
  /\ step \in {"idle", "read", "insert", "report", "delete", "erase"}
  /\ mapped \subseteq Records /\ refused \subseteq Records

LEMMA ScriptTypesStep ==
  ASSUME ImportAssumption, Named, Knows, ScriptTypes, [ImportNext]_(importVars)
  PROVE  ScriptTypes'
<1> USE DEF ScriptTypes, site, script, tables
<1>1. CASE InsertChunk
  <2>1. Multi \subseteq Records
    <3>1. chunk \subseteq Winners(limit) /\ limit \in Nat
      BY <1>1 DEF InsertChunk, Knows, Importing, ImportAssumption
    <3> QED BY <3>1, WinnersWin DEF Multi
  <2>2. Handled \subseteq Records
    BY DEF Handled
  <2> QED BY <1>1, <2>1, <2>2 DEF InsertChunk
<1>2. CASE RollbackDelete
  BY <1>2 DEF RollbackDelete, Exit
<1>3. ASSUME NEW u \in Users, (\E s \in Subjects : Register(u, s) \/ Bind(u, s)) \/ Login(u) \/ Vote(u)
      PROVE  ScriptTypes'
  BY <1>3 DEF Register, Bind, Login, Vote
<1>4. CASE \/ \E b \in Batches, n \in Limits : StartImport(b, n)
           \/ ReadExisting \/ Abort \/ WriteReports \/ RollbackCrash
           \/ \E b \in Batches, force \in BOOLEAN : RollbackCheck(b, force)
           \/ UNCHANGED importVars
  BY <1>4 DEF StartImport, ReadExisting, Abort, WriteReports, RollbackCheck, RollbackCrash, Exit,
     importVars
<1>5. Residents \subseteq Users
  BY DEF Users
<1> QED BY <1>1, <1>2, <1>3, <1>4, <1>5, Steps DEF Others

(* Whatever script dies where, the tables hold accounts of the site and of *)
(* imported records only, and a script at work is in one of its phases.    *)
THEOREM ImportTypes ==
  ASSUME ImportAssumption PROVE ImportSpec => []ImportTypeOK
<1> DEFINE IInv == Named /\ Knows /\ ScriptTypes
<1>1. ImportInit => IInv
  BY NamedInit DEF ImportInit, ScriptTypes
<1>2. IInv /\ [ImportNext]_(importVars) => IInv'
  BY NamedStep, ScriptTypesStep
<1>3. IInv => ImportTypeOK
  BY DEF Named, ScriptTypes, ImportTypeOK, MappingRows
<1> QED BY <1>1, <1>2, <1>3, PTL DEF ImportSpec

=============================================================================
