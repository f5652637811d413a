----------------------------- MODULE MongoSync -----------------------------
(***************************************************************************)
(* The copy of the old MongoDB collections (apps/admin/sync, SyncService,  *)
(* the /admin/sync routes): a background job scans one collection after    *)
(* the other in _id order, maps and inserts batches, and leaves            *)
(* checkpoints in Redis from which a retry of the run continues.           *)
(*                                                                         *)
(* Documents are numbered by their _id within a collection; the rows they  *)
(* map to are left out, and so are the counts of the run's log.            *)
(***************************************************************************)
EXTENDS Integers, Sequences, FiniteSets, Functions

CONSTANTS
  Collections,  \* COLLECTION_CONFIG: the sequence of collections
  Size,         \* Size[c]: number of documents of collection c
  Unmappable,   \* Unmappable[c]: documents whose mapper raises
  Refused,      \* Refused[c]: rows that violate a constraint of their table
  Present,      \* Present[c]: documents that were copied earlier
  BatchSize,
  Runs,         \* run ids
  Jobs,         \* background tasks
  NoRun,
  Clients       \* which Redis clients to consider: may values come as bytes?

VARIABLES
  bytes,        \* does the Redis client return bytes (as the tests' does)?
  stored,       \* stored[c]: documents with a row in PostgreSQL
  reported,     \* reported[c]: documents named in migrate_errors_*.jsonl
  log,          \* log[r]: status of r in sync_run_log
  checkpoint,   \* checkpoint[r][c]: the last _id saved; 0: none
  cancel,       \* cancel[r]: is the cancel key of r set?
  current,      \* sync:current_run
  pc,           \* pc[w]: where job w stands
  run,          \* run[w]: the run w works for
  at,           \* at[w]: index of w's collection
  pos,          \* pos[w]: the documents of it that w has seen
  batch,        \* batch[w]: mapped documents not yet flushed
  cancelled     \* (history) runs that were asked to stop

redis == <<checkpoint, cancel, current>>
database == <<stored, reported, log>>
cursor == <<at, pos, batch>>
vars == <<bytes, stored, reported, log, checkpoint, cancel, current, pc, run, at, pos,
          batch, cancelled>>

Docs(c) == 1..Size[c]
Names == Range(Collections)
Working == {"announce", "open", "scan", "flush", "save", "fail", "complete", "clear"}
Ended == {"done", "crashed"}

ASSUME SyncAssumption ==
  /\ Collections \in Seq(Names)
  /\ Size \in [Names -> Nat]
  /\ \A c \in Names : /\ Unmappable[c] \subseteq Docs(c)
                      /\ Refused[c] \subseteq Docs(c)
                      /\ Present[c] \subseteq Docs(c)
  /\ Present \in [Names -> SUBSET Nat]
  /\ BatchSize \in Nat \ {0}
  /\ NoRun \notin Runs
  /\ Clients \subseteq BOOLEAN

TypeOK ==
  /\ bytes \in BOOLEAN
  /\ stored \in [Names -> SUBSET Nat] /\ reported \in [Names -> SUBSET Nat]
  /\ \A c \in Names : stored[c] \subseteq Docs(c) /\ reported[c] \subseteq Docs(c)
  /\ log \in [Runs -> {"none", "running", "completed", "failed"}]
  /\ checkpoint \in [Runs -> [Names -> Nat]]
  /\ cancel \in [Runs -> BOOLEAN]
  /\ current \in Runs \cup {NoRun}
  /\ pc \in [Jobs -> {"idle"} \cup Working \cup Ended]
  /\ run \in [Jobs -> Runs \cup {NoRun}]
  /\ \A w \in Jobs : pc[w] # "idle" => run[w] \in Runs
  /\ at \in [Jobs -> 1..(Len(Collections) + 1)]
  /\ pos \in [Jobs -> Nat]
  /\ batch \in [Jobs -> Seq(Nat)]
  /\ \A w \in Jobs : Len(batch[w]) <= BatchSize
  /\ cancelled \subseteq Runs

Init ==
  /\ bytes \in Clients
  /\ stored = Present
  /\ reported = [c \in Names |-> {}]
  /\ log = [r \in Runs |-> "none"]
  /\ checkpoint = [r \in Runs |-> [c \in Names |-> 0]]
  /\ cancel = [r \in Runs |-> FALSE]
  /\ current = NoRun
  /\ pc = [w \in Jobs |-> "idle"]
  /\ run = [w \in Jobs |-> NoRun]
  /\ at = [w \in Jobs |-> 1]
  /\ pos = [w \in Jobs |-> 0]
  /\ batch = [w \in Jobs |-> <<>>]
  /\ cancelled = {}

Goto(w, label) == pc' = [pc EXCEPT ![w] = label]

-----------------------------------------------------------------------------
(* The routes *)

(* start_sync: the log is committed before Redis is told. *)
StartSync(w, r) ==
  /\ pc[w] = "idle" /\ log[r] = "none"
  /\ run' = [run EXCEPT ![w] = r]
  /\ log' = [log EXCEPT ![r] = "running"]
  /\ Goto(w, "announce")
  /\ UNCHANGED <<bytes, stored, reported, redis, cursor, cancelled>>

Announce(w) ==
  /\ pc[w] = "announce"
  /\ current' = run[w]
  /\ Goto(w, "open")
  /\ UNCHANGED <<bytes, database, checkpoint, cancel, run, cursor, cancelled>>

(* retry_sync: the run id is not looked up, its log stays as it is. *)
RetrySync(w, r) ==
  /\ pc[w] = "idle"
  /\ run' = [run EXCEPT ![w] = r]
  /\ current' = r
  /\ Goto(w, "open")
  /\ UNCHANGED <<bytes, database, checkpoint, cancel, cursor, cancelled>>

(* cancel_sync: get_current_run decodes what it reads. *)
CancelSync ==
  /\ current # NoRun
  /\ bytes
  /\ cancel' = [cancel EXCEPT ![current] = TRUE]
  /\ cancelled' = cancelled \cup {current}
  /\ UNCHANGED <<bytes, database, checkpoint, current, pc, run, cursor>>

-----------------------------------------------------------------------------
(* run_collection *)

Here(w) == Collections[at[w]]
Mark(w) == checkpoint[run[w]][Here(w)]

(* load_checkpoint; a checkpoint that is not bytes raises AttributeError. *)
Open(w) ==
  /\ pc[w] = "open" /\ at[w] <= Len(Collections)
  /\ IF Mark(w) # 0 /\ ~ bytes
       THEN /\ Goto(w, "fail")
            /\ UNCHANGED pos
       ELSE /\ pos' = [pos EXCEPT ![w] = Mark(w)]
            /\ Goto(w, "scan")
  /\ batch' = [batch EXCEPT ![w] = <<>>]
  /\ UNCHANGED <<bytes, database, redis, run, at, cancelled>>

(* Mutant of ScanDocument: only full batches are flushed. *)
ScanFullOnly(w) ==
  LET c == Here(w)
      doc == pos[w] + 1
      mapped == IF doc \in Unmappable[c] THEN batch[w] ELSE Append(batch[w], doc)
  IN  /\ pc[w] = "scan" /\ doc \in Docs(c) /\ ~ cancel[run[w]]
      /\ pos' = [pos EXCEPT ![w] = doc]
      /\ batch' = [batch EXCEPT ![w] = mapped]
      /\ reported' = [reported EXCEPT ![c] = @ \cup ({doc} \cap Unmappable[c])]
      /\ Goto(w, IF Len(mapped) >= BatchSize THEN "flush" ELSE "scan")
      /\ UNCHANGED <<bytes, stored, log, redis, run, at, cancelled>>

(* One document; a batch is flushed when it is full, and with the last     *)
(* document of the collection if that can be mapped.                       *)
ScanDocument(w) ==
  LET c == Here(w)
      doc == pos[w] + 1
      mapped == Append(batch[w], doc)
  IN  /\ pc[w] = "scan" /\ doc \in Docs(c) /\ ~ cancel[run[w]]
      /\ pos' = [pos EXCEPT ![w] = doc]
      /\ \/ /\ doc \in Unmappable[c]
            /\ reported' = [reported EXCEPT ![c] = @ \cup {doc}]
            /\ UNCHANGED <<batch, pc>>
         \/ /\ doc \notin Unmappable[c]
            /\ batch' = [batch EXCEPT ![w] = mapped]
            /\ Goto(w, IF Len(mapped) >= BatchSize \/ doc = Size[c] THEN "flush" ELSE "scan")
            /\ UNCHANGED reported
      /\ UNCHANGED <<bytes, stored, log, redis, run, at, cancelled>>

(* The end of the collection, or the cancel signal: the next collection. *)
LeaveCollection(w) ==
  /\ pc[w] = "scan"
  /\ pos[w] = Size[Here(w)] \/ cancel[run[w]]
  /\ at' = [at EXCEPT ![w] = @ + 1]
  /\ Goto(w, "open")
  /\ UNCHANGED <<bytes, database, redis, run, pos, batch, cancelled>>

InBatch(w) == Range(batch[w])

(* Mutant of Flush: a commit that fails is taken for one that did not. *)
FlushSwallowed(w) ==
  /\ pc[w] = "flush"
  /\ \E rows \in {{}, InBatch(w)} : stored' = [stored EXCEPT ![Here(w)] = @ \cup rows]
  /\ Goto(w, "save")
  /\ UNCHANGED <<bytes, reported, log, redis, run, cursor, cancelled>>

(* _flush_batch: ON CONFLICT DO NOTHING, in one transaction.  A row that   *)
(* PostgreSQL refuses aborts the transaction: the statements after it fail *)
(* too and are reported, those before it are rolled back.                  *)
Flush(w) ==
  LET c == Here(w)
      refused == InBatch(w) \cap (Refused[c] \ stored[c])
  IN  /\ pc[w] = "flush"
      /\ \/ /\ refused = {}
            /\ stored' = [stored EXCEPT ![c] = @ \cup InBatch(w)]
            /\ UNCHANGED reported
         \/ /\ refused # {}
            /\ reported' = [reported EXCEPT ![c] =
                              @ \cup {d \in InBatch(w) : \E x \in refused : x <= d}]
            /\ UNCHANGED stored
      /\ Goto(w, "save")
      /\ UNCHANGED <<bytes, log, redis, run, cursor, cancelled>>

(* save_checkpoint (and set_progress) *)
SaveCheckpoint(w) ==
  /\ pc[w] = "save"
  /\ checkpoint' = [checkpoint EXCEPT ![run[w]][Here(w)] = batch[w][Len(batch[w])]]
  /\ batch' = [batch EXCEPT ![w] = <<>>]
  /\ Goto(w, "scan")
  /\ UNCHANGED <<bytes, database, cancel, current, run, at, pos, cancelled>>

-----------------------------------------------------------------------------
(* The end of _run_all_collections_bg: complete_run *)

LogStatus(w, status) ==
  log' = [log EXCEPT ![run[w]] = IF @ = "none" THEN "none" ELSE status]

(* A cancelled run has run through all its collections. *)
Complete(w) ==
  /\ pc[w] = "open" /\ at[w] > Len(Collections)
  /\ LogStatus(w, "completed")
  /\ Goto(w, "clear")
  /\ UNCHANGED <<bytes, stored, reported, redis, run, cursor, cancelled>>

(* Mutant of Fail: only a run that succeeds is logged. *)
FailSilently(w) ==
  /\ pc[w] = "fail"
  /\ Goto(w, "clear")
  /\ UNCHANGED <<bytes, database, redis, run, cursor, cancelled>>

Fail(w) ==
  /\ pc[w] = "fail"
  /\ LogStatus(w, "failed")
  /\ Goto(w, "clear")
  /\ UNCHANGED <<bytes, stored, reported, redis, run, cursor, cancelled>>

(* clear_current_run: whichever run is current. *)
ClearCurrent(w) ==
  /\ pc[w] = "clear"
  /\ current' = NoRun
  /\ Goto(w, "done")
  /\ UNCHANGED <<bytes, database, checkpoint, cancel, run, cursor, cancelled>>

-----------------------------------------------------------------------------
(* A database or Redis error in the middle of a collection fails the run,  *)
(* a restart of the server ends the job where it stands.                   *)

Interrupted(w) ==
  /\ pc[w] \in {"open", "scan", "flush", "save"} /\ at[w] <= Len(Collections)
  /\ Goto(w, "fail")
  /\ UNCHANGED <<bytes, database, redis, run, cursor, cancelled>>

Crash(w) ==
  /\ pc[w] \in Working
  /\ Goto(w, "crashed")
  /\ UNCHANGED <<bytes, database, redis, run, cursor, cancelled>>

(* Lifetimes: a week, an hour and a day. *)
ExpireCheckpoint(r, c) ==
  /\ checkpoint[r][c] # 0
  /\ checkpoint' = [checkpoint EXCEPT ![r][c] = 0]
  /\ UNCHANGED <<bytes, database, cancel, current, pc, run, cursor, cancelled>>

ExpireCancel(r) ==
  /\ cancel[r]
  /\ cancel' = [cancel EXCEPT ![r] = FALSE]
  /\ UNCHANGED <<bytes, database, checkpoint, current, pc, run, cursor, cancelled>>

ExpireCurrent ==
  /\ current # NoRun
  /\ current' = NoRun
  /\ UNCHANGED <<bytes, database, checkpoint, cancel, pc, run, cursor, cancelled>>

Step(w) ==
  \/ Announce(w) \/ Open(w) \/ ScanDocument(w) \/ LeaveCollection(w) \/ Flush(w)
  \/ SaveCheckpoint(w) \/ Complete(w) \/ Fail(w) \/ ClearCurrent(w)

Next ==
  \/ \E w \in Jobs : Step(w) \/ Interrupted(w) \/ Crash(w)
  \/ \E w \in Jobs, r \in Runs : StartSync(w, r) \/ RetrySync(w, r)
  \/ CancelSync \/ ExpireCurrent
  \/ \E r \in Runs : ExpireCancel(r)
  \/ \E r \in Runs, c \in Names : ExpireCheckpoint(r, c)

Fairness == \A w \in Jobs : WF_vars(Step(w))

Spec == Init /\ [][Next]_vars /\ Fairness

-----------------------------------------------------------------------------
(* Properties *)

Accounted(c) == stored[c] \cup reported[c]

(* A retry skips what lies at or below the checkpoint: all of it has a row *)
(* or is named in the error file, whatever jobs of whatever runs crash,    *)
(* overlap or are cancelled (run_collection).                              *)
CheckpointCovers ==
  \A r \in Runs, c \in Names : 1..checkpoint[r][c] \subseteq Accounted(c)

(* A run that is logged as completed and was never cancelled has accounted *)
(* for every document of a collection whose last document can be mapped.   *)
CompletedCovers ==
  \A r \in Runs \ cancelled, c \in Names :
    log[r] = "completed" /\ Size[c] \notin Unmappable[c] => Docs(c) \subseteq Accounted(c)

(* The same without the exception: "a single mapping failure does not      *)
(* interrupt the batch".                                                   *)
CompletedCoversAll ==
  \A r \in Runs \ cancelled, c \in Names :
    log[r] = "completed" => Docs(c) \subseteq Accounted(c)

(* A job that the server survives tells the log how it ended: no run stays *)
(* "running" behind a job that is over (complete_run in the finally).      *)
LogClosed ==
  \A w \in Jobs, r \in Runs :
    (pc[w] = "open" /\ run[w] = r) ~> (pc[w] = "crashed" \/ log[r] # "running")

=============================================================================
