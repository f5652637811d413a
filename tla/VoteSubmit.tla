----------------------------- MODULE VoteSubmit -----------------------------
(***************************************************************************)
(* Vote submission: the REST handlers of submit/router.py, the GraphQL     *)
(* mutations of submit_bridge.py, SubmitService and SubmitDAO._upsert.     *)
(*                                                                         *)
(* A request is one HTTP call.  It takes the voter's Redis lock (SET NX    *)
(* PX), stamps the ballot, passes the questionnaire gate, reads the newest *)
(* row of its table, inserts the next one and releases the lock with a GET *)
(* and a DELETE.  Every one of these is a round trip to Redis or to        *)
(* PostgreSQL (READ COMMITTED), hence a step of its own.                   *)
(*                                                                         *)
(* Time: the lock's 10 s lifetime is not counted.  The key may expire as   *)
(* soon as its holder is gone (crashed); MayOverrun says whether it may    *)
(* also expire under a handler that is still at work.                      *)
(***************************************************************************)
EXTENDS Naturals, Sequences

CONSTANTS
  Voters,        \* vote_id values (= the user_id of the vote token)
  Requests,      \* HTTP requests; each is served once (its uuid is fresh)
  NoRequest,     \* the lock key does not exist
  NoJob,         \* a request that has not started or has ended
  Gated,         \* tables whose submit calls _require_questionnaire
  Paper,         \* the raw_paper table (submit_paper: no gate)
  Answering,     \* voters who use the structured questionnaire
  FillTimes,     \* values of fill_duration_ms
  NoFill,        \* fill_duration_ms of a row that was not read
  LegacyTables,  \* rows of a voter that were synced before the vote opens
  MaxClock,      \* bound on the server clock
  MayOverrun     \* may a lock expire while its holder still runs?

Categories == Gated \cup {Paper}
Clock == 0..MaxClock

(* attempt = 0 stands for NULL: every reader coalesces it to 0.  "full" is  *)
(* is_paper_meaningful of a paper row (TRUE for every row a submit writes). *)
Row == [attempt : Nat, fill : FillTimes, created : Clock, server : BOOLEAN,
        full : BOOLEAN, invalidated : BOOLEAN]

LegacyRow == [attempt : {0}, fill : FillTimes, created : {0}, server : {TRUE},
              full : BOOLEAN, invalidated : BOOLEAN]

(* What a request carries until it ends. *)
Job == [voter : Voters, cat : Categories, graphql : BOOLEAN, fill : FillTimes]

ASSUME SubmitAssumption ==
  /\ NoRequest \notin Requests
  /\ Paper \notin Gated
  /\ NoFill \notin FillTimes
  /\ NoJob \notin Job
  /\ Answering \subseteq Voters
  /\ MaxClock \in Nat
  /\ MayOverrun \in BOOLEAN
  /\ \A t \in LegacyTables : t \in Seq(LegacyRow)

VARIABLES
  lock,     \* lock[v]: the request whose uuid is stored at lock-submit-v
  rows,     \* rows[c][v]: the rows of voter v in table c, in commit order
  answers,  \* answers[v]: v's structured answers against today's structure
  passed,   \* (history) voters whose answers have been complete at some time
  clock,    \* the server clock
  pc,       \* pc[r]: where request r stands
  job,      \* job[r]: whose ballot r carries, for which table, by which route
  stamp,    \* stamp[r]: the created_at of r's ballot
  prev      \* prev[r]: attempt and fill time of the row _upsert read

vars == <<lock, rows, answers, passed, clock, pc, job, stamp, prev>>

NoPrev == [attempt |-> 0, fill |-> NoFill]
Prev == [attempt : Nat, fill : FillTimes] \cup {NoPrev}

Body     == {"stamp", "paper", "answers", "read", "write"}  \* inside the try
Critical == Body \cup {"release", "delete"}                 \* may own the lock
Terminal == {"ended"}      \* answered, refused or killed

Table(r) == rows[job[r].cat][job[r].voter]

-----------------------------------------------------------------------------
(* The three orders in which the code looks for "the newest row".           *)

(* Mutants of HighestAttempt: ordered by created_at, or skipping void rows. *)
HighestByDate(s) ==
  {i \in DOMAIN s : \A j \in DOMAIN s : s[j].created <= s[i].created}

HighestStanding(s) ==
  {i \in DOMAIN s :
     /\ ~s[i].invalidated
     /\ \A j \in DOMAIN s : s[j].invalidated \/ s[j].attempt <= s[i].attempt}

(* _upsert: highest coalesce(attempt, 0). *)
HighestAttempt(s) ==
  {i \in DOMAIN s : \A j \in DOMAIN s : s[j].attempt <= s[i].attempt}

(* Mutant of Newer: no tie-break by attempt. *)
NewerByDate(x, y) == x.created > y.created

(* get_*_submit and _latest_per_vote: created_at desc, attempt desc. *)
Newer(x, y) ==
  \/ x.created > y.created
  \/ x.created = y.created /\ x.attempt > y.attempt

LatestRows(s) == {i \in DOMAIN s : \A j \in DOMAIN s : ~Newer(s[j], s[i])}

(* latest_paper_json: the rows not voided, created_at desc, id desc. *)
LatestPaper(s) ==
  {i \in DOMAIN s :
     /\ ~s[i].invalidated
     /\ \A j \in DOMAIN s :
          \/ s[j].invalidated
          \/ s[j].created < s[i].created
          \/ s[j].created = s[i].created /\ j <= i}

(* Mutant of PaperMeaningful: any paper will do. *)
PaperPresent(v) == LatestPaper(rows[Paper][v]) # {}

(* is_paper_meaningful(latest_paper_json(v)) *)
PaperMeaningful(v) == \E i \in LatestPaper(rows[Paper][v]) : rows[Paper][v][i].full

(* Mutant of RowAfter: the fill time of every edit. *)
RowWithOwnFill(p, r) ==
  [attempt |-> p.attempt + 1, fill |-> job[r].fill, created |-> stamp[r],
   server |-> job[r].graphql, full |-> TRUE, invalidated |-> FALSE]

(* The row _upsert inserts for request r after having read p. *)
RowAfter(p, r) ==
  [attempt     |-> p.attempt + 1,
   fill        |-> IF p.attempt = 0 THEN job[r].fill ELSE p.fill,
   created     |-> stamp[r],
   server      |-> job[r].graphql,
   full        |-> TRUE,
   invalidated |-> FALSE]

-----------------------------------------------------------------------------
Init ==
  /\ lock = [v \in Voters |-> NoRequest]
  /\ rows \in [Categories -> [Voters -> LegacyTables]]
  /\ answers = [v \in Voters |-> "partial"]
  /\ passed = {}
  /\ clock = 0
  /\ pc = [r \in Requests |-> "idle"]
  /\ job = [r \in Requests |-> NoJob]
  /\ stamp = [r \in Requests |-> 0]
  /\ prev = [r \in Requests |-> NoPrev]

(* SET lock-submit-{user} uuid NX PX 10000 ... *)
Acquire(r, j) ==
  /\ pc[r] = "idle"
  /\ lock[j.voter] = NoRequest
  /\ lock' = [lock EXCEPT ![j.voter] = r]
  /\ pc' = [pc EXCEPT ![r] = "stamp"]
  /\ job' = [job EXCEPT ![r] = j]
  /\ UNCHANGED <<rows, answers, passed, clock, stamp, prev>>

(* ... and the answer 429 SUBMIT_LOCKED when the key exists. *)
Refuse(r, j) ==
  /\ pc[r] = "idle"
  /\ lock[j.voter] # NoRequest
  /\ pc' = [pc EXCEPT ![r] = "ended"]
  /\ UNCHANGED <<lock, rows, answers, passed, clock, job, stamp, prev>>

(* GraphQL takes created_at from the server clock, REST from the client's   *)
(* metadata (any time); gated tables go to the questionnaire gate.          *)
StampBallot(r) ==
  /\ pc[r] = "stamp"
  /\ \E t \in Clock :
       /\ job[r].graphql => t = clock
       /\ stamp' = [stamp EXCEPT ![r] = t]
  /\ pc' = [pc EXCEPT ![r] = IF job[r].cat \in Gated THEN "paper" ELSE "read"]
  /\ UNCHANGED <<lock, rows, answers, passed, clock, job, prev>>

(* _require_questionnaire: the legacy paper first ... *)
CheckPaper(r) ==
  /\ pc[r] = "paper"
  /\ pc' = [pc EXCEPT ![r] =
              IF PaperMeaningful(job[r].voter) THEN "read" ELSE "answers"]
  /\ UNCHANGED <<lock, rows, answers, passed, clock, job, stamp, prev>>

(* ... then the structured answers, which must exist and be complete. *)
CheckAnswers(r) ==
  /\ pc[r] = "answers"
  /\ pc' = [pc EXCEPT ![r] =
              IF answers[job[r].voter] = "complete" THEN "read" ELSE "release"]
  /\ UNCHANGED <<lock, rows, answers, passed, clock, job, stamp, prev>>

(* _upsert, first half: SELECT attempt, fill_duration_ms ... LIMIT 1. *)
ReadPrev(r) ==
  /\ pc[r] = "read"
  /\ \/ Table(r) = <<>> /\ prev' = [prev EXCEPT ![r] = NoPrev]
     \/ \E i \in HighestAttempt(Table(r)) :
          prev' = [prev EXCEPT ![r] = [attempt |-> Table(r)[i].attempt,
                                       fill    |-> Table(r)[i].fill]]
  /\ pc' = [pc EXCEPT ![r] = "write"]
  /\ UNCHANGED <<lock, rows, answers, passed, clock, job, stamp>>

(* _upsert, second half: INSERT and COMMIT. *)
WriteRow(r) ==
  /\ pc[r] = "write"
  /\ rows' = [rows EXCEPT ![job[r].cat][job[r].voter] =
                Append(@, RowAfter(prev[r], r))]
  /\ pc' = [pc EXCEPT ![r] = "release"]
  /\ UNCHANGED <<lock, answers, passed, clock, job, stamp, prev>>

(* Any exception of the body (content not valid, unknown candidate, a       *)
(* database error) leaves through the finally clause; nothing is committed. *)
Abort(r) ==
  /\ pc[r] \in Body
  /\ pc' = [pc EXCEPT ![r] = "release"]
  /\ UNCHANGED <<lock, rows, answers, passed, clock, job, stamp, prev>>

(* The request ends, by whichever way, and what it carried is gone. *)
End(r) ==
  /\ pc' = [pc EXCEPT ![r] = "ended"]
  /\ job' = [job EXCEPT ![r] = NoJob]
  /\ stamp' = [stamp EXCEPT ![r] = 0]
  /\ prev' = [prev EXCEPT ![r] = NoPrev]

(* finally: GET the key; only our own uuid leads to a DELETE. *)
CheckOwner(r) ==
  /\ pc[r] = "release"
  /\ IF lock[job[r].voter] = r
       THEN pc' = [pc EXCEPT ![r] = "delete"] /\ UNCHANGED <<job, stamp, prev>>
       ELSE End(r)
  /\ UNCHANGED <<lock, rows, answers, passed, clock>>

DeleteLock(r) ==
  /\ pc[r] = "delete"
  /\ lock' = [lock EXCEPT ![job[r].voter] = NoRequest]
  /\ End(r)
  /\ UNCHANGED <<rows, answers, passed, clock>>

(* The worker dies: no finally clause runs, the lock stays for its lifetime. *)
Crash(r) ==
  /\ pc[r] \in Critical
  /\ End(r)
  /\ UNCHANGED <<lock, rows, answers, passed, clock>>

(* Mutant of Expire: SET without PX, only a deletion ends the lock. *)
ExpireNever(v) == FALSE

(* Redis drops the key after PX milliseconds. *)
Expire(v) ==
  /\ lock[v] # NoRequest
  /\ MayOverrun \/ pc[lock[v]] \notin Critical
  /\ lock' = [lock EXCEPT ![v] = NoRequest]
  /\ UNCHANGED <<rows, answers, passed, clock, pc, job, stamp, prev>>

(* MonitorDAO.set_invalidated: the void and restore buttons, any row. *)
SetInvalidated(c, v, i, value) ==
  /\ rows' = [rows EXCEPT ![c][v][i].invalidated = value]
  /\ UNCHANGED <<lock, answers, passed, clock, pc, job, stamp, prev>>

(* The voter stores a batch of structured answers, or the administrator      *)
(* edits the questionnaire and a stored batch is judged anew.                *)
Regrade(v, grade) ==
  /\ answers' = [answers EXCEPT ![v] = grade]
  /\ passed' = IF grade = "complete" THEN passed \cup {v} ELSE passed
  /\ UNCHANGED <<lock, rows, clock, pc, job, stamp, prev>>

Tick ==
  /\ clock < MaxClock
  /\ clock' = clock + 1
  /\ UNCHANGED <<lock, rows, answers, passed, pc, job, stamp, prev>>

Step(r) == \/ StampBallot(r) \/ CheckPaper(r) \/ CheckAnswers(r)
           \/ ReadPrev(r) \/ WriteRow(r) \/ CheckOwner(r) \/ DeleteLock(r)

Admin == \E c \in Categories, v \in Voters, value \in BOOLEAN :
           \E i \in DOMAIN rows[c][v] : SetInvalidated(c, v, i, value)

Next ==
  \/ \E r \in Requests :
       \/ \E j \in Job : Acquire(r, j) \/ Refuse(r, j)
       \/ Step(r) \/ Abort(r) \/ Crash(r)
  \/ \E v \in Voters : Expire(v)
  \/ \E v \in Answering, g \in {"complete", "partial"} : Regrade(v, g)
  \/ Admin
  \/ Tick

Spec == Init /\ [][Next]_vars

(* A handler that is not killed keeps running (the event loop schedules     *)
(* every ready coroutine) and Redis drops expired keys.                     *)
FairSpec ==
  /\ Spec
  /\ \A r \in Requests : WF_vars(Step(r))
  /\ \A v \in Voters : WF_vars(Expire(v))

-----------------------------------------------------------------------------
TypeOK ==
  /\ lock \in [Voters -> Requests \cup {NoRequest}]
  /\ rows \in [Categories -> [Voters -> Seq(Row)]]
  /\ answers \in [Voters -> {"partial", "complete"}]
  /\ passed \subseteq Voters
  /\ clock \in Clock
  /\ pc \in [Requests -> Critical \cup Terminal \cup {"idle"}]
  /\ job \in [Requests -> Job \cup {NoJob}]
  /\ \A r \in Requests : pc[r] \in Critical => job[r] \in Job
  /\ stamp \in [Requests -> Clock]
  /\ prev \in [Requests -> Prev]

(* _upsert, "attempt = previous count + 1 (first submit = 1, each edit = 2, *)
(* 3...)": in commit order the attempts of a voter's table are NULL for the *)
(* legacy rows and then 1, 2, 3, ... without a gap or a duplicate.          *)
AttemptsSerial ==
  \A c \in Categories, v \in Voters : LET s == rows[c][v] IN
    \A i \in DOMAIN s :
      IF i = 1 THEN s[i].attempt \in {0, 1}
      ELSE \/ s[i].attempt = s[i-1].attempt + 1
           \/ s[i].attempt = 0 /\ s[i-1].attempt = 0

(* _upsert, "fill_duration_ms = the first submit's reported fill time,       *)
(* preserved on every re-submit": no edit of a ballot replaces the fill time *)
(* of the first numbered one, whatever the requests in between did.          *)
FirstFillKept ==
  \A c \in Categories, v \in Voters : LET s == rows[c][v] IN
    \A i, j \in DOMAIN s :
      s[i].attempt > 0 /\ s[j].attempt > 0 => s[i].fill = s[j].fill

(* The ballot the tally and the read-back pick (created_at, attempt) is the *)
(* one committed last, for a voter whose rows all carry the server's time.  *)
TallyReadsLastCommit ==
  \A c \in Categories, v \in Voters : LET s == rows[c][v] IN
    /\ s # <<>>
    /\ s[Len(s)].attempt > 0
    /\ \A i \in DOMAIN s : s[i].server
    => LatestRows(s) = {Len(s)}

(* _require_questionnaire (R-03): a gated ballot belongs to a voter who had  *)
(* completed the questionnaire at some time, by structured answers or by a   *)
(* legacy paper with real content; an empty paper never opens the gate.      *)
Entitled(v) ==
  \/ v \in passed
  \/ \E i \in DOMAIN rows[Paper][v] : rows[Paper][v][i].full

GatedBallotsAreEntitled ==
  \A c \in Gated, v \in Voters :
    (\E i \in DOMAIN rows[c][v] : rows[c][v][i].attempt > 0) => Entitled(v)

(* _submit_lock, "submits of one user are mutually exclusive": two requests *)
(* of one voter are never inside the locked section together.               *)
OneSubmitAtATime ==
  \A r, q \in Requests :
    /\ pc[r] \in Critical /\ pc[q] \in Critical /\ job[r].voter = job[q].voter
    => r = q

(* The 10 s lifetime of the lock is what repairs a crash: whoever takes the  *)
(* lock, and wherever it dies, the voter can submit again.                   *)
LockEventuallyFree ==
  \A v \in Voters : lock[v] # NoRequest ~> lock[v] = NoRequest

(* The store behaves as the atomic ballot box. *)
Ballot == [attempt : {0}, fill : FillTimes, created : Clock, server : BOOLEAN,
           full : {TRUE}, invalidated : {FALSE}]
Box == INSTANCE BallotBox WITH box <- rows, Ballots <- Ballot
BoxSpec == Box!Spec
=============================================================================
