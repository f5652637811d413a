--------------------------- MODULE Questionnaire ---------------------------
(***************************************************************************)
(* The questionnaire at work: administrators edit its structure node by    *)
(* node or import a whole tree (admin_router.py, admin_service.py,         *)
(* admin_dao.py), readers load it through a cache (router.py), voters      *)
(* submit papers (submit_paper_v2) and the gate of the ballots judges them *)
(* (_require_questionnaire).                                               *)
(*                                                                         *)
(* Every SELECT sees what is committed when it runs: a structure is loaded *)
(* level by level, an edit checks first and commits later.                 *)
(***************************************************************************)
EXTENDS PaperRules, SequencesExt

CONSTANTS
  Voters,
  Jobs,         \* requests of readers and voters
  Editors,      \* requests of administrators
  Tasks,        \* what a job may ask for
  Edits,        \* what an administrator may ask for
  Structures,   \* structures the system may start with
  OldPapers,    \* papers stored before attempts were numbered
  NoOne,        \* the lock key of a voter does not exist
  MayOverrun    \* may the lock expire under a handler that still works?

VARIABLES
  tables,       \* the four committed tables
  serial,       \* serial[level]: the last id the database has handed out
  papers,       \* papers[v]: the batches of v, in commit order
  cache,        \* the cached structure
  lock,         \* lock[v]: the job that set lock-submit-{v}
  pc,           \* pc[p]: where process p stands
  request,      \* request[p]: what p has been asked for
  loaded,       \* loaded[p]: the rows p has loaded
  depth,        \* depth[p]: how many levels p has loaded
  prev,         \* prev[j]: the highest attempt j has read
  verdict,      \* verdict[j]: did the gate let j through?
  since         \* (history) since[j]: the structures there were while j loaded

vars == <<tables, serial, papers, cache, lock, pc, request, loaded, depth, prev,
          verdict, since>>
edited == <<tables, serial>>
voted == <<papers, lock, prev, verdict>>

Processes == Jobs \cup Editors
Ended == {"done", "failed", "crashed"}
Working == {"get", "lock", "answers", "load", "set", "insert", "release", "delete",
            "check", "commit", "finish"}

(* NOT NULL: below the questionnaires every row names a parent. *)
ParentsGiven(s) ==
  \A level \in Level \ {"questionnaire"} : \A x \in DOMAIN s[level] : s[level][x].up # None

ASSUME QuestionnaireAssumption ==
  /\ NoOne \notin Jobs
  /\ Jobs \cap Editors = {}
  /\ None \notin Tasks
  /\ \A s \in Structures : DOMAIN s = Level /\ ParentsGiven(s)
  /\ \A t \in Tasks : t.kind \in {"structure", "paper", "gate"} /\ t.voter \in Voters
  /\ \A x \in Edits : IF x.op = "import" THEN \A level \in Level : IsFiniteSet(DOMAIN x.tree[level])
                                           ELSE x.level \in Level
  /\ MaxRounds \in Nat
  /\ MayOverrun \in BOOLEAN

Papers == OldPapers \cup {t.paper : t \in Tasks}

(* attempt = 0 stands for NULL. *)
Batch == [attempt : Nat, rows : Papers]

TypeOK ==
  /\ DOMAIN tables = Level
  /\ ParentsGiven(tables)
  /\ serial \in [Level -> Nat]
  /\ papers \in [Voters -> Seq(Batch)]
  /\ cache = None \/ DOMAIN cache = Level
  /\ lock \in [Voters -> Jobs \cup {NoOne}]
  /\ pc \in [Processes -> {"new"} \cup Working \cup Ended]
  /\ depth \in [Processes -> 0..Len(Levels)]
  /\ prev \in [Jobs -> Nat]
  /\ verdict \in [Jobs -> BOOLEAN]

Init ==
  /\ tables \in Structures
  /\ serial = [level \in Level |-> 0]
  /\ papers \in [Voters -> {<<>>} \cup {<<[attempt |-> 0, rows |-> p]>> : p \in OldPapers}]
  /\ cache = None
  /\ lock = [v \in Voters |-> NoOne]
  /\ pc = [p \in Processes |-> "new"]
  /\ request = [p \in Processes |-> None]
  /\ loaded = [p \in Processes |-> Empty]
  /\ depth = [p \in Processes |-> 0]
  /\ prev = [j \in Jobs |-> 0]
  /\ verdict = [j \in Jobs |-> FALSE]
  /\ since = [j \in Jobs |-> {}]

Goto(p, label) == pc' = [pc EXCEPT ![p] = label]

-----------------------------------------------------------------------------
(* latest_batch: the commits whose rows a reader is given. *)
LatestBatch(v) ==
  {i \in DOMAIN papers[v] :
     \A k \in DOMAIN papers[v] : papers[v][k].attempt <= papers[v][i].attempt}

AnswersOf(v) == UNION {Range(papers[v][i].rows) : i \in LatestBatch(v)}

-----------------------------------------------------------------------------
(* One query of load_structure_rows, of _delete_all_structure or of a      *)
(* delete: the rows of the next level below those that were found so far.  *)

Deepest(p) == IF p \in Jobs THEN 4 ELSE 3

Load(p) ==
  LET level == Levels[depth[p] + 1]
      rows == IF depth[p] = 0 THEN tables[level]
              ELSE Below(tables[level], DOMAIN loaded[p][Levels[depth[p]]])
  IN  /\ pc[p] = "load"
      /\ depth[p] < Deepest(p)
      /\ loaded' = [loaded EXCEPT ![p][level] = rows]
      /\ depth' = [depth EXCEPT ![p] = @ + 1]
      /\ since' = IF p \in Jobs /\ depth[p] = 0
                    THEN [since EXCEPT ![p] = {Served(tables)}] ELSE since
      /\ UNCHANGED <<edited, voted, cache, pc, request>>

HasLoaded(p) == pc[p] = "load" /\ depth[p] = Deepest(p)

-----------------------------------------------------------------------------
(* get_structure through the cache.  The cache fails open: a write or an   *)
(* invalidation may be lost.                                               *)

Invalidate == cache' \in {None, cache}

AskStructure(j, task) ==
  /\ pc[j] = "new" /\ task.kind = "structure"
  /\ request' = [request EXCEPT ![j] = task]
  /\ Goto(j, "get")
  /\ UNCHANGED <<edited, voted, cache, loaded, depth, since>>

GetCached(j) ==
  /\ pc[j] = "get"
  /\ Goto(j, IF cache # None THEN "done" ELSE "load")
  /\ UNCHANGED <<edited, voted, cache, request, loaded, depth, since>>

SetCached(j) ==
  /\ HasLoaded(j) /\ request[j].kind = "structure"
  /\ cache' \in {loaded[j], cache}
  /\ Goto(j, "done")
  /\ UNCHANGED <<edited, voted, request, loaded, depth, since>>

(* Mutant of ExpireCache: the key is set without a lifetime. *)
ExpireNever == FALSE /\ UNCHANGED vars

(* QUESTIONNAIRE_CACHE_TTL *)
ExpireCache ==
  /\ cache # None
  /\ cache' = None
  /\ UNCHANGED <<edited, voted, pc, request, loaded, depth, since>>

-----------------------------------------------------------------------------
(* submit_paper_v2, and the gate inside a ballot's handler: both hold the  *)
(* voter's submit lock.                                                    *)

AskVoter(j, task) ==
  /\ pc[j] = "new" /\ task.kind \in {"paper", "gate"}
  /\ request' = [request EXCEPT ![j] = task]
  /\ Goto(j, "lock")
  /\ UNCHANGED <<edited, voted, cache, loaded, depth, since>>

(* Mutant of Lock: the key is set without NX. *)
LockAnyway(j) ==
  /\ pc[j] = "lock"
  /\ lock' = [lock EXCEPT ![request[j].voter] = j]
  /\ Goto(j, IF request[j].kind = "gate" THEN "answers" ELSE "load")
  /\ UNCHANGED <<edited, papers, prev, verdict, cache, request, loaded, depth, since>>

Lock(j) ==
  /\ pc[j] = "lock"
  /\ lock[request[j].voter] = NoOne
  /\ lock' = [lock EXCEPT ![request[j].voter] = j]
  /\ Goto(j, CASE request[j].kind = "gate" -> "answers"
               [] request[j].paper = <<>> -> "release"     \* EMPTY_PAPER_SUBMIT
               [] OTHER -> "load")
  /\ UNCHANGED <<edited, papers, prev, verdict, cache, request, loaded, depth, since>>

LockTaken(j) ==
  /\ pc[j] = "lock"
  /\ lock[request[j].voter] # NoOne
  /\ Goto(j, "failed")
  /\ UNCHANGED <<edited, voted, cache, request, loaded, depth, since>>

ReadHighest(j, v) ==
  \/ papers[v] = <<>> /\ prev' = [prev EXCEPT ![j] = 0]
  \/ \E i \in LatestBatch(v) : prev' = [prev EXCEPT ![j] = papers[v][i].attempt]

(* submit_answers: a paper is checked against the loaded structure, and    *)
(* replace_answers reads the highest attempt.                              *)
CheckPaper(j) ==
  /\ HasLoaded(j) /\ request[j].kind = "paper"
  /\ IF Valid(loaded[j], request[j].paper)
       THEN /\ ReadHighest(j, request[j].voter)
            /\ Goto(j, "insert")
       ELSE /\ Goto(j, "release")
            /\ UNCHANGED prev
  /\ UNCHANGED <<edited, papers, lock, verdict, cache, request, loaded, depth, since>>

(* replace_answers: a new batch; nothing is deleted. *)
InsertPaper(j) ==
  /\ pc[j] = "insert"
  /\ papers' = [papers EXCEPT ![request[j].voter] =
                  Append(@, [attempt |-> prev[j] + 1, rows |-> request[j].paper])]
  /\ Goto(j, "release")
  /\ UNCHANGED <<edited, lock, prev, verdict, cache, request, loaded, depth, since>>

(* _require_questionnaire without a legacy paper: a voter without answers  *)
(* is refused before the structure is loaded.                              *)
GateAnswers(j) ==
  /\ pc[j] = "answers"
  /\ Goto(j, IF AnswersOf(request[j].voter) = {} THEN "release" ELSE "load")
  /\ UNCHANGED <<edited, voted, cache, request, loaded, depth, since>>

GateVerdict(j) ==
  /\ HasLoaded(j) /\ request[j].kind = "gate"
  /\ verdict' = [verdict EXCEPT ![j] = IsComplete(loaded[j], AnswersOf(request[j].voter))]
  /\ Goto(j, "release")
  /\ UNCHANGED <<edited, papers, lock, prev, cache, request, loaded, depth, since>>

(* The lock is released by GET and then DELETE. *)
ReadLock(j) ==
  /\ pc[j] = "release"
  /\ Goto(j, IF lock[request[j].voter] = j THEN "delete" ELSE "done")
  /\ UNCHANGED <<edited, voted, cache, request, loaded, depth, since>>

DeleteLock(j) ==
  /\ pc[j] = "delete"
  /\ lock' = [lock EXCEPT ![request[j].voter] = NoOne]
  /\ Goto(j, "done")
  /\ UNCHANGED <<edited, papers, prev, verdict, cache, request, loaded, depth, since>>

(* Ten seconds after it was set. *)
ExpireLock(v) ==
  /\ lock[v] # NoOne
  /\ pc[lock[v]] \in Ended \/ MayOverrun
  /\ lock' = [lock EXCEPT ![v] = NoOne]
  /\ UNCHANGED <<edited, papers, prev, verdict, cache, pc, request, loaded, depth, since>>

Crash(p) ==
  /\ pc[p] \in Working
  /\ Goto(p, "crashed")
  /\ UNCHANGED <<edited, voted, cache, request, loaded, depth, since>>

-----------------------------------------------------------------------------
(* The administrators' routes: each first invalidates the cache, then asks *)
(* the service, and invalidates the cache again if that went well.         *)

Begin(e, edit, levels) ==
  /\ pc[e] = "new" /\ edit.level \in levels
  /\ request' = [request EXCEPT ![e] = edit]
  /\ Invalidate
  /\ Goto(e, "check")
  /\ UNCHANGED <<edited, voted, loaded, depth, since>>

QuestionnaireRoute(e, edit) == Begin(e, edit, {"questionnaire"})
GroupRoute(e, edit) == Begin(e, edit, {"group"})
QuestionRoute(e, edit) == Begin(e, edit, {"question"})
OptionRoute(e, edit) == Begin(e, edit, {"option"})
ImportRoute(e, edit) == Begin(e, edit, {"all"})

KeyTaken(key, id) ==
  \E x \in DOMAIN tables["questionnaire"] \ {id} : tables["questionnaire"][x].key = key

(* What QuestionnaireAdminService and the deletes of the DAO look up first: *)
(* the parent of a new node, but not the parent an update moves a node to.  *)
Acceptable(edit) ==
  CASE edit.op = "create" /\ edit.level = "questionnaire" ->
         ~ KeyTaken(edit.row.key, None)
    [] edit.op = "create" /\ edit.level # "questionnaire" ->
         edit.row.up \in DOMAIN tables[Above(edit.level)]
    [] edit.op = "update" ->
         "key" \in DOMAIN edit.row => ~ KeyTaken(edit.row.key, edit.id)
    [] edit.op = "delete" -> edit.id \in DOMAIN tables[edit.level]
    [] edit.op = "import" -> TRUE

(* A delete goes on to look for what hangs below the node. *)
Check(e) ==
  LET edit == request[e]
  IN  /\ pc[e] = "check"
      /\ \/ /\ ~ Acceptable(edit)
            /\ Goto(e, "failed")
            /\ UNCHANGED <<loaded, depth>>
         \/ /\ Acceptable(edit)
            /\ edit.op \in {"create", "update"}
            /\ Goto(e, "commit")
            /\ UNCHANGED <<loaded, depth>>
         \/ /\ Acceptable(edit)
            /\ edit.op = "import"
            /\ Goto(e, "load")
            /\ UNCHANGED <<loaded, depth>>
         \/ /\ Acceptable(edit)
            /\ edit.op = "delete"
            /\ loaded' = [loaded EXCEPT ![e][edit.level] =
                            Restrict(tables[edit.level], {edit.id})]
            /\ depth' = [depth EXCEPT ![e] =
                           Min({3, CHOOSE i \in 1..4 : Levels[i] = edit.level})]
            /\ Goto(e, "load")
      /\ UNCHANGED <<edited, voted, cache, request, since>>

Ready(e) == pc[e] = "commit" \/ HasLoaded(e)

(* The tables without what editor e has found; the options go with their   *)
(* questions, whether they were found or not.                              *)
Without(e) ==
  [level \in Level |-> Restrict(tables[level],
     {x \in DOMAIN tables[level] :
        /\ x \notin DOMAIN loaded[e][level]
        /\ level = "option" => tables[level][x].up \notin DOMAIN loaded[e]["question"]})]

(* Two rows of one table must not share an id, nor two questionnaires a key. *)
Union(s, t) == [level \in Level |->
  [x \in DOMAIN s[level] \cup DOMAIN t[level] |->
     IF x \in DOMAIN s[level] THEN s[level][x] ELSE t[level][x]]]

Disjoint(s, t) == \A level \in Level : DOMAIN s[level] \cap DOMAIN t[level] = {}

KeysUnique(s) ==
  IsInjective([x \in DOMAIN s["questionnaire"] |-> s["questionnaire"][x].key])

Constraints(s) == KeysUnique(s) /\ ParentsGiven(s)

Commit(e, s) ==
  /\ tables' = s
  /\ since' = [j \in Jobs |-> IF pc[j] = "load" THEN since[j] \cup {Served(s)} ELSE since[j]]
  /\ Goto(e, "finish")

(* A constraint refuses the commit; ids that were handed out stay used. *)
Reject(e) ==
  /\ Goto(e, "failed")
  /\ UNCHANGED <<tables, since>>

Create(e) ==
  LET edit == request[e]
      id == serial[edit.level] + 1
      s == Union(tables, [Empty EXCEPT ![edit.level] = [x \in {id} |-> edit.row]])
  IN  /\ Ready(e) /\ edit.op = "create"
      /\ serial' = [serial EXCEPT ![edit.level] = id]
      /\ IF id \notin DOMAIN tables[edit.level] /\ Constraints(s)
           THEN Commit(e, s) ELSE Reject(e)
      /\ UNCHANGED <<voted, cache, request, loaded, depth>>

(* _assign: the fields that are given, the parent's id among them. *)
Update(e) ==
  LET edit == request[e]
      old == tables[edit.level][edit.id]
      s == [tables EXCEPT ![edit.level][edit.id] =
              [f \in DOMAIN old |-> IF f \in DOMAIN edit.row THEN edit.row[f] ELSE old[f]]]
  IN  /\ Ready(e) /\ edit.op = "update"
      /\ IF edit.id \in DOMAIN tables[edit.level] /\ Constraints(s)
           THEN Commit(e, s) ELSE Reject(e)
      /\ UNCHANGED <<voted, serial, cache, request, loaded, depth>>

Delete(e) ==
  /\ Ready(e) /\ request[e].op = "delete"
  /\ Commit(e, Without(e))
  /\ UNCHANGED <<voted, serial, cache, request, loaded, depth>>

(* A tree whose nodes carry no ids gets the next ones; the ids it mentions *)
(* in relatedQuestionIds stay as they are.                                 *)
Numbered(tree) ==
  [level \in Level |->
     [x \in {serial[level] + y : y \in DOMAIN tree[level]} |->
        LET row == tree[level][x - serial[level]]
        IN  IF level = "questionnaire" THEN row
            ELSE [row EXCEPT !.up = @ + serial[Above(level)]]]]

Import(e) ==
  LET edit == request[e]
      new == IF edit.explicit THEN edit.tree ELSE Numbered(edit.tree)
      s == Union(Without(e), new)
  IN  /\ Ready(e) /\ edit.op = "import"
      /\ serial' = IF edit.explicit THEN serial
                   ELSE [level \in Level |-> serial[level] + Cardinality(DOMAIN new[level])]
      /\ IF Disjoint(Without(e), new) /\ Constraints(s)
           THEN Commit(e, s) ELSE Reject(e)
      /\ UNCHANGED <<voted, cache, request, loaded, depth>>

Finish(e) ==
  /\ pc[e] = "finish"
  /\ Invalidate
  /\ Goto(e, "done")
  /\ UNCHANGED <<edited, voted, request, loaded, depth, since>>

-----------------------------------------------------------------------------
Step(j) ==
  \/ GetCached(j) \/ SetCached(j) \/ Load(j)
  \/ Lock(j) \/ LockTaken(j) \/ CheckPaper(j) \/ InsertPaper(j)
  \/ GateAnswers(j) \/ GateVerdict(j) \/ ReadLock(j) \/ DeleteLock(j)

EditStep(e) ==
  Check(e) \/ Load(e) \/ Create(e) \/ Update(e) \/ Delete(e) \/ Import(e) \/ Finish(e)

Route(e, edit) ==
  \/ QuestionnaireRoute(e, edit) \/ GroupRoute(e, edit) \/ QuestionRoute(e, edit)
  \/ OptionRoute(e, edit) \/ ImportRoute(e, edit)

AllEnded ==
  /\ \A p \in Processes : pc[p] \in Ended
  /\ UNCHANGED vars

Next ==
  \/ \E j \in Jobs : Step(j)
  \/ \E j \in Jobs, task \in Tasks : AskStructure(j, task) \/ AskVoter(j, task)
  \/ \E e \in Editors : EditStep(e)
  \/ \E e \in Editors, edit \in Edits : Route(e, edit)
  \/ \E p \in Processes : Crash(p)
  \/ \E v \in Voters : ExpireLock(v)
  \/ ExpireCache
  \/ AllEnded

(* Redis expires its keys; nobody has to ask, to edit or to finish. *)
Fairness == WF_vars(ExpireCache)

Spec == Init /\ [][Next]_vars /\ Fairness

-----------------------------------------------------------------------------
(* Properties *)

(* get_answers returns the rows of one paper, never a mixture of two that  *)
(* were stored under one attempt: the lock of submit_paper_v2 covers the   *)
(* SELECT of the highest attempt and the INSERT.                           *)
LatestIsOnePaper == \A v \in Voters : \A i, k \in LatestBatch(v) : i = k

(* A voter passes the gate only with a paper that is complete under a      *)
(* structure that was in force while the gate looked (completion.py).      *)
GateMatchesAStructure ==
  \A j \in Jobs :
    verdict[j] /\ pc[j] \in {"release", "delete"} =>
      \E s \in since[j] : TrulyComplete(s, AnswersOf(request[j].voter))

(* The same where no edit was committed in between: eight rounds are       *)
(* enough for the structures checked, and papers do not change under the   *)
(* lock.                                                                   *)
GateSoundWhenUnedited ==
  \A j \in Jobs :
    /\ verdict[j] /\ pc[j] \in {"release", "delete"}
    /\ Cardinality(since[j]) = 1
    => \A s \in since[j] : TrulyComplete(s, AnswersOf(request[j].voter))

(* An imported tree replaces the whole structure (replace_structure_tree): *)
(* what is served once it is committed is the tree and nothing else.       *)
ImportReplacesAll ==
  [][\A e \in Editors :
       Import(e) /\ pc'[e] = "finish" /\ request[e].explicit =>
         Served(tables') = Served(request[e].tree)]_vars

(* Whatever a reader wrote late into the cache, and whichever invalidation *)
(* was lost, after the last edit readers come to see the tables.           *)
StructureReachesReaders == <>[](cache \in {None, Served(tables)})

=============================================================================
