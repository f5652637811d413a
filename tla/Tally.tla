------------------------------- MODULE Tally -------------------------------
(***************************************************************************)
(* The results of one category, characters (music is the same) or couples: *)
(* ComputeService.compute_all with the readers of ComputeDAO and the pure  *)
(* functions of compute.py and trend.py.                                   *)
(*                                                                         *)
(* A computation takes a Redis lock and loads, by a statement each, the    *)
(* latest ballot and the latest paper of every voter, the voters whose     *)
(* paper is complete and the histories of ballots and papers, and replaces *)
(* all sections of the published snapshot in one MULTI/EXEC.  Meanwhile voters *)
(* submit, edit and answer, and administrators void and restore rows.      *)
(*                                                                         *)
(* The five minutes of the lock are not counted: the key may expire once   *)
(* its computation has died; MayOverrun says whether it may also expire    *)
(* under one that still works.                                             *)
(***************************************************************************)
EXTENDS Integers, Sequences, FiniteSetsExt, SequencesExt, Functions

CONSTANTS
  Voters,       \* vote_id values
  Tokens,       \* ids on ballots: a candidate's id, its old id, unknown ids
  Candidates,   \* the whitelist: numbers (in the order of the ids as text)
  Unlisted,     \* what canonical() returns for an unknown token
  Canonical,    \* Canonical[t]: the candidate that token t names
  SystemId,     \* SystemId[k]: position in the candidate list
  Categories,   \* "character" or "cp"
  Ballots,      \* Ballots[g]: the ballots of category g: sequences of items
  Legacy,       \* Legacy[g]: rows of the old database: a voter has none or one
  Papers,       \* batches of answers: [items, complete]
  Gender,       \* the question whose answer makes the segment
  Label,        \* Label[o]: the segment of option o of that question
  Times,        \* created_at in hours since vote_start, whoever stamped it
  TotalHours,   \* number of hourly buckets
  Computations, \* calls of compute_all
  NoOne,        \* the lock key does not exist
  Nothing,      \* a computation has not loaded its ballots or its history
  MaxCommits,   \* bound on the commits of voters and administrators
  MayOverrun    \* may the lock expire under a computation that still works?

(* A character has one member, a couple two or three. *)
Item == [members : Seq(Tokens), first : BOOLEAN]

(* attempt = 0 stands for NULL. *)
Row == [items : UNION Range(Ballots), created : Times, invalidated : BOOLEAN, attempt : Nat]

Sheets == {p.items : p \in Papers}

ASSUME TallyAssumption ==
  /\ IsFiniteSet(Voters)
  /\ Candidates \subseteq Nat /\ Unlisted \notin Candidates
  /\ Canonical \in [Tokens -> Candidates \cup {Unlisted}]
  /\ SystemId \in [Candidates -> Nat]
  /\ Categories \subseteq {"character", "cp"}
  /\ Ballots \in [Categories -> SUBSET Seq(Item)]
  /\ Times \subseteq Int
  /\ Legacy \in [Categories -> SUBSET Row]
  /\ \A g \in Categories : \A x \in Legacy[g] : x.attempt = 0
  /\ IsFiniteSet(DOMAIN Label) /\ "unknown" \notin Range(Label)
  /\ TotalHours \in Nat \ {0}
  /\ NoOne \notin Computations
  /\ \A S \in SUBSET Voters :
       Nothing # S /\ Nothing \notin [S -> Seq(Item) \cup Seq(Row) \cup Sheets \cup Seq(Sheets)]
  /\ MaxCommits \in Nat
  /\ MayOverrun \in BOOLEAN

VARIABLES
  category,  \* of the table that is followed
  rows,      \* rows[v]: v's submissions, in commit order
  papers,    \* papers[v]: v's batches of answers, in commit order
  commits,   \* number of commits to both tables so far
  lock,      \* the computation that set compute_lock
  pc,        \* pc[c]: where computation c stands
  votes,     \* votes[c]: the ballots c has loaded
  answers,   \* answers[c]: the papers c has loaded
  complete,  \* complete[c]: the voters whose paper c takes for complete
  history,   \* history[c]: the ballots of all times c has loaded
  batches,   \* batches[c]: the papers of all times c has loaded
  seen,      \* (history) seen[c]: the commits there were when c loaded its ballots
  snapshot   \* the published sections, and the commits they have seen

vars == <<category, rows, papers, commits, lock, pc, votes, answers, complete, history,
          batches, seen, snapshot>>
table == <<category, rows, papers, commits>>
loaded == <<votes, answers, complete, history, batches>>

Loading == {"votes", "papers", "completion", "history", "batches", "publish"}
Working == Loading \cup {"release"}
Ended == {"refused", "done", "crashed"}

-----------------------------------------------------------------------------
(* ComputeDAO *)

(* Oldest first, by created_at and then by attempt. *)
Before(x, y) ==
  \/ x.created < y.created
  \/ x.created = y.created /\ x.attempt < y.attempt

Ordered(s) ==
  LET p == CHOOSE p \in Bijection(DOMAIN s, DOMAIN s) :
             \A i, j \in DOMAIN s : i < j => ~ Before(s[p[j]], s[p[i]])
  IN  [i \in DOMAIN s |-> s[p[i]]]

Standing(tbl) ==
  {v \in DOMAIN tbl : tbl[v] # <<>> /\ ~ Last(Ordered(tbl[v])).invalidated}

(* _latest_per_vote: a void newest row drops the voter, it does not fall back. *)
LatestPerVote(tbl) == [v \in Standing(tbl) |-> Last(Ordered(tbl[v])).items]

(* Mutant of HistoryPerVote: void rows are left out one by one. *)
HistoryOfValidRows(tbl) ==
  LET valid == [v \in DOMAIN tbl |-> SelectSeq(tbl[v], LAMBDA x : ~ x.invalidated)]
  IN  [v \in Standing(valid) |-> Ordered(valid[v])]

(* _history_per_vote: the same voters, all their rows, void ones included. *)
HistoryPerVote(tbl) == [v \in Standing(tbl) |-> Ordered(tbl[v])]

-----------------------------------------------------------------------------
(* compute_ranking, compute_cp_ranking and net_delta_trends *)

(* What an item votes for: a couple is a multiset, and one unknown member   *)
(* drops it.                                                                *)
Key(item) ==
  LET ids == [i \in DOMAIN item.members |-> Canonical[item.members[i]]]
  IN  IF Unlisted \in Range(ids) THEN <<>> ELSE SortSeq(ids, <)

(* Two items of one ballot, compared as they are written. *)
SameMembers(x, y) ==
  \A t \in Tokens : Cardinality({i \in DOMAIN x.members : x.members[i] = t})
                    = Cardinality({i \in DOMAIN y.members : y.members[i] = t})

(* Mutant of Accepted: any number of favourites. *)
AcceptedWithFavourites(b) == Len(b) \in 1..(IF category = "cp" THEN 4 ELSE 8)

(* SubmitValidator: how many items (of music up to 12), one favourite, none  *)
(* twice, no trio with a repeated member.  That two tokens mean one is not   *)
(* seen here, and a candidate known to _require_candidates may be deleted    *)
(* before the count.                                                         *)
Accepted(b) ==
  /\ Len(b) \in 1..(IF category = "cp" THEN 4 ELSE 8)
  /\ \A i, j \in DOMAIN b : b[i].first /\ b[j].first => i = j
  /\ \A i, j \in DOMAIN b : SameMembers(b[i], b[j]) => i = j
  /\ \A i \in DOMAIN b : Len(b[i].members) = 3 => IsInjective(b[i].members)

Keys(items) == {Key(items[i]) : i \in DOMAIN items} \ {<<>>}

(* The count takes the first item of a key and skips the others. *)
FirstKeys(items) ==
  {k \in Keys(items) : \E i \in DOMAIN items :
     /\ Key(items[i]) = k /\ items[i].first
     /\ \A j \in 1..(i - 1) : Key(items[j]) # k}

VoteCount(vs, k) == Cardinality({v \in DOMAIN vs : k \in Keys(vs[v])})
FirstCount(vs, k) == Cardinality({v \in DOMAIN vs : k \in FirstKeys(vs[v])})

(* A couple that one voter has named is not ranked. *)
MinVotes == IF category = "cp" THEN 2 ELSE 1

(* Before the start counts for the first hour, after the end for the last. *)
Bucket(t) == Max({0, Min({t, TotalHours - 1})})

(* +1 where a candidate appears on a voter's ballot, -1 where it disappears. *)
Delta(s, i, k) ==
  (IF k \in Keys(s[i].items) THEN 1 ELSE 0)
    - (IF i > 1 /\ k \in Keys(s[i - 1].items) THEN 1 ELSE 0)

Trend(h, k) == [hour \in 0..(TotalHours - 1) |->
  MapThenSumSet(LAMBDA v :
    MapThenSumSet(LAMBDA i : IF Bucket(h[v][i].created) = hour
                               THEN Delta(h[v], i, k) ELSE 0,
                  DOMAIN h[v]),
    DOMAIN h)]

(* More votes first, then more firsts, then the list; further ties in any order. *)
Precedes(vs, j, k) ==
  \/ VoteCount(vs, j) > VoteCount(vs, k)
  \/ /\ VoteCount(vs, j) = VoteCount(vs, k)
     /\ \/ FirstCount(vs, j) > FirstCount(vs, k)
        \/ /\ FirstCount(vs, j) = FirstCount(vs, k)
           /\ SystemId[j[1]] < SystemId[k[1]]

Orders(vs) ==
  {s \in SetToSeqs({k \in UNION {Keys(vs[v]) : v \in DOMAIN vs} : VoteCount(vs, k) >= MinVotes}) :
     \A i \in 1..(Len(s) - 1) : ~ Precedes(vs, s[i + 1], s[i])}

(* Mutant of DisplayRank: dense ranks. *)
DenseRank(vs, s) ==
  LET rank[i \in DOMAIN s] ==
        IF i = 1 THEN 1
        ELSE IF VoteCount(vs, s[i]) # VoteCount(vs, s[i - 1]) THEN rank[i - 1] + 1
        ELSE rank[i - 1]
  IN  rank

(* display_rank: equal votes share a rank, the next one skips ahead. *)
DisplayRank(vs, s) ==
  LET rank[i \in DOMAIN s] ==
        IF i > 1 /\ VoteCount(vs, s[i]) = VoteCount(vs, s[i - 1])
          THEN rank[i - 1] ELSE i
  IN  rank

-----------------------------------------------------------------------------
(* The papers, and the sections that mix papers and ballots. *)

Segments == Range(Label) \cup {"unknown"}

(* build_segment_map: the first answer to the gender question. *)
SegmentOf(items) ==
  LET hits == {i \in DOMAIN items : items[i].question = Gender}
  IN  IF hits = {} \/ items[Min(hits)].option \notin DOMAIN Label THEN "unknown"
      ELSE Label[items[Min(hits)].option]

(* Mutant of Segment: a voter without a paper has no segment. *)
SegmentIfAny(as, v) == IF v \in DOMAIN as THEN SegmentOf(as[v]) ELSE "nobody"

Segment(as, v) == IF v \in DOMAIN as THEN SegmentOf(as[v]) ELSE "unknown"

(* _segment_breakdown: of the voters of k, and of all voters of the category. *)
Breakdown(vs, as, k) ==
  [g \in Segments |->
     [votes |-> Cardinality({v \in DOMAIN vs : k \in Keys(vs[v]) /\ Segment(as, v) = g}),
      total |-> Cardinality({v \in DOMAIN vs : Segment(as, v) = g})]]

(* compute_ranking: its result for one order of the ties. *)
Ranking(vs, as, h, s) ==
  [i \in DOMAIN s |-> [id |-> s[i], display |-> DisplayRank(vs, s)[i],
                       votes |-> VoteCount(vs, s[i]), firsts |-> FirstCount(vs, s[i]),
                       segments |-> Breakdown(vs, as, s[i]), trend |-> Trend(h, s[i])]]

Rankings(vs, as, h) == {Ranking(vs, as, h, s) : s \in Orders(vs)}

(* compute_covote, of every two candidates with a vote. *)
Covotes(vs) ==
  LET Of(k) == {v \in DOMAIN vs : k \in Keys(vs[v])}
      named == UNION {Keys(vs[v]) : v \in DOMAIN vs}
  IN  [pair \in {p \in named \X named : p[1] # p[2]} |->
         [m11 |-> Cardinality(Of(pair[1]) \cap Of(pair[2])),
          m10 |-> Cardinality(Of(pair[1]) \ Of(pair[2])),
          m01 |-> Cardinality(Of(pair[2]) \ Of(pair[1]))]]

Answered(items) == {items[i].question : i \in DOMAIN items}

(* Who answered a question, and who no longer does: a batch against the one  *)
(* before it, the hours left out.                                            *)
PaperTrend(h, q) ==
  MapThenSumSet(LAMBDA v :
    MapThenSumSet(LAMBDA i : (IF q \in Answered(h[v][i]) THEN 1 ELSE 0)
                               - (IF i > 1 /\ q \in Answered(h[v][i - 1]) THEN 1 ELSE 0),
                  DOMAIN h[v]),
    DOMAIN h)

Answers(as, q) == {v \in DOMAIN as : q \in Answered(as[v])}

(* compute_paper_results: the answers to a question, by segment. *)
PaperResults(as, h) ==
  [q \in UNION {Answered(as[v]) : v \in DOMAIN as} |->
     [segments |-> [g \in Segments |-> Cardinality({v \in Answers(as, q) : SegmentOf(as[v]) = g})],
      trend |-> PaperTrend(h, q)]]

(* Everybody with a ballot of the category or a paper. *)
Everybody(vs, as) == DOMAIN vs \cup DOMAIN as

(* compute_global_stats *)
GlobalStats(vs, as) ==
  [num_vote |-> Cardinality(Everybody(vs, as)),
   num_paper |-> Cardinality(DOMAIN as),
   segments |-> [g \in Segments |->
     Cardinality({v \in Everybody(vs, as) : Segment(as, v) = g})]]

(* Mutant of CompletionRate: whoever has completed counts. *)
CompletionOfAll(vs, as, done) ==
  [num |-> Cardinality(done), total |-> Cardinality(Everybody(vs, as))]

(* compute_completion_rates *)
CompletionRate(vs, as, done) ==
  [num |-> Cardinality(done \cap Everybody(vs, as)), total |-> Cardinality(Everybody(vs, as))]

(* Before the first computation there are no sections. *)
Unpublished ==
  [seen |-> 0, ranking |-> <<>>, covotes |-> <<>>, papers |-> <<>>,
   global |-> GlobalStats(<<>>, <<>>), rate |-> CompletionRate(<<>>, <<>>, {})]

-----------------------------------------------------------------------------
Init ==
  /\ category \in Categories
  /\ rows \in [Voters -> {<<>>} \cup {<<x>> : x \in Legacy[category]}]
  /\ papers = [v \in Voters |-> <<>>]
  /\ commits = 0
  /\ lock = NoOne
  /\ pc = [c \in Computations |-> "idle"]
  /\ votes = [c \in Computations |-> Nothing]
  /\ answers = [c \in Computations |-> Nothing]
  /\ complete = [c \in Computations |-> Nothing]
  /\ history = [c \in Computations |-> Nothing]
  /\ batches = [c \in Computations |-> Nothing]
  /\ seen = [c \in Computations |-> 0]
  /\ snapshot = Unpublished

Goto(c, where) == pc' = [pc EXCEPT ![c] = where]

(* SET NX, with the same value for everyone. *)
Acquire(c) ==
  /\ pc[c] = "idle" /\ lock = NoOne
  /\ lock' = c
  /\ Goto(c, "votes")
  /\ UNCHANGED <<table, loaded, seen, snapshot>>

(* ComputeInProgressError *)
Refuse(c) ==
  /\ pc[c] = "idle" /\ lock # NoOne
  /\ Goto(c, "refused")
  /\ UNCHANGED <<table, lock, loaded, seen, snapshot>>

(* Mutant of LoadVotes: the published keys are deleted before the new ones are computed. *)
LoadVotesAfresh(c) ==
  /\ pc[c] = "votes"
  /\ votes' = [votes EXCEPT ![c] = LatestPerVote(rows)]
  /\ seen' = [seen EXCEPT ![c] = commits]
  /\ snapshot' = Unpublished
  /\ Goto(c, "papers")
  /\ UNCHANGED <<table, lock, answers, complete, history, batches>>

(* The loads, one after the other.  READ COMMITTED: a statement sees what   *)
(* was committed before it began.                                           *)
LoadVotes(c) ==
  /\ pc[c] = "votes"
  /\ votes' = [votes EXCEPT ![c] = LatestPerVote(rows)]
  /\ seen' = [seen EXCEPT ![c] = commits]
  /\ Goto(c, "papers")
  /\ UNCHANGED <<table, lock, answers, complete, history, batches, snapshot>>

(* load_questionnaire_votes: the last batch of whoever has one, unless none  *)
(* of its questions is known; no batch is void.                              *)
LatestPapers == [v \in {v \in Voters : papers[v] # <<>> /\ Last(papers[v]).items # <<>>} |->
                   Last(papers[v]).items]

LoadPapers(c) ==
  /\ pc[c] = "papers"
  /\ answers' = [answers EXCEPT ![c] = LatestPapers]
  /\ Goto(c, "completion")
  /\ UNCHANGED <<table, lock, votes, complete, history, batches, seen, snapshot>>

(* load_questionnaire_completion *)
LoadCompletion(c) ==
  /\ pc[c] = "completion"
  /\ complete' = [complete EXCEPT ![c] =
       {v \in Voters : papers[v] # <<>> /\ Last(papers[v]).complete}]
  /\ Goto(c, "history")
  /\ UNCHANGED <<table, lock, votes, answers, history, batches, seen, snapshot>>

LoadHistory(c) ==
  /\ pc[c] = "history"
  /\ history' = [history EXCEPT ![c] = HistoryPerVote(rows)]
  /\ Goto(c, "batches")
  /\ UNCHANGED <<table, lock, votes, answers, complete, batches, seen, snapshot>>

(* load_questionnaire_history: all batches, those with nothing known too. *)
PaperHistory == [v \in Voters |-> [i \in DOMAIN papers[v] |-> papers[v][i].items]]

LoadBatches(c) ==
  /\ pc[c] = "batches"
  /\ batches' = [batches EXCEPT ![c] = PaperHistory]
  /\ Goto(c, "publish")
  /\ UNCHANGED <<table, lock, votes, answers, complete, history, seen, snapshot>>

Forget(c) ==
  /\ votes' = [votes EXCEPT ![c] = Nothing]
  /\ answers' = [answers EXCEPT ![c] = Nothing]
  /\ complete' = [complete EXCEPT ![c] = Nothing]
  /\ history' = [history EXCEPT ![c] = Nothing]
  /\ batches' = [batches EXCEPT ![c] = Nothing]

(* The pipeline: all keys of the snapshot at once. *)
Publish(c) ==
  /\ pc[c] = "publish"
  /\ Goto(c, "release") /\ Forget(c)
  /\ UNCHANGED <<table, lock, seen>>
  /\ \E r \in Rankings(votes[c], answers[c], history[c]) :
       snapshot' = [seen |-> seen[c], ranking |-> r,
                    covotes |-> IF category = "cp" THEN <<>> ELSE Covotes(votes[c]),
                    papers |-> PaperResults(answers[c], batches[c]),
                    global |-> GlobalStats(votes[c], answers[c]),
                    rate |-> CompletionRate(votes[c], answers[c], complete[c])]

(* An exception (no candidates, a lost connection): the finally clause follows. *)
Fail(c) ==
  /\ pc[c] \in Loading
  /\ Goto(c, "release") /\ Forget(c)
  /\ UNCHANGED <<table, lock, seen, snapshot>>

(* DEL, whoever's lock it is. *)
Release(c) ==
  /\ pc[c] = "release"
  /\ lock' = NoOne
  /\ Goto(c, "done")
  /\ UNCHANGED <<table, loaded, seen, snapshot>>

Crash(c) ==
  /\ pc[c] \in Working
  /\ Goto(c, "crashed") /\ Forget(c)
  /\ UNCHANGED <<table, lock, seen, snapshot>>

Expire ==
  /\ lock # NoOne
  /\ MayOverrun \/ pc[lock] \notin Working
  /\ lock' = NoOne
  /\ UNCHANGED <<table, pc, loaded, seen, snapshot>>

Step(c) ==
  LoadVotes(c) \/ LoadPapers(c) \/ LoadCompletion(c) \/ LoadHistory(c) \/ LoadBatches(c)
  \/ Publish(c) \/ Release(c)

Commit == commits < MaxCommits /\ commits' = commits + 1
Elsewhere == UNCHANGED <<category, lock, pc, loaded, seen, snapshot>>

(* A submit or an edit: the row that SubmitDAO._upsert appends. *)
Submit(v, b, t) ==
  /\ Commit /\ Accepted(b)
  /\ rows' = [rows EXCEPT ![v] = Append(@,
       [items |-> b, created |-> t, invalidated |-> FALSE,
        attempt |-> Max({0} \cup {@[i].attempt : i \in DOMAIN @}) + 1])]
  /\ UNCHANGED papers /\ Elsewhere

(* MonitorDAO.set_invalidated *)
SetInvalidated(v, i) ==
  /\ Commit
  /\ rows' = [rows EXCEPT ![v][i].invalidated = ~ @]
  /\ UNCHANGED papers /\ Elsewhere

(* A paper: the batch that replace_answers appends (Questionnaire). *)
Answer(v, p) ==
  /\ Commit
  /\ papers' = [papers EXCEPT ![v] = Append(@, p)]
  /\ UNCHANGED rows /\ Elsewhere

Next ==
  \/ \E c \in Computations : Acquire(c) \/ Refuse(c) \/ Step(c) \/ Fail(c) \/ Crash(c)
  \/ Expire
  \/ \E v \in Voters : \/ \E b \in Ballots[category], t \in Times : Submit(v, b, t)
                       \/ \E i \in DOMAIN rows[v] : SetInvalidated(v, i)
                       \/ \E p \in Papers : Answer(v, p)

Spec == Init /\ [][Next]_vars

-----------------------------------------------------------------------------

(* Tables, the lock, what each computation has loaded and where it stands:   *)
(* nothing is computed from what was not loaded, and no snapshot claims more *)
(* commits than there are.                                                   *)
TypeOK ==
  /\ category \in Categories
  /\ rows \in [Voters -> Seq(Row)]
  /\ papers \in [Voters -> Seq(Papers)]
  /\ commits \in 0..MaxCommits
  /\ lock \in Computations \cup {NoOne}
  /\ pc \in [Computations -> Working \cup Ended \cup {"idle"}]
  /\ \A c \in Computations :
       /\ (votes[c] = Nothing) <=> (pc[c] \notin Loading \ {"votes"})
       /\ (answers[c] = Nothing) <=> (pc[c] \notin {"completion", "history", "batches", "publish"})
       /\ (complete[c] = Nothing) <=> (pc[c] \notin {"history", "batches", "publish"})
       /\ (history[c] = Nothing) <=> (pc[c] \notin {"batches", "publish"})
       /\ (batches[c] = Nothing) <=> (pc[c] # "publish")
  /\ seen \in [Computations -> 0..commits]
  /\ snapshot.seen \in 0..commits

(* "Equal votes, equal rank; the next one skips ahead" (compute_ranking):    *)
(* whatever ballots were loaded, an entry's display rank is one more than    *)
(* the number of entries with more votes, and no entry with fewer votes, or  *)
(* as many votes and fewer firsts, stands above another.                     *)
RankingIsCompetition ==
  LET r == snapshot.ranking IN
  \A i, j \in DOMAIN r :
    /\ r[i].display = 1 + Cardinality({x \in DOMAIN r : r[x].votes > r[i].votes})
    /\ i < j => \/ r[i].votes > r[j].votes
                \/ r[i].votes = r[j].votes /\ r[i].firsts >= r[j].firsts

SumOf(f) == MapThenSumSet(LAMBDA x : f[x], DOMAIN f)

(* net_delta_trends, "the net increments of all buckets add up to the count  *)
(* in the final snapshot": for a table read once, with any edits, voids and  *)
(* times on it, and any tokens, of characters and of couples however they    *)
(* are written; and so for the answers to each question.                      *)
NetDeltaIsCount ==
  /\ \A k \in UNION {UNION {Keys(rows[v][i].items) : i \in DOMAIN rows[v]} : v \in Voters} :
       SumOf(Trend(HistoryPerVote(rows), k)) = VoteCount(LatestPerVote(rows), k)
  /\ \A q \in UNION {Answered(LatestPapers[v]) : v \in DOMAIN LatestPapers} :
       PaperTrend(PaperHistory, q) = Cardinality(Answers(LatestPapers, q))

(* A ballot that a submit accepted gives one favourite at most, also when it *)
(* names a candidate by its id and by its old id: the validators look at the *)
(* tokens (first_set), the count at the candidates (seen_in_vote).           *)
OneFavouriteEach ==
  \A v \in Standing(rows) :
    Last(Ordered(rows[v])).attempt > 0 => Cardinality(FirstKeys(LatestPerVote(rows)[v])) <= 1

(* The sections of one snapshot agree although their loads are separate      *)
(* statements: the segments of an entry add up to its votes and are no       *)
(* larger than the segments of all voters, the margins of the co-votes are   *)
(* the votes of the ranking, the men and women of the statistics are those   *)
(* who answered the gender question, and no more papers are complete than    *)
(* there are voters.                                                         *)
SectionsAgree ==
  LET r == snapshot.ranking IN
  /\ \A i \in DOMAIN r :
       /\ MapThenSumSet(LAMBDA g : r[i].segments[g].votes, Segments) = r[i].votes
       /\ \A g \in Segments : r[i].segments[g].votes <= r[i].segments[g].total
  /\ \A pair \in DOMAIN snapshot.covotes : \A i \in DOMAIN r :
       r[i].id = pair[1] => r[i].votes = snapshot.covotes[pair].m11 + snapshot.covotes[pair].m10
  /\ \A g \in Range(Label) : Gender \in DOMAIN snapshot.papers =>
       snapshot.papers[Gender].segments[g] = snapshot.global.segments[g]
  /\ snapshot.rate.num <= snapshot.rate.total

(* compute_all, "already in progress": a published snapshot never gives way  *)
(* to one that was computed from older ballots.                              *)
SnapshotNeverRegresses ==
  [][snapshot'.seen >= snapshot.seen]_vars

=============================================================================
