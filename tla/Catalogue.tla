---- MODULE Catalogue ----
(* The list of things one can vote for: works, voteables, the candidates of    *)
(* the current year and the public answers built from them. Administrators     *)
(* edit it through the import of voteables, the candidate, resource and work   *)
(* routes and a maintenance script; readers fill and read the cached answers.  *)
(* There is no lock anywhere: only a request's transaction is atomic.          *)
EXTENDS Integers, Sequences, FiniteSets

CONSTANTS
  VIds, CIds,          \* database ids of voteables and of candidates
  Names, OldIds, Works, Images,
  None,                \* a column that is NULL, a key a row does not give
  Importers, Editors, Readers,
  Watched,             \* the candidate whose own page the readers open
  Batches,             \* the uploads the importers send: sequences of rows
  Seeds,               \* the voteables of earlier years the behaviours start from
  MaxCommits           \* bound: commits the administrators make in one behaviour

Row == [vid : VIds \cup {None}, name : Names \cup {None},
        old : OldIds \cup {None}, work : Works \cup {None}]

Voteables == [name : Names \cup {None}, old : OldIds \cup {None},
              work : Works \cup {None}, image : Images \cup {None}]

OldIdsDiffer(rows) ==
  \A v, w \in VIds : v # w /\ rows[v] # None /\ rows[w] # None /\ rows[v].old # None
                       => rows[v].old # rows[w].old

ASSUME CatalogueAssumption ==
  /\ None \notin VIds /\ None \notin Names /\ None \notin OldIds
  /\ None \notin Works /\ None \notin Images /\ None \notin Voteables
  /\ MaxCommits \in Nat
  /\ Batches \subseteq Seq(Row)
  /\ Seeds \subseteq {s \in [VIds -> Voteables \cup {None}] : OldIdsDiffer(s)}
  /\ \A s \in Seeds : \A v \in VIds : s[v] # None => s[v].name # None   \* NOT NULL

VARIABLES
  voteables,    \* voteable_character / voteable_music: id -> row or None
  candidates,   \* candidate_* of the year: id -> voteable id or None (absent)
  usedCids,     \* ids the candidate sequence already gave out
  works,        \* names in the work table
  acked,        \* work names whose creation was answered with a workId
  page,         \* what Redis caches under each key, None when nothing
  job,          \* what each administrator is doing
  held,         \* the page a reader loaded and has not yet stored
  blemish,      \* history: the keys whose entry escaped an invalidation
  commits       \* history: commits so far

vars == <<voteables, candidates, usedCids, works, acked, page, job, held, blemish, commits>>

Existing   == {v \in VIds : voteables[v] # None}
Listed     == {c \in CIds : candidates[c] # None}
Idle       == [at |-> "idle"]
Clearing   == [at |-> "clear"]

\* The answers are joins of candidates, voteables and works: the listing of
\* GET /vote-objects/{category}, the entry of GET /vote-objects/{category}/{id}
\* and the suggestions of POST /autocomplete/search.
Listing     == [c \in Listed |-> LET v == voteables[candidates[c]]
                                 IN  [name |-> v.name, work |-> v.work, image |-> v.image]]
Detail      == [c \in Listed \cap {Watched} |-> Listing[c]]
Suggestions == {[name |-> Listing[c].name, origin |-> Listing[c].work] : c \in Listed}

Keys == {"listing", "detail", "autocomplete"}

Answer(k) == CASE k = "listing" -> Listing [] k = "detail" -> Detail [] OTHER -> Suggestions

Scopes == {Keys, {"listing", "detail"}, {"autocomplete"}}

----
(* The import: an index, a plan over it, one transaction.                      *)

\* A dict built by a comprehension over rows in no particular order: when two
\* rows share a key either may be the one that stays.
Indexes(rows, field) ==
  LET ids  == {v \in VIds : rows[v] # None}
      keys == {rows[v][field] : v \in ids} \ {None}
  IN  {f \in [keys -> ids] : \A k \in keys : rows[f[k]][field] = k}

\* Priority voteable_id, old_id, name; None when the row is new.
Match(row, ix) ==
  IF row.vid # None THEN row.vid
  ELSE IF row.old \in DOMAIN ix.byOld THEN ix.byOld[row.old]
  ELSE IF row.name \in DOMAIN ix.byName THEN ix.byName[row.name]
  ELSE None

\* As if a row that names an id were believed on its old id too.
ContradictsOnlyByName(row, ix) ==
  \/ row.vid # None /\ ix.seen[row.vid] = None
  \/ /\ row.vid = None /\ row.old # None /\ row.old \notin DOMAIN ix.byOld
     /\ row.name \in DOMAIN ix.byName
     /\ ix.seen[ix.byName[row.name]].old \notin {None, row.old}

\* VOTEABLE_ID_NOT_FOUND, OLD_ID_VOTEABLE_ID_MISMATCH, OLD_ID_MISMATCH
Contradicts(row, ix) ==
  \/ /\ row.vid # None
     /\ \/ ix.seen[row.vid] = None
        \/ row.old \in DOMAIN ix.byOld /\ ix.byOld[row.old] # row.vid
  \/ /\ row.vid = None /\ row.old # None /\ row.old \notin DOMAIN ix.byOld
     /\ row.name \in DOMAIN ix.byName
     /\ ix.seen[ix.byName[row.name]].old \notin {None, row.old}

\* One such row, or a name or an old id given twice, refuses the whole upload.
Conflicts(batch, ix) ==
  \/ \E i \in DOMAIN batch : Contradicts(batch[i], ix)
  \/ \E i, j \in DOMAIN batch : /\ i < j
                                /\ \E f \in {"name", "old"} :
                                     batch[i][f] # None /\ batch[i][f] = batch[j][f]

\* The ORM writes an attribute when a row changes the value its session holds,
\* so values equal to the one read leave what is in the table now.
Written(field, v, batch, target, ix) ==
  LET givers == {i \in DOMAIN batch : target[i] = v /\ batch[i][field] # None}
      loaded == IF ix.seen[v] = None THEN None ELSE ix.seen[v][field]
      stored == IF voteables[v] = None THEN None ELSE voteables[v][field]
  IN  IF \A i \in givers : batch[i][field] = loaded THEN stored
      ELSE batch[CHOOSE i \in givers : \A j \in givers : j <= i][field]

Merged(batch, target, ix) ==
  [v \in VIds |->
     IF v \notin {target[i] : i \in DOMAIN batch} THEN voteables[v]
     ELSE [name  |-> Written("name", v, batch, target, ix),
           old   |-> Written("old", v, batch, target, ix),
           work  |-> Written("work", v, batch, target, ix),
           image |-> IF voteables[v] = None THEN None ELSE voteables[v].image]]

\* Voteables the year does not list yet become candidates, the others stay.
Enlist(vs) ==
  LET new == vs \ {candidates[c] : c \in Listed}
  IN  \E cid \in [new -> CIds \ usedCids] :
        /\ \A v, w \in new : cid[v] = cid[w] => v = w
        /\ LET got == {cid[v] : v \in new}
           IN  /\ candidates' = [c \in CIds |-> IF c \in got THEN CHOOSE v \in new : cid[v] = c
                                                ELSE candidates[c]]
               /\ usedCids' = usedCids \cup got

----
Init ==
  /\ voteables \in Seeds
  /\ candidates = [c \in CIds |-> None] /\ usedCids = {}
  /\ works = {voteables[v].work : v \in Existing} \ {None} /\ acked = {}
  /\ page = [k \in Keys |-> None] /\ held = [r \in Readers |-> None]
  /\ job = [p \in Importers \cup Editors |-> Idle]
  /\ blemish = {} /\ commits = 0

\* Both indexes are read at the start of the request.
ImportRead(p) ==
  /\ job[p] = Idle /\ commits < MaxCommits
  /\ \E b \in Batches, n \in Indexes(voteables, "name"), o \in Indexes(voteables, "old") :
       job' = [job EXCEPT ![p] = [at |-> "plan", batch |-> b,
                                  ix |-> [seen |-> voteables, byName |-> n,
                                          byOld |-> o, works |-> works]]]
  /\ UNCHANGED <<voteables, candidates, usedCids, works, acked, page, held, blemish, commits>>

\* A dry run, a batch with conflicts or a transaction the database refuses
\* answers without a change and leaves the cache alone.
ImportEndsEarly(p) ==
  /\ job[p].at = "plan"
  /\ job' = [job EXCEPT ![p] = Idle]
  /\ UNCHANGED <<voteables, candidates, usedCids, works, acked, page, held, blemish, commits>>

\* New works, the rows and the year's candidates in one commit.
ImportCommit(p) ==
  /\ job[p].at = "plan" /\ commits < MaxCommits
  /\ LET b    == job[p].batch
         ix   == job[p].ix
         news == {b[i].work : i \in DOMAIN b} \ (ix.works \cup {None})
         made == {i \in DOMAIN b : Match(b[i], ix) = None}
     IN  /\ ~Conflicts(b, ix)
         /\ news \cap works = {}                  \* uq_work_name
         /\ \A i \in made : b[i].name # None      \* name is NOT NULL
         /\ \E fresh \in [made -> VIds \ Existing] :
              /\ \A i, j \in made : fresh[i] = fresh[j] => i = j
              /\ LET target == [i \in DOMAIN b |->
                                  IF i \in made THEN fresh[i] ELSE Match(b[i], ix)]
                 IN  /\ voteables' = Merged(b, target, ix)
                     /\ \/ Enlist({target[i] : i \in DOMAIN b})
                        \/ UNCHANGED <<candidates, usedCids>>     \* no vote_year given
         /\ works' = works \cup news
  /\ job' = [job EXCEPT ![p] = Clearing] /\ commits' = commits + 1
  /\ UNCHANGED <<acked, page, held, blemish>>

----
(* The edit routes: check and commit, then clear the cache.                    *)

Committed(e) ==
  /\ job[e] = Idle /\ commits < MaxCommits
  /\ job' = [job EXCEPT ![e] = Clearing] /\ commits' = commits + 1
  /\ UNCHANGED <<works, acked, page, held, blemish>>

\* An upload of candidates keeps the rows that name a voteable.
NamedVoteables == SUBSET Existing \ {{}}

\* POST /admin/candidates/import: rows naming a voteable become candidates;
\* those already listed stay, an id without a voteable fails the whole upload.
UpsertCandidates(e) ==
  /\ \E vs \in NamedVoteables : Enlist(vs)
  /\ UNCHANGED voteables
  /\ Committed(e)

\* PUT /admin/candidates/{id}: the row may be pointed at another voteable
\* unless the year already lists that one.
UpdateCandidate(e) ==
  /\ \E c \in Listed, v \in Existing :
       /\ v \notin {candidates[d] : d \in Listed \ {c}}
       /\ candidates' = [candidates EXCEPT ![c] = v]
  /\ UNCHANGED <<voteables, usedCids>>
  /\ Committed(e)

\* As if the delete route left the cache alone.
DeleteCandidateOnly(e) ==
  /\ job[e] = Idle /\ commits < MaxCommits
  /\ \E c \in Listed : candidates' = [candidates EXCEPT ![c] = None]
  /\ commits' = commits + 1
  /\ UNCHANGED <<voteables, usedCids, works, acked, page, job, held, blemish>>

\* DELETE /admin/candidates/{id}: nothing asks whether a ballot names it.
DeleteCandidate(e) ==
  /\ \E c \in Listed : candidates' = [candidates EXCEPT ![c] = None]
  /\ UNCHANGED <<voteables, usedCids>>
  /\ Committed(e)

\* POST /admin/voteables/{id}: another work, or none.
UpdateVoteableWork(e) ==
  /\ \E v \in Existing, w \in works \cup {None} :
       voteables' = [voteables EXCEPT ![v].work = w]
  /\ UNCHANGED <<candidates, usedCids>>
  /\ Committed(e)

\* PUT /admin/voteables/{id}/resources: an empty text clears the column.
UpdateVoteableResources(e) ==
  /\ \E v \in Existing, u \in Images \cup {None} :
       voteables' = [voteables EXCEPT ![v].image = u]
  /\ UNCHANGED <<candidates, usedCids>>
  /\ Committed(e)

\* Merge and unmerge answer ok: the column they set no longer exists.
MergeCandidate(e) ==
  /\ Listed # {}
  /\ UNCHANGED <<voteables, candidates, usedCids>>
  /\ Committed(e)

\* The work routes check and flush, clear the caches and answer. The request's
\* session is closed without a commit: the database rolls the change back.
WorkRoute(e) ==
  /\ job[e] = Idle /\ commits < MaxCommits
  /\ job' = [job EXCEPT ![e] = Clearing] /\ commits' = commits + 1
  /\ UNCHANGED <<voteables, candidates, usedCids, works, page, held, blemish>>

\* POST /admin/works answers with the id of the row it has flushed.
CreateWork(e) ==
  /\ WorkRoute(e)
  /\ \E w \in Works \ works : acked' = acked \cup {w}

\* POST and DELETE /admin/works/{id}; a work in use is refused.
ChangeWork(e) ==
  /\ WorkRoute(e)
  /\ works # {}
  /\ UNCHANGED acked

\* Two prefixes are scanned and deleted key by key. A Redis error is swallowed,
\* and a crash after the commit is the same: the keys in lost keep their entry.
Clear(p) ==
  /\ job[p] = Clearing
  /\ \E lost \in SUBSET Keys :
       /\ page' = [k \in Keys |-> IF k \in lost THEN page[k] ELSE None]
       /\ blemish' = lost
  /\ job' = [job EXCEPT ![p] = Idle]
  /\ UNCHANGED <<voteables, candidates, usedCids, works, acked, held, commits>>

\* scripts/import_voteable_resources.py --apply fills columns that are empty
\* and knows nothing of the cache.
ImportResources ==
  /\ commits < MaxCommits
  /\ \E name \in Names, u \in Images, f \in Indexes(voteables, "name") :
       /\ name \in DOMAIN f /\ voteables[f[name]].image = None
       /\ voteables' = [voteables EXCEPT ![f[name]].image = u]
  /\ blemish' = Keys /\ commits' = commits + 1
  /\ UNCHANGED <<candidates, usedCids, works, acked, page, job, held>>

----
(* Readers of the public answers and their cache.                              *)

LoadPage(r) ==
  /\ held[r] = None
  /\ \E k \in Keys : /\ page[k] = None
                     /\ k = "detail" => Watched \in Listed      \* else 404
                     /\ held' = [held EXCEPT ![r] = [key |-> k, body |-> Answer(k)]]
  /\ UNCHANGED <<voteables, candidates, usedCids, works, acked, page, job, blemish, commits>>

\* The payload is stored whatever was committed since it was read.
StorePage(r) ==
  /\ held[r] # None
  /\ LET k == held[r].key
     IN  /\ page' = [page EXCEPT ![k] = held[r].body]
         /\ blemish' = IF held[r].body = Answer(k) THEN blemish \ {k} ELSE blemish \cup {k}
  /\ held' = [held EXCEPT ![r] = None]
  /\ UNCHANGED <<voteables, candidates, usedCids, works, acked, job, commits>>

\* The set fails, or the reader is gone.
LosePage(r) ==
  /\ held[r] # None
  /\ held' = [held EXCEPT ![r] = None]
  /\ UNCHANGED <<voteables, candidates, usedCids, works, acked, page, job, blemish, commits>>

\* As if the key had no lifetime.
PageStays(k) == FALSE

\* The 600 seconds of a listing, the 60 of a suggestion.
PageExpires(k) ==
  /\ page[k] # None
  /\ page' = [page EXCEPT ![k] = None] /\ blemish' = blemish \ {k}
  /\ UNCHANGED <<voteables, candidates, usedCids, works, acked, job, held, commits>>

\* POST /admin/cache/flush, all scopes or the one named.
FlushCache ==
  /\ \E scope \in Scopes :
       /\ \E k \in scope : page[k] # None
       /\ page' = [k \in Keys |-> IF k \in scope THEN None ELSE page[k]]
       /\ blemish' = blemish \ scope
  /\ UNCHANGED <<voteables, candidates, usedCids, works, acked, job, held, commits>>

----
Import(p) == ImportRead(p) \/ ImportEndsEarly(p) \/ ImportCommit(p)

Edit(e) == \/ UpsertCandidates(e) \/ UpdateCandidate(e) \/ DeleteCandidate(e)
           \/ UpdateVoteableWork(e) \/ UpdateVoteableResources(e) \/ MergeCandidate(e)
           \/ CreateWork(e) \/ ChangeWork(e)

Read(r) == LoadPage(r) \/ StorePage(r) \/ LosePage(r)

Next ==
  \/ \E p \in Importers : Import(p)
  \/ \E e \in Editors : Edit(e)
  \/ \E p \in Importers \cup Editors : Clear(p)
  \/ ImportResources
  \/ \E r \in Readers : Read(r)
  \/ \E k \in Keys : PageExpires(k)
  \/ FlushCache

Spec == Init /\ [][Next]_vars

\* No two uploads at a time: what the administrators must see to themselves.
OneImporter == \A p, q \in Importers : p = q

\* A request that committed reaches its clear or dies; a loaded page is stored
\* or dropped; a key with a lifetime expires.
FairSpec ==
  /\ Spec
  /\ \A p \in Importers \cup Editors : WF_vars(Clear(p))
  /\ \A r \in Readers : WF_vars(StorePage(r) \/ LosePage(r))
  /\ \A k \in Keys : WF_vars(PageExpires(k))

----
TypeOK ==
  /\ voteables \in [VIds -> Voteables \cup {None}]
  /\ \A v \in Existing : voteables[v].name # None
  /\ candidates \in [CIds -> VIds \cup {None}] /\ usedCids \subseteq CIds
  /\ works \subseteq Works /\ acked \subseteq Works
  /\ blemish \subseteq Keys /\ commits \in 0..MaxCommits
  /\ \A p \in Importers \cup Editors : job[p].at \in {"idle", "plan", "clear"}

\* load_whitelist_db refuses to count when two candidates of a year answer to
\* one token. As long as uploads run one at a time, no upload, however it mixes
\* ids, old ids and names, gives one old id to two voteables.
WhitelistBuildable == OldIdsDiffer(voteables)

\* A cached answer shows the committed catalogue, except between a commit and
\* its clear, after a clear that was lost, after the resource script, or when
\* it was loaded before a commit and stored after it.
CacheFollowsCommits ==
  \A k \in Keys \ blemish :
    page[k] \in {None, Answer(k)} \/ \E p \in Importers \cup Editors : job[p] = Clearing

\* When the administrators stop, the public answers show what they left,
\* whatever was lost or stored late on the way.
PagesCatchUp == <>[](\A k \in Keys : page[k] \in {None, Answer(k)})

\* The route table says POST /admin/works answers { workId }: a work that was
\* answered with its id is in the table.
AcknowledgedWorksExist == acked \subseteq works
====
