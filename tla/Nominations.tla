----------------------------- MODULE Nominations -----------------------------
(***************************************************************************)
(* Nominations of derivative works: the mutation submit_dojin with         *)
(* SubmitService.submit_dojin_nominations, the older REST route that only  *)
(* archives, the admin's reviews, and the public list of approved works    *)
(* behind its cache of 60 s.                                               *)
(*                                                                         *)
(* A submit takes the voter's lock of 10 s and then works through its      *)
(* items one by one; each may wait 5 s for the scraper and commits on its  *)
(* own, so that a lock that runs out under its holder is an ordinary case  *)
(* here: Expire has no condition on the holder.                            *)
(***************************************************************************)
EXTENDS Naturals, Sequences, FiniteSets, FiniteSetsExt

CONSTANTS
  Requests, VoterOf,  \* HTTP requests and the voter of each one's token
  NoRequest,          \* the lock key does not exist
  Urls,               \* what voters nominate (numbers, in the order of the text)
  Title,              \* Title[u]: the title given with u (numbers, likewise)
  WorkOf,             \* WorkOf[u]: the work whose page u is
  Udid,               \* Udid[u]: the id the scraper derives from the text of u
  Allowed,            \* urls whose host is on the allowlist
  Date,               \* Date[u]: publish date, "inside", "outside" or "unknown"
  Batches,            \* Batches[r]: what r may carry, sequences of urls
  MaxItems,           \* DOJIN_MAX_ITEMS
  None,               \* NULL, and a cache miss
  MaxReviews          \* bound: reviews in a behaviour

Voters == {VoterOf[r] : r \in Requests}
Positions == 1..MaxItems
Seasons == <<"before", "open", "after">>   \* not configured: "before"

ASSUME NominationAssumption ==
  /\ NoRequest \notin Requests
  /\ Urls \subseteq Nat /\ Allowed \subseteq Urls
  /\ Title \in [Urls -> Nat]
  /\ Date \in [Urls -> {"inside", "outside", "unknown"}]
  /\ \A r \in Requests : Batches[r] \subseteq Seq(Urls)
  /\ MaxItems \in Nat /\ MaxReviews \in Nat
  /\ \A u \in Urls : Udid[u] # None

VARIABLES
  lock,         \* lock[v]: the request whose uuid is stored at lock-submit-v
  season,       \* where the clock stands to the nomination window
  pc,           \* pc[r]: where request r stands
  batch,        \* batch[r]: its items
  pos,          \* pos[r]: the item it is at
  got,          \* got[r]: the udid scraped for that item
  answer,       \* answer[r]: its NominationSubmitResult
  archive,      \* the requests with a row in raw_dojin
  nominations,  \* the table dojin_nomination
  approved,     \* its rows with status "approved"
  clearing,     \* a review is committed and its cache not yet cleared
  reviews,      \* reviews so far
  cached,       \* nominations:approved:1:50, or None
  reader,       \* "idle", or what a reader of the public list is about to do
  read          \* the list it has read

request == <<pc, batch, pos, got, answer>>
public == <<cached, reader, read>>
review == <<approved, clearing, reviews>>
vars == <<lock, season, request, archive, nominations, review, public>>

NoAnswer == [accepted |-> 0, rejected |-> {}, skipped |-> {}, ok |-> FALSE]
Ended == {"locked", "answered", "crashed"}
Places == {"new", "validate", "archive", "item", "scrape", "exists", "insert", "release",
           "delete"} \cup Ended

Item(r) == batch[r][pos[r]]

-----------------------------------------------------------------------------
Init ==
  /\ lock = [v \in Voters |-> NoRequest] /\ season = 1
  /\ pc = [r \in Requests |-> "new"]
  /\ batch = [r \in Requests |-> <<>>]
  /\ pos = [r \in Requests |-> 1]
  /\ got = [r \in Requests |-> None]
  /\ answer = [r \in Requests |-> NoAnswer]
  /\ archive = {} /\ nominations = {} /\ approved = {}
  /\ clearing = FALSE /\ reviews = 0
  /\ cached = None /\ reader = "idle" /\ read = None

(* The window opens and closes. *)
SeasonTurns ==
  /\ season < Len(Seasons)
  /\ season' = season + 1
  /\ UNCHANGED <<lock, request, archive, nominations, review, public>>

-----------------------------------------------------------------------------
(* A submit. *)

Goes(r, place) == pc' = [pc EXCEPT ![r] = place]
Elsewhere == UNCHANGED <<season, review, public>>

(* _submit_lock, _acquire_vote_lock: SET NX PX 10000. *)
Acquire(r, b) ==
  /\ pc[r] = "new"
  /\ batch' = [batch EXCEPT ![r] = b]
  /\ IF lock[VoterOf[r]] = NoRequest
     THEN lock' = [lock EXCEPT ![VoterOf[r]] = r] /\ Goes(r, "validate")
     ELSE UNCHANGED lock /\ Goes(r, "locked")
  /\ UNCHANGED <<pos, got, answer, archive, nominations>> /\ Elsewhere

WithinWindow == Seasons[season] = "open"

(* validate_dojin, then the window, read once for the whole batch.         *)
Validate(r) ==
  /\ pc[r] = "validate"
  /\ Goes(r, IF Len(batch[r]) <= MaxItems /\ WithinWindow
             THEN "archive" ELSE "release")
  /\ UNCHANGED <<lock, batch, pos, got, answer, archive, nominations>> /\ Elsewhere

(* The REST route: archived without a look at the window, nothing to review. *)
RestArchive(r) ==
  /\ pc[r] = "validate" /\ Len(batch[r]) <= MaxItems
  /\ archive' = archive \cup {r}
  /\ Goes(r, "release")
  /\ UNCHANGED <<lock, batch, pos, got, answer, nominations>> /\ Elsewhere

Archive(r) ==
  /\ pc[r] = "archive"
  /\ archive' = archive \cup {r}
  /\ Goes(r, "item")
  /\ UNCHANGED <<lock, batch, pos, got, answer, nominations>> /\ Elsewhere

(* On to the next item. *)
Advance(r) == pos' = [pos EXCEPT ![r] = @ + 1] /\ Goes(r, "item")

Reject(r) ==
  /\ answer' = [answer EXCEPT ![r].rejected = @ \cup {pos[r]}]
  /\ Advance(r)
  /\ UNCHANGED got

DomainAllowed(u) == u \in Allowed

BeginItem(r) ==
  /\ pc[r] = "item"
  /\ \/ /\ pos[r] > Len(batch[r])
        /\ answer' = [answer EXCEPT ![r].ok = TRUE]
        /\ Goes(r, "release")
        /\ UNCHANGED <<pos, got>>
     \/ pos[r] <= Len(batch[r]) /\ ~DomainAllowed(Item(r)) /\ Reject(r)
     \/ /\ pos[r] <= Len(batch[r]) /\ DomainAllowed(Item(r))
        /\ Goes(r, "scrape")
        /\ UNCHANGED <<pos, got, answer>>
  /\ UNCHANGED <<lock, batch, archive, nominations>> /\ Elsewhere

(* What get_data and _scrape_meta make of a url: whatever goes wrong, and  *)
(* 5 s of silence, leave no udid and no date.                              *)
Nothing == [udid |-> None, date |-> "unknown"]
Scraped(u) == {Nothing, [udid |-> Udid[u], date |-> Date[u]]}

(* publish_date_eligible: no date is eligible. *)
Eligible(date) == date # "outside"

Scrape(r) ==
  /\ pc[r] = "scrape"
  /\ \E found \in Scraped(Item(r)) :
       \/ ~Eligible(found.date) /\ Reject(r)
       \/ /\ Eligible(found.date)
          /\ got' = [got EXCEPT ![r] = found.udid]
          /\ Goes(r, IF found.udid = None THEN "insert" ELSE "exists")
          /\ UNCHANGED <<pos, answer>>
  /\ UNCHANGED <<lock, batch, archive, nominations>> /\ Elsewhere

(* nomination_exists, and the unique constraint (vote_id, udid). *)
Known(r) == \E n \in nominations : n.voter = VoterOf[r] /\ n.udid = got[r]

Exists(r) ==
  /\ pc[r] = "exists"
  /\ \/ /\ Known(r)
        /\ answer' = [answer EXCEPT ![r].skipped = @ \cup {pos[r]}]
        /\ Advance(r)
     \/ /\ ~Known(r)
        /\ Goes(r, "insert")
        /\ UNCHANGED <<pos, answer>>
  /\ UNCHANGED <<lock, batch, got, archive, nominations>> /\ Elsewhere

Row(r) == [by |-> r, at |-> pos[r], voter |-> VoterOf[r], udid |-> got[r], url |-> Item(r)]

Accept(r) ==
  /\ nominations' = nominations \cup {Row(r)}
  /\ answer' = [answer EXCEPT ![r].accepted = @ + 1]
  /\ Advance(r)

(* Mutants of Insert: no constraint in the table, or an item that the      *)
(* constraint refuses is counted all the same.                             *)
InsertUnchecked(r) ==
  /\ pc[r] = "insert"
  /\ Accept(r)
  /\ UNCHANGED <<lock, batch, got, archive>> /\ Elsewhere

InsertCounted(r) ==
  /\ pc[r] = "insert"
  /\ \/ (got[r] = None \/ ~Known(r)) /\ Accept(r)
     \/ /\ got[r] # None /\ Known(r)
        /\ answer' = [answer EXCEPT ![r].accepted = @ + 1]
        /\ Advance(r)
        /\ UNCHANGED nominations
  /\ UNCHANGED <<lock, batch, got, archive>> /\ Elsewhere

(* create_nomination commits the item.  NULL is exempt from the constraint; *)
(* an IntegrityError is no ValueError and leaves the handler (500).         *)
Insert(r) ==
  /\ pc[r] = "insert"
  /\ \/ (got[r] = None \/ ~Known(r)) /\ Accept(r)
     \/ /\ got[r] # None /\ Known(r)
        /\ Goes(r, "release")
        /\ UNCHANGED <<nominations, answer, pos>>
  /\ UNCHANGED <<lock, batch, got, archive>> /\ Elsewhere

(* The finally: a GET, and a DELETE if it answered our uuid.  A request    *)
(* that has ended keeps nothing but its answer.                            *)
End(r, how) ==
  /\ Goes(r, how)
  /\ pos' = [pos EXCEPT ![r] = 1] /\ got' = [got EXCEPT ![r] = None]

Release(r) ==
  /\ pc[r] = "release"
  /\ \/ lock[VoterOf[r]] = r /\ Goes(r, "delete") /\ UNCHANGED <<pos, got>>
     \/ lock[VoterOf[r]] # r /\ End(r, "answered")
  /\ UNCHANGED <<lock, batch, answer, archive, nominations>> /\ Elsewhere

Delete(r) ==
  /\ pc[r] = "delete"
  /\ lock' = [lock EXCEPT ![VoterOf[r]] = NoRequest]
  /\ End(r, "answered")
  /\ UNCHANGED <<batch, answer, archive, nominations>> /\ Elsewhere

(* The worker dies: what is committed stays, and so does the lock. *)
Crash(r) ==
  /\ pc[r] \in Places \ (Ended \cup {"new"})
  /\ End(r, "crashed")
  /\ answer' = [answer EXCEPT ![r] = NoAnswer]
  /\ UNCHANGED <<lock, batch, archive, nominations>> /\ Elsewhere

Expire(v) ==
  /\ lock[v] # NoRequest
  /\ lock' = [lock EXCEPT ![v] = NoRequest]
  /\ UNCHANGED <<season, request, archive, nominations, review, public>>

-----------------------------------------------------------------------------
(* The reviews.  Of a status only "approved" matters outside this table.   *)

Backstage == UNCHANGED <<lock, season, request, archive, nominations>>

(* approve_nomination and reject_nomination, whatever was decided before.  *)
Review(n, ok) ==
  /\ ~clearing /\ reviews < MaxReviews
  /\ approved' = IF ok THEN approved \cup {n} ELSE approved \ {n}
  /\ reviews' = reviews + 1 /\ clearing' = TRUE
  /\ UNCHANGED public /\ Backstage

(* _clear_nominations_cache; the worker, or Redis, may fail before it. *)
ClearCache ==
  /\ clearing /\ clearing' = FALSE
  /\ cached' \in {None, cached}
  /\ UNCHANGED <<approved, reviews, reader, read>> /\ Backstage

-----------------------------------------------------------------------------
(* The public list. *)

Group(id) == {n \in approved : n.udid = id}

(* Mutant of Entry: counts the rows. *)
EntryOfRows(id) ==
  [udid |-> id, title |-> Min({Title[n.url] : n \in Group(id)}),
   url |-> Min({n.url : n \in Group(id)}), count |-> Cardinality(Group(id))]

(* list_approved_nominations: each column has its own minimum. *)
Entry(id) ==
  [udid |-> id, title |-> Min({Title[n.url] : n \in Group(id)}),
   url |-> Min({n.url : n \in Group(id)}), count |-> Cardinality({n.voter : n \in Group(id)})]

Approved == {Entry(id) : id \in {n.udid : n \in approved}}

Ask ==
  /\ reader = "idle" /\ cached = None
  /\ reader' = "query"
  /\ UNCHANGED <<cached, read, review>> /\ Backstage

Query ==
  /\ reader = "query"
  /\ read' = Approved /\ reader' = "store"
  /\ UNCHANGED <<cached, review>> /\ Backstage

Store ==
  /\ reader = "store"
  /\ cached' = read /\ read' = None /\ reader' = "idle"
  /\ UNCHANGED review /\ Backstage

(* The 60 s are over. *)
CacheEnds ==
  /\ cached # None /\ cached' = None
  /\ UNCHANGED <<reader, read, review>> /\ Backstage

-----------------------------------------------------------------------------
Submit(r) ==
  \/ \E b \in Batches[r] : Acquire(r, b)
  \/ Validate(r) \/ RestArchive(r) \/ Archive(r) \/ BeginItem(r) \/ Scrape(r)
  \/ Exists(r) \/ Insert(r) \/ Release(r) \/ Delete(r)

Next ==
  \/ SeasonTurns
  \/ \E r \in Requests : Submit(r) \/ Crash(r)
  \/ \E v \in Voters : Expire(v)
  \/ \E n \in nominations, ok \in BOOLEAN : Review(n, ok)
  \/ ClearCache \/ Ask \/ Query \/ Store \/ CacheEnds

Spec == Init /\ [][Next]_vars

-----------------------------------------------------------------------------
(* Types: what stands where, in the tables, the cache and the requests.     *)
Rows == [by : Requests, at : Positions, voter : Voters,
         udid : {Udid[u] : u \in Urls} \cup {None}, url : Urls]

TypeOK ==
  /\ lock \in [Voters -> Requests \cup {NoRequest}]
  /\ season \in DOMAIN Seasons
  /\ pc \in [Requests -> Places]
  /\ \A r \in Requests : batch[r] \in Batches[r] \cup {<<>>}
  /\ pos \in [Requests -> Nat]
  /\ got \in [Requests -> {Udid[u] : u \in Urls} \cup {None}]
  /\ answer \in [Requests -> [accepted : Nat, rejected : SUBSET Nat, skipped : SUBSET Nat,
                              ok : BOOLEAN]]
  /\ archive \subseteq Requests
  /\ nominations \subseteq Rows /\ approved \subseteq nominations
  /\ clearing \in BOOLEAN /\ reviews \in 0..MaxReviews
  /\ reader \in {"idle", "query", "store"}

(* A voter has at most one nomination of a work the scraper knows, however *)
(* the requests of one voter overlap when the lock runs out under them     *)
(* (UNIQUE (vote_id, udid), where nomination_exists has looked too early). *)
OneNominationPerWork ==
  \A n, m \in nominations :
    n.voter = m.voter /\ n.udid = m.udid /\ n.udid # None => n = m

(* A result that reaches the voter is true: as many nominations were       *)
(* stored for the request as it says, every item is accounted for, and an  *)
(* item skipped as a repetition is there as a nomination of that voter.    *)
AnswersAreTrue ==
  \A r \in Requests : pc[r] = "answered" /\ answer[r].ok =>
    LET a == answer[r]
    IN  /\ a.accepted = Cardinality({n \in nominations : n.by = r})
        /\ a.accepted + Cardinality(a.rejected) + Cardinality(a.skipped) = Len(batch[r])
        /\ \A k \in a.skipped : \E n \in nominations :
              n.voter = VoterOf[r] /\ n.udid = Udid[batch[r][k]]

(* No nomination without its raw_dojin row, wherever the request stopped:  *)
(* the archive is what the review falls back on.                           *)
ArchivedFirst == \A n \in nominations : n.by \in archive

(* The public count of an entry, stale or not, never exceeds the voters    *)
(* who nominated it, however many nominations without udid one voter has.  *)
CountsVoters ==
  cached # None =>
    \A e \in cached :
      e.count <= Cardinality({n.voter : n \in {m \in nominations : m.udid = e.udid}})

(* An entry of the public list stands for one work ("Approved nominations  *)
(* deduped by udid", submit/dao.py:334).                                   *)
EntryIsOneWork ==
  \A n, m \in approved : n.udid = m.udid => WorkOf[n.url] = WorkOf[m.url]

=============================================================================
