-------------------------- MODULE NominationsProofs --------------------------
(***************************************************************************)
(* A voter has one nomination of a work, every nomination is archived, the *)
(* answers say what was stored and the public list counts voters, for any  *)
(* number of voters, requests and urls.  Nothing is assumed of the lock:   *)
(* it may run out under its holder at any time.                            *)
(***************************************************************************)
EXTENDS Nominations, FiniteSetTheorems, TLAPS

Storing == {"item", "scrape", "exists", "insert"}

(* Whoever stores nominations has stored its raw row: with ArchivedFirst   *)
(* inductive.                                                              *)
ArchivedBefore == \A r \in Requests : pc[r] \in Storing => r \in archive

PcType == pc \in [Requests -> Places]

IInv == PcType /\ ArchivedBefore /\ ArchivedFirst /\ OneNominationPerWork

LEMMA InitHolds == Init => IInv
  BY DEF Init, IInv, PcType, Places, Ended, ArchivedBefore, Storing, ArchivedFirst,
         OneNominationPerWork

(* What an action leaves alone keeps the invariant. *)
LEMMA Untouched ==
  ASSUME IInv, UNCHANGED <<pc, archive, nominations>>
  PROVE  IInv'
  BY DEF IInv, PcType, ArchivedBefore, ArchivedFirst, OneNominationPerWork

(* So does a request that goes somewhere without storing anything, if it   *)
(* is archived or goes where nothing is stored.                            *)
LEMMA Moved ==
  ASSUME IInv, NEW r \in Requests, NEW place \in Places, Goes(r, place),
         UNCHANGED nominations, archive \subseteq archive',
         place \in Storing => r \in archive'
  PROVE  IInv'
<1> USE DEF IInv, Goes
<1>1. PcType'
  BY DEF PcType
<1>2. ArchivedBefore'
  BY DEF PcType, ArchivedBefore
<1>3. ArchivedFirst' /\ OneNominationPerWork'
  BY DEF ArchivedFirst, OneNominationPerWork
<1> QED BY <1>1, <1>2, <1>3

(* A row that the constraint admits. *)
LEMMA Stored ==
  ASSUME IInv, NEW r \in Requests, pc[r] = "insert", got[r] = None \/ ~Known(r), Accept(r),
         UNCHANGED archive
  PROVE  IInv'
<1> USE DEF IInv
<1>1. pc' = [pc EXCEPT ![r] = "item"] /\ nominations' = nominations \cup {Row(r)}
  BY DEF Accept, Advance, Goes
<1>2. PcType' /\ ArchivedBefore'
  BY <1>1 DEF PcType, ArchivedBefore, Storing, Places, Ended
<1>3. ArchivedFirst'
  <2>1. r \in archive /\ Row(r).by = r
    BY DEF ArchivedBefore, Storing, Row
  <2> QED BY <1>1, <2>1 DEF ArchivedFirst
<1>4. OneNominationPerWork'
  <2>1. Row(r).voter = VoterOf[r] /\ Row(r).udid = got[r]
    BY DEF Row
  <2>2. Row(r).udid = None \/ \A n \in nominations :
          ~(n.voter = Row(r).voter /\ n.udid = Row(r).udid)
    BY <2>1 DEF Known
  <2> QED BY <1>1, <2>2 DEF OneNominationPerWork
<1> QED BY <1>2, <1>3, <1>4

LEMMA SubmitHolds ==
  ASSUME IInv, NEW r \in Requests, Submit(r)
  PROVE  IInv'
<1> USE DEF Places, Ended, Storing
<1>1. ASSUME NEW b \in Batches[r], Acquire(r, b) PROVE IInv'
  BY <1>1, Moved DEF Acquire
<1>2. ASSUME Validate(r) PROVE IInv'
  <2>1. CASE Goes(r, "release")
    BY <1>2, <2>1, Moved DEF Validate
  <2>2. CASE Goes(r, "archive")
    BY <1>2, <2>2, Moved DEF Validate
  <2> QED BY <1>2, <2>1, <2>2 DEF Validate
<1>3. ASSUME RestArchive(r) PROVE IInv'
  BY <1>3, Moved DEF RestArchive
<1>4. ASSUME Archive(r) PROVE IInv'
  BY <1>4, Moved DEF Archive
<1>5. ASSUME pc[r] \in Storing, Goes(r, "item") \/ Goes(r, "scrape") \/ Goes(r, "exists")
                                \/ Goes(r, "insert") \/ Goes(r, "release"),
             UNCHANGED <<archive, nominations>>
      PROVE  IInv'
  <2>1. r \in archive
    BY <1>5 DEF IInv, ArchivedBefore
  <2> QED BY <1>5, <2>1, Moved
<1>6. ASSUME BeginItem(r) PROVE IInv'
  BY <1>5, <1>6 DEF BeginItem, Reject, Advance
<1>7. ASSUME Scrape(r) PROVE IInv'
  BY <1>5, <1>7 DEF Scrape, Reject, Advance
<1>8. ASSUME Exists(r) PROVE IInv'
  BY <1>5, <1>8 DEF Exists, Advance
<1>9. ASSUME Insert(r) PROVE IInv'
  BY <1>5, <1>9, Stored DEF Insert
<1>10. ASSUME Release(r) PROVE IInv'
  <2>1. CASE Goes(r, "delete")
    BY <1>10, <2>1, Moved DEF Release
  <2>2. CASE Goes(r, "answered")
    BY <1>10, <2>2, Moved DEF Release
  <2> QED BY <1>10, <2>1, <2>2 DEF Release, End
<1>11. ASSUME Delete(r) PROVE IInv'
  BY <1>11, Moved DEF Delete, End
<1> QED
  BY <1>1, <1>2, <1>3, <1>4, <1>6, <1>7, <1>8, <1>9, <1>10, <1>11 DEF Submit

LEMMA StepHolds == IInv /\ [Next]_vars => IInv'
<1> SUFFICES ASSUME IInv, [Next]_vars PROVE IInv'
  OBVIOUS
<1>1. ASSUME NEW r \in Requests, Submit(r) PROVE IInv'
  BY <1>1, SubmitHolds
<1>2. ASSUME NEW r \in Requests, Crash(r) PROVE IInv'
  BY <1>2, Moved DEF Crash, End, Places, Ended, Storing
<1>3. ASSUME NEW v \in Voters, Expire(v) PROVE IInv'
  BY <1>3, Untouched DEF Expire, request
<1>4. CASE SeasonTurns
  BY <1>4, Untouched DEF SeasonTurns, request
<1>5. ASSUME Backstage PROVE IInv'
  BY <1>5, Untouched DEF Backstage, request
<1>6. ASSUME NEW n \in nominations, NEW ok \in BOOLEAN, Review(n, ok) PROVE IInv'
  BY <1>5, <1>6 DEF Review
<1>7. CASE ClearCache \/ Ask \/ Query \/ Store \/ CacheEnds
  BY <1>5, <1>7 DEF ClearCache, Ask, Query, Store, CacheEnds
<1>8. CASE UNCHANGED vars
  BY <1>8, Untouched DEF vars, request
<1> QED
  BY <1>1, <1>2, <1>3, <1>4, <1>6, <1>7, <1>8 DEF Next

(* A voter never has two nominations of a work the scraper knows, however  *)
(* the locks expire, requests overlap and workers die.                     *)
THEOREM NominationsAreDistinct == Spec => []OneNominationPerWork
<1>1. IInv => OneNominationPerWork
  BY DEF IInv
<1> QED
  BY InitHolds, StepHolds, <1>1, PTL DEF Spec

(* Every nomination has its raw row, whenever its request has stopped. *)
THEOREM NominationsAreArchived == Spec => []ArchivedFirst
<1>1. IInv => ArchivedFirst
  BY DEF IInv
<1> QED
  BY InitHolds, StepHolds, <1>1, PTL DEF Spec
-----------------------------------------------------------------------------
(* Types, and where a request stands in its batch. *)

Before == {"new", "validate", "archive"}
AtItem == {"scrape", "exists", "insert"}

BatchType == batch \in [Requests -> Seq(Urls)]

Within ==
  \A r \in Requests :
    /\ pos[r] # 0
    /\ pc[r] \in Before => pos[r] = 1
    /\ pc[r] \in {"archive"} \cup Storing => Len(batch[r]) <= MaxItems
    /\ pc[r] = "item" => pos[r] <= Len(batch[r]) + 1
    /\ pc[r] \in AtItem => pos[r] <= Len(batch[r])

TInv == TypeOK /\ BatchType /\ Within

(* TypeOK in four parts, as the actions disturb them. *)
Answers == [accepted : Nat, rejected : SUBSET Nat, skipped : SUBSET Nat, ok : BOOLEAN]

PlaceTypes ==
  /\ pc \in [Requests -> Places]
  /\ pos \in [Requests -> Nat]
  /\ got \in [Requests -> {Udid[u] : u \in Urls} \cup {None}]
AnswerTypes == answer \in [Requests -> Answers]
TableTypes ==
  /\ archive \subseteq Requests
  /\ nominations \subseteq Rows /\ approved \subseteq nominations
OtherTypes ==
  /\ lock \in [Voters -> Requests \cup {NoRequest}]
  /\ season \in DOMAIN Seasons
  /\ \A r \in Requests : batch[r] \in Batches[r] \cup {<<>>}
  /\ clearing \in BOOLEAN /\ reviews \in 0..MaxReviews
  /\ reader \in {"idle", "query", "store"}

LEMMA TypeParts == TypeOK <=> PlaceTypes /\ AnswerTypes /\ TableTypes /\ OtherTypes
  BY DEF TypeOK, PlaceTypes, AnswerTypes, Answers, TableTypes, OtherTypes

LEMMA TypePartsNext == TypeOK' <=> (PlaceTypes /\ AnswerTypes /\ TableTypes /\ OtherTypes)'
  BY DEF TypeOK, PlaceTypes, AnswerTypes, Answers, TableTypes, OtherTypes

LEMMA InitTypes == Init => TInv
<1> SUFFICES ASSUME Init PROVE TInv
  OBVIOUS
<1>1. PlaceTypes /\ TableTypes
  BY DEF Init, PlaceTypes, TableTypes, Places, Ended
<1>4. OtherTypes
  <2>1. 1 \in DOMAIN Seasons
    BY DEF Seasons
  <2>2. reviews \in 0..MaxReviews
    BY NominationAssumption DEF Init
  <2>3. lock \in [Voters -> Requests \cup {NoRequest}]
    BY DEF Init
  <2> QED BY <2>1, <2>2, <2>3 DEF Init, OtherTypes
<1>2. AnswerTypes
  BY DEF Init, AnswerTypes, Answers, NoAnswer
<1>3. BatchType /\ Within
  BY DEF Init, BatchType, Within, Before, Storing, AtItem
<1> QED BY <1>1, <1>2, <1>3, <1>4, TypeParts DEF TInv

(* What the steps write into an answer. *)
LEMMA Answering ==
  ASSUME AnswerTypes, NEW r \in Requests, pos[r] \in Nat,
         \/ answer' = [answer EXCEPT ![r].accepted = @ + 1]
         \/ answer' = [answer EXCEPT ![r].rejected = @ \cup {pos[r]}]
         \/ answer' = [answer EXCEPT ![r].skipped = @ \cup {pos[r]}]
         \/ answer' = [answer EXCEPT ![r].ok = TRUE]
  PROVE  AnswerTypes'
<1> USE DEF AnswerTypes
<1>1. \A a \in Answers :
        /\ [a EXCEPT !.accepted = @ + 1] \in Answers
        /\ [a EXCEPT !.rejected = @ \cup {pos[r]}] \in Answers
        /\ [a EXCEPT !.skipped = @ \cup {pos[r]}] \in Answers
        /\ [a EXCEPT !.ok = TRUE] \in Answers
  <2> TAKE a \in Answers
  <2>1. a.accepted + 1 \in Nat /\ a.rejected \cup {pos[r]} \in SUBSET Nat
        /\ a.skipped \cup {pos[r]} \in SUBSET Nat
    BY DEF Answers
  <2>2. [a EXCEPT !.accepted = @ + 1] \in Answers
    BY <2>1 DEF Answers
  <2>3. [a EXCEPT !.rejected = @ \cup {pos[r]}] \in Answers
    BY <2>1 DEF Answers
  <2>4. [a EXCEPT !.skipped = @ \cup {pos[r]}] \in Answers
    BY <2>1 DEF Answers
  <2>5. [a EXCEPT !.ok = TRUE] \in Answers
    BY DEF Answers
  <2> QED BY <2>2, <2>3, <2>4, <2>5
<1>2. answer[r] \in Answers
  OBVIOUS
<1>3. PICK a \in Answers : answer' = [answer EXCEPT ![r] = a]
  BY <1>1, <1>2
<1> QED BY <1>3

LEMMA Advancing ==
  ASSUME PlaceTypes, NEW r \in Requests, Advance(r), UNCHANGED got
  PROVE  PlaceTypes'
<1>1. pos[r] + 1 \in Nat /\ "item" \in Places
  BY DEF PlaceTypes, Places
<1>2. pos' = [pos EXCEPT ![r] = pos[r] + 1] /\ pc' = [pc EXCEPT ![r] = "item"]
  BY DEF Advance, Goes
<1> QED BY <1>1, <1>2 DEF PlaceTypes

LEMMA ItemIsUrl ==
  ASSUME TInv, NEW r \in Requests, pc[r] \in AtItem
  PROVE  /\ pos[r] \in Positions /\ pos[r] \in 1..Len(batch[r]) /\ Len(batch[r]) \in Nat
         /\ Item(r) \in Urls
<1> USE DEF TInv, TypeOK, BatchType, Within, AtItem, Storing
<1>1. pos[r] \in Nat \ {0} /\ pos[r] <= Len(batch[r]) /\ Len(batch[r]) <= MaxItems
  OBVIOUS
<1>2. batch[r] \in Seq(Urls)
  OBVIOUS
<1>3. Len(batch[r]) \in Nat
  BY <1>2
<1> QED BY <1>1, <1>2, <1>3, NominationAssumption DEF Positions, Item

LEMMA SubmitTypes ==
  ASSUME TInv, NEW r \in Requests, Submit(r)
  PROVE  TInv'
<1> USE TypeParts DEF TInv, Goes, Elsewhere, review, public
<1>a. batch[r] \in Seq(Urls) /\ Len(batch[r]) \in Nat /\ pos[r] \in Nat
  BY DEF BatchType, TypeOK
<1>1. ASSUME NEW b \in Batches[r], Acquire(r, b) PROVE TInv'
  <2>1. b \in Seq(Urls) /\ VoterOf[r] \in Voters
    BY NominationAssumption DEF Voters
  <2>2. TypeOK'
    <3>1. PlaceTypes'
      BY <1>1, <2>1 DEF Acquire, Places, Ended, PlaceTypes
    <3>2. AnswerTypes'
      BY <1>1, <2>1 DEF Acquire, Places, Ended, PlaceTypes, AnswerTypes, Answers
    <3>3. TableTypes'
      BY <1>1, <2>1 DEF Acquire, Places, Ended, TableTypes
    <3>4. OtherTypes'
      BY <1>1, <2>1 DEF Acquire, Places, Ended, OtherTypes
    <3> QED BY <3>1, <3>2, <3>3, <3>4, TypePartsNext
  <2>3. BatchType'
    BY <1>1, <2>1 DEF Acquire, BatchType
  <2>4. Within'
    BY <1>1, <2>1 DEF Acquire, TypeOK, BatchType, Within, Before, Storing, AtItem
  <2> QED BY <2>2, <2>3, <2>4
<1>2. ASSUME Validate(r) \/ RestArchive(r) \/ Archive(r) PROVE TInv'
  <2>1. TypeOK'
    <3>1. PlaceTypes'
      BY <1>2 DEF Validate, RestArchive, Archive, Places, Ended, PlaceTypes
    <3>2. AnswerTypes'
      BY <1>2 DEF Validate, RestArchive, Archive, Places, Ended, PlaceTypes, AnswerTypes, Answers
    <3>3. TableTypes'
      BY <1>2 DEF Validate, RestArchive, Archive, Places, Ended, TableTypes
    <3>4. OtherTypes'
      BY <1>2 DEF Validate, RestArchive, Archive, Places, Ended, OtherTypes
    <3> QED BY <3>1, <3>2, <3>3, <3>4, TypePartsNext
  <2>2. BatchType'
    BY <1>2 DEF Validate, RestArchive, Archive, BatchType
  <2>3. Within'
    BY <1>2, <1>a DEF Validate, RestArchive, Archive, TypeOK, BatchType, Within, Before,
                      Storing, AtItem
  <2> QED BY <2>1, <2>2, <2>3
<1>3. ASSUME BeginItem(r) PROVE TInv'
  <2>1. TypeOK'
    <3>1. PlaceTypes'
      BY <1>3, <1>a, Advancing DEF BeginItem, Reject, Places, Ended, PlaceTypes
    <3>2. AnswerTypes'
      BY <1>3, <1>a, Answering DEF BeginItem, Reject, AnswerTypes
    <3>3. TableTypes'
      BY <1>3, <1>a DEF BeginItem, Reject, Advance, Places, Ended, TableTypes
    <3>4. OtherTypes'
      BY <1>3, <1>a DEF BeginItem, Reject, Advance, Places, Ended, OtherTypes
    <3> QED BY <3>1, <3>2, <3>3, <3>4, TypePartsNext
  <2>2. BatchType'
    BY <1>3 DEF BeginItem, BatchType
  <2>3. Within'
    BY <1>3, <1>a DEF BeginItem, Reject, Advance, TypeOK, BatchType, Within, Before,
                      Storing, AtItem
  <2> QED BY <2>1, <2>2, <2>3
<1>4. ASSUME Scrape(r) PROVE TInv'
  <2> USE <1>4
  <2>0. Item(r) \in Urls
    BY ItemIsUrl DEF Scrape, AtItem
  <2>1. PICK found \in Scraped(Item(r)) :
          \/ Reject(r)
          \/ /\ got' = [got EXCEPT ![r] = found.udid]
             /\ Goes(r, IF found.udid = None THEN "insert" ELSE "exists")
             /\ UNCHANGED <<pos, answer>>
    BY DEF Scrape
  <2>2. found.udid \in {Udid[u] : u \in Urls} \cup {None}
    BY <2>0, <2>1 DEF Scraped, Nothing
  <2>3. TypeOK'
    <3>1. PlaceTypes'
      BY <1>a, <2>1, <2>2, Advancing DEF Scrape, Reject, Places, Ended, PlaceTypes
    <3>2. AnswerTypes'
      BY <1>a, <2>1, <2>2, Answering DEF Scrape, Reject, AnswerTypes
    <3>3. TableTypes'
      BY <1>a, <2>1, <2>2 DEF Scrape, Reject, Advance, Places, Ended, TableTypes
    <3>4. OtherTypes'
      BY <1>a, <2>1, <2>2 DEF Scrape, Reject, Advance, Places, Ended, OtherTypes
    <3> QED BY <3>1, <3>2, <3>3, <3>4, TypePartsNext
  <2>4. BatchType'
    BY DEF Scrape, BatchType
  <2>5. Within'
    BY <1>a, <2>1 DEF Scrape, Reject, Advance, TypeOK, BatchType, Within, Before,
                      Storing, AtItem
  <2> QED BY <2>3, <2>4, <2>5
<1>5. ASSUME Exists(r) PROVE TInv'
  <2>1. TypeOK'
    <3>1. PlaceTypes'
      BY <1>5, <1>a, Advancing DEF Exists, Places, Ended, PlaceTypes
    <3>2. AnswerTypes'
      BY <1>5, <1>a, Answering DEF Exists, AnswerTypes
    <3>3. TableTypes'
      BY <1>5, <1>a DEF Exists, Advance, Places, Ended, TableTypes
    <3>4. OtherTypes'
      BY <1>5, <1>a DEF Exists, Advance, Places, Ended, OtherTypes
    <3> QED BY <3>1, <3>2, <3>3, <3>4, TypePartsNext
  <2>2. BatchType'
    BY <1>5 DEF Exists, BatchType
  <2>3. Within'
    BY <1>5, <1>a DEF Exists, Advance, TypeOK, BatchType, Within, Before, Storing, AtItem
  <2> QED BY <2>1, <2>2, <2>3
<1>6. ASSUME Insert(r) PROVE TInv'
  <2>0. Row(r) \in Rows
    BY <1>6, ItemIsUrl DEF Insert, AtItem, Row, Rows, Voters, TypeOK
  <2>1. TypeOK'
    <3>1. PlaceTypes'
      BY <1>6, <1>a, <2>0, Advancing DEF Insert, Accept, Places, Ended, PlaceTypes
    <3>2. AnswerTypes'
      BY <1>6, <1>a, <2>0, Answering DEF Insert, Accept, AnswerTypes
    <3>3. TableTypes'
      BY <1>6, <1>a, <2>0 DEF Insert, Accept, Advance, Places, Ended, TableTypes
    <3>4. OtherTypes'
      BY <1>6, <1>a, <2>0 DEF Insert, Accept, Advance, Places, Ended, OtherTypes
    <3> QED BY <3>1, <3>2, <3>3, <3>4, TypePartsNext
  <2>2. BatchType'
    BY <1>6 DEF Insert, BatchType
  <2>3. Within'
    BY <1>6, <1>a DEF Insert, Accept, Advance, TypeOK, BatchType, Within, Before,
                      Storing, AtItem
  <2> QED BY <2>1, <2>2, <2>3
<1>7. ASSUME Release(r) \/ Delete(r) PROVE TInv'
  <2>0. VoterOf[r] \in Voters
    BY DEF Voters
  <2>1. TypeOK'
    <3>1. PlaceTypes'
      BY <1>7, <2>0 DEF Release, Delete, End, Places, Ended, PlaceTypes
    <3>2. AnswerTypes'
      BY <1>7, <2>0 DEF Release, Delete, End, Places, Ended, PlaceTypes, AnswerTypes, Answers
    <3>3. TableTypes'
      BY <1>7, <2>0 DEF Release, Delete, End, Places, Ended, TableTypes
    <3>4. OtherTypes'
      BY <1>7, <2>0 DEF Release, Delete, End, Places, Ended, OtherTypes
    <3> QED BY <3>1, <3>2, <3>3, <3>4, TypePartsNext
  <2>2. BatchType'
    BY <1>7 DEF Release, Delete, BatchType
  <2>3. Within'
    BY <1>7 DEF Release, Delete, End, TypeOK, Within, Before, Storing, AtItem
  <2> QED BY <2>1, <2>2, <2>3
<1> QED
  BY <1>1, <1>2, <1>3, <1>4, <1>5, <1>6, <1>7 DEF Submit

LEMMA TypesStep == TInv /\ [Next]_vars => TInv'
<1> SUFFICES ASSUME TInv, [Next]_vars PROVE TInv'
  OBVIOUS
<1> USE TypeParts DEF TInv, request, review, public
<1>1. ASSUME UNCHANGED request, TypeOK' PROVE TInv'
  BY <1>1 DEF BatchType, Within
<1>2. ASSUME NEW r \in Requests, Submit(r) PROVE TInv'
  BY <1>2, SubmitTypes
<1>3. ASSUME NEW r \in Requests, Crash(r) PROVE TInv'
  <2> USE <1>3 DEF Crash, End, Goes, Elsewhere
  <2>1. PlaceTypes'
    BY DEF PlaceTypes, Places, Ended
  <2>2. AnswerTypes'
    BY DEF AnswerTypes, Answers, NoAnswer
  <2>3. TableTypes' /\ OtherTypes'
    BY DEF TableTypes, OtherTypes
  <2>4. BatchType' /\ Within'
    BY DEF PlaceTypes, BatchType, Within, Before, Storing, AtItem, Ended
  <2> QED BY <2>1, <2>2, <2>3, <2>4, TypePartsNext
<1>4. ASSUME NEW v \in Voters, Expire(v) PROVE TInv'
  <2>1. PlaceTypes' /\ AnswerTypes' /\ TableTypes' /\ OtherTypes'
    BY <1>4 DEF Expire, PlaceTypes, AnswerTypes, TableTypes, OtherTypes
  <2> QED BY <1>1, <1>4, <2>1, TypePartsNext DEF Expire
<1>5. CASE SeasonTurns
  <2>1. season + 1 \in DOMAIN Seasons
    BY <1>5 DEF SeasonTurns, OtherTypes, Seasons
  <2>2. PlaceTypes' /\ AnswerTypes' /\ TableTypes' /\ OtherTypes'
    BY <1>5, <2>1 DEF SeasonTurns, PlaceTypes, AnswerTypes, TableTypes, OtherTypes
  <2> QED BY <1>1, <1>5, <2>2, TypePartsNext DEF SeasonTurns
<1>6. ASSUME NEW n \in nominations, NEW ok \in BOOLEAN, Review(n, ok) PROVE TInv'
  <2> USE <1>6 DEF Review, Backstage
  <2>1. PlaceTypes' /\ AnswerTypes'
    BY DEF PlaceTypes, AnswerTypes
  <2>2. TableTypes'
    BY DEF TableTypes
  <2>3. OtherTypes'
    BY NominationAssumption DEF OtherTypes
  <2> QED BY <1>1, <2>1, <2>2, <2>3, TypePartsNext
<1>7. CASE ClearCache \/ Ask \/ Query \/ Store \/ CacheEnds
  <2> USE <1>7 DEF ClearCache, Ask, Query, Store, CacheEnds, Backstage
  <2>1. PlaceTypes' /\ AnswerTypes'
    BY DEF PlaceTypes, AnswerTypes
  <2>2. TableTypes'
    BY DEF TableTypes
  <2>3. OtherTypes'
    BY DEF OtherTypes
  <2> QED BY <1>1, <2>1, <2>2, <2>3, TypePartsNext
<1>8. CASE UNCHANGED vars
  <2>1. PlaceTypes' /\ AnswerTypes' /\ TableTypes' /\ OtherTypes'
    BY <1>8 DEF vars, PlaceTypes, AnswerTypes, TableTypes, OtherTypes
  <2> QED BY <1>1, <1>8, <2>1, TypePartsNext DEF vars
<1> QED
  BY <1>2, <1>3, <1>4, <1>5, <1>6, <1>7, <1>8 DEF Next

(* Types: a nomination stands at an item of its batch, within the limit,   *)
(* and what is approved is in the table.                                   *)
THEOREM NominationTypes == Spec => []TypeOK
<1>1. TInv => TypeOK
  BY DEF TInv
<1> QED
  BY InitTypes, TypesStep, <1>1, PTL DEF Spec

-----------------------------------------------------------------------------
(* The answers.  After n items of its batch a request has stored,          *)
(* rejected or skipped each of them, and counted what it stored.           *)

Mine(r) == {n \in nominations : n.by = r}

Accounts(r, n) ==
  LET a == answer[r]
  IN  /\ a.rejected \subseteq 1..n /\ a.skipped \subseteq 1..n
      /\ IsFiniteSet(Mine(r)) /\ Cardinality(Mine(r)) = a.accepted
      /\ a.accepted + Cardinality(a.rejected) + Cardinality(a.skipped) = n
      /\ \A m \in Mine(r) : m.at \in 1..n

(* Item k was a repetition: the voter has a nomination of its work. *)
Repeated(r, k) ==
  \E n \in nominations : n.voter = VoterOf[r] /\ n.udid = Udid[batch[r][k]]

Closing == {"release", "delete", "answered"}

CountedFor(r) ==
  /\ pc[r] \in Before => Accounts(r, 0)
  /\ pc[r] \in Storing => Accounts(r, pos[r] - 1)
  /\ pc[r] \in Closing /\ answer[r].ok => Accounts(r, Len(batch[r]))
  /\ pc[r] \notin Closing => ~answer[r].ok
  /\ pc[r] = "exists" => got[r] = Udid[Item(r)]
  /\ \A k \in answer[r].skipped : Repeated(r, k)

Counted == \A r \in Requests : CountedFor(r)

LEMMA InitCounted == Init => Counted
<1> SUFFICES ASSUME Init, NEW r \in Requests PROVE CountedFor(r)
  BY DEF Counted
<1>1. pc[r] = "new" /\ answer[r] = NoAnswer /\ Mine(r) = {}
  BY DEF Init, Mine
<1>2. Accounts(r, 0)
  BY <1>1, FS_EmptySet DEF Accounts, NoAnswer
<1> QED BY <1>1, <1>2 DEF CountedFor, Before, Storing, Closing, NoAnswer

(* A request that neither moves nor answers keeps its count when others    *)
(* store theirs. *)
LEMMA CountKept ==
  ASSUME NEW r \in Requests, CountedFor(r), nominations \subseteq nominations',
         \A n \in nominations' \ nominations : n.by # r,
         pc'[r] = pc[r], pos'[r] = pos[r], batch'[r] = batch[r], got'[r] = got[r],
         answer'[r] = answer[r]
  PROVE  CountedFor(r)'
<1>1. Mine(r)' = Mine(r)
  BY DEF Mine
<1>2. \A n : Accounts(r, n) => Accounts(r, n)'
  BY <1>1 DEF Accounts
<1>3. \A k : Repeated(r, k) => Repeated(r, k)'
  BY DEF Repeated
<1> QED BY <1>2, <1>3 DEF CountedFor, Item

(* One more item: rejected, a repetition, or stored. *)
LEMMA Counting ==
  ASSUME TInv, NEW r \in Requests, NEW n \in Nat, Accounts(r, n),
         Mine(r)' = Mine(r),
         answer'[r] = [answer[r] EXCEPT !.rejected = @ \cup {n + 1}]
           \/ answer'[r] = [answer[r] EXCEPT !.skipped = @ \cup {n + 1}]
  PROVE  Accounts(r, n + 1)' /\ answer'[r].ok = answer[r].ok
<1> DEFINE a == answer[r]
<1>1. a \in Answers
  BY TypeParts DEF TInv, AnswerTypes
<1>2. a.rejected \subseteq 1..n /\ a.skipped \subseteq 1..n /\ n + 1 \notin 1..n
  BY DEF Accounts
<1>3. \A S \in SUBSET (1..n) :
        /\ IsFiniteSet(S) /\ Cardinality(S) \in Nat
        /\ Cardinality(S \cup {n + 1}) = Cardinality(S) + 1
        /\ S \cup {n + 1} \subseteq 1..(n + 1)
  <2> TAKE S \in SUBSET (1..n)
  <2>1. IsFiniteSet(1..n)
    BY FS_Interval
  <2>2. IsFiniteSet(S) /\ Cardinality(S) \in Nat
    BY <2>1, FS_Subset, FS_CardinalityType
  <2>3. n + 1 \notin S
    BY <1>2
  <2>4. Cardinality(S \cup {n + 1}) = Cardinality(S) + 1
    BY <2>2, <2>3, FS_AddElement
  <2>5. S \cup {n + 1} \subseteq 1..(n + 1)
    OBVIOUS
  <2> QED BY <2>2, <2>4, <2>5
<1>4. 1..n \subseteq 1..(n + 1)
  OBVIOUS
<1>5. a.accepted \in Nat
  BY <1>1 DEF Answers
<1>8. \A m \in Mine(r) : m.at \in 1..(n + 1)
  BY <1>4 DEF Accounts
<1>9. /\ IsFiniteSet(Mine(r)) /\ Cardinality(Mine(r)) = a.accepted
      /\ a.accepted + Cardinality(a.rejected) + Cardinality(a.skipped) = n
  BY DEF Accounts
<1>10. /\ Cardinality(a.rejected) \in Nat /\ Cardinality(a.skipped) \in Nat
       /\ Cardinality(a.rejected \cup {n + 1}) = Cardinality(a.rejected) + 1
       /\ Cardinality(a.skipped \cup {n + 1}) = Cardinality(a.skipped) + 1
  <2>1. a.rejected \in SUBSET (1..n) /\ a.skipped \in SUBSET (1..n)
    BY <1>2
  <2> QED BY <1>3, <2>1
<1>6. CASE answer'[r] = [a EXCEPT !.rejected = @ \cup {n + 1}]
  <2>1. /\ answer'[r].accepted = a.accepted /\ answer'[r].ok = a.ok
        /\ answer'[r].skipped = a.skipped /\ answer'[r].rejected = a.rejected \cup {n + 1}
    BY <1>1, <1>6 DEF Answers
  <2>3. a.accepted + Cardinality(answer'[r].rejected) + Cardinality(answer'[r].skipped) = n + 1
    BY <1>5, <1>9, <1>10, <2>1
  <2> QED BY <1>2, <1>3, <1>4, <1>8, <1>9, <2>1, <2>3 DEF Accounts
<1>7. CASE answer'[r] = [a EXCEPT !.skipped = @ \cup {n + 1}]
  <2>1. /\ answer'[r].accepted = a.accepted /\ answer'[r].ok = a.ok
        /\ answer'[r].rejected = a.rejected /\ answer'[r].skipped = a.skipped \cup {n + 1}
    BY <1>1, <1>7 DEF Answers
  <2>3. a.accepted + Cardinality(answer'[r].rejected) + Cardinality(answer'[r].skipped) = n + 1
    BY <1>5, <1>9, <1>10, <2>1
  <2> QED BY <1>2, <1>3, <1>4, <1>8, <1>9, <2>1, <2>3 DEF Accounts
<1> QED BY <1>6, <1>7

LEMMA CountingStored ==
  ASSUME TInv, NEW r \in Requests, NEW n \in Nat, Accounts(r, n),
         NEW m, m.by = r, m.at = n + 1, Mine(r)' = Mine(r) \cup {m},
         answer'[r] = [answer[r] EXCEPT !.accepted = @ + 1]
  PROVE  Accounts(r, n + 1)' /\ answer'[r].ok = answer[r].ok
         /\ answer'[r].skipped = answer[r].skipped
<1> DEFINE a == answer[r]
<1>1. a \in Answers
  BY TypeParts DEF TInv, AnswerTypes
<1>2. /\ answer'[r].accepted = a.accepted + 1 /\ answer'[r].ok = a.ok
      /\ answer'[r].skipped = a.skipped /\ answer'[r].rejected = a.rejected
  BY <1>1 DEF Answers
<1>3. m \notin Mine(r)
  BY DEF Accounts
<1>4. IsFiniteSet(Mine(r)') /\ Cardinality(Mine(r)') = Cardinality(Mine(r)) + 1
  BY <1>3, FS_AddElement DEF Accounts
<1>5. IsFiniteSet(1..n)
  BY FS_Interval
<1>6. Cardinality(a.rejected) \in Nat /\ Cardinality(a.skipped) \in Nat /\ a.accepted \in Nat
  BY <1>1, <1>5, FS_Subset, FS_CardinalityType DEF Accounts, Answers
<1>7. 1..n \subseteq 1..(n + 1) /\ n + 1 \in 1..(n + 1)
  OBVIOUS
<1> QED BY <1>2, <1>4, <1>6, <1>7 DEF Accounts

(* A step of r changes nothing of another request, and stores at most its  *)
(* own row. *)
LEMMA SubmitIsOwn ==
  ASSUME TInv, NEW r \in Requests, Submit(r)
  PROVE  /\ nominations \subseteq nominations'
         /\ \A n \in nominations' \ nominations : n.by = r
         /\ \A q \in Requests \ {r} :
               /\ pc'[q] = pc[q] /\ pos'[q] = pos[q] /\ batch'[q] = batch[q]
               /\ got'[q] = got[q] /\ answer'[q] = answer[q]
<1> USE TypeParts DEF TInv, PlaceTypes, AnswerTypes, BatchType, Goes
<1>1. ASSUME NEW b \in Batches[r], Acquire(r, b)
      PROVE  UNCHANGED nominations /\ \A q \in Requests \ {r} :
               /\ pc'[q] = pc[q] /\ pos'[q] = pos[q] /\ batch'[q] = batch[q]
               /\ got'[q] = got[q] /\ answer'[q] = answer[q]
  BY <1>1 DEF Acquire
<1>2. CASE Validate(r) \/ RestArchive(r) \/ Archive(r)
  BY <1>2 DEF Validate, RestArchive, Archive
<1>3. CASE BeginItem(r) \/ Scrape(r)
  BY <1>3 DEF BeginItem, Scrape, Reject, Advance
<1>4. CASE Exists(r)
  BY <1>4 DEF Exists, Advance
<1>5. CASE Insert(r)
  BY <1>5 DEF Insert, Accept, Advance, Row
<1>6. CASE Release(r) \/ Delete(r)
  BY <1>6 DEF Release, Delete, End
<1> QED BY <1>1, <1>2, <1>3, <1>4, <1>5, <1>6 DEF Submit

LEMMA SubmitCounted ==
  ASSUME TInv, Counted, NEW r \in Requests, Submit(r)
  PROVE  Counted'
<1>a. /\ PlaceTypes /\ AnswerTypes /\ BatchType /\ Within /\ CountedFor(r)
      /\ pos[r] \in Nat \ {0}
  BY TypeParts DEF TInv, PlaceTypes, Within, Counted
<1>n. PICK n \in Nat : pos[r] = n + 1 /\ pos[r] - 1 = n
  BY <1>a
(* The others keep their counts, so r's own is what there is to show. *)
<1>b. ASSUME CountedFor(r)' PROVE Counted'
  BY <1>b, CountKept, SubmitIsOwn DEF Counted
<1>c. ASSUME UNCHANGED <<nominations, answer, batch>>
      PROVE  /\ \A j : Accounts(r, j) <=> Accounts(r, j)'
             /\ \A k : Repeated(r, k) <=> Repeated(r, k)'
  BY <1>c DEF Mine, Accounts, Repeated
<1> USE DEF Goes
<1>1. ASSUME NEW b \in Batches[r], Acquire(r, b) PROVE CountedFor(r)'
  <2>1. answer[r].skipped = {} /\ ~answer[r].ok /\ Accounts(r, 0)
    BY <1>1, <1>a DEF Acquire, CountedFor, Accounts, Before, Closing
  <2>2. Accounts(r, 0)'
    BY <1>1, <2>1 DEF Acquire, Accounts, Mine
  <2> QED
    BY <1>1, <1>a, <2>1, <2>2 DEF Acquire, CountedFor, PlaceTypes, Before, Storing, Closing
<1>2. ASSUME Validate(r) \/ RestArchive(r) \/ Archive(r) PROVE CountedFor(r)'
  <2>1. UNCHANGED <<nominations, answer, batch, pos, got>> /\ ~answer[r].ok
        /\ Accounts(r, 0) /\ pos[r] = 1 /\ pc'[r] \in {"archive", "item", "release"}
    BY <1>2, <1>a DEF Validate, RestArchive, Archive, CountedFor, PlaceTypes, Within, Before, Closing
  <2> QED
    BY <1>a, <1>c, <2>1 DEF CountedFor, Before, Storing, Closing
<1>3. ASSUME Reject(r), pc[r] \in Storing, UNCHANGED <<nominations, batch>>
      PROVE  CountedFor(r)'
  <2>1. answer'[r] = [answer[r] EXCEPT !.rejected = @ \cup {pos[r]}]
        /\ pc'[r] = "item" /\ pos'[r] = pos[r] + 1 /\ got'[r] = got[r]
    BY <1>3, <1>a DEF Reject, Advance, AnswerTypes, PlaceTypes
  <2>2. Accounts(r, n) /\ ~answer[r].ok /\ Mine(r)' = Mine(r)
    BY <1>3, <1>a, <1>n DEF CountedFor, Storing, Closing, Mine
  <2>3. Accounts(r, n + 1)' /\ ~answer'[r].ok
    BY <1>n, <2>1, <2>2, Counting
  <2>4. answer'[r].skipped = answer[r].skipped
    BY <1>a, <2>1 DEF AnswerTypes, Answers
  <2>5. \A k \in answer'[r].skipped : Repeated(r, k)'
    BY <1>3, <1>a, <2>4 DEF CountedFor, Repeated
  <2>6. pos'[r] - 1 = n + 1
    BY <1>n, <2>1
  <2> QED
    BY <2>1, <2>3, <2>5, <2>6 DEF CountedFor, Before, Storing, Closing
<1>4. ASSUME BeginItem(r) PROVE CountedFor(r)'
  <2>1. Accounts(r, n) /\ ~answer[r].ok /\ Len(batch[r]) \in Nat
    BY <1>4, <1>a, <1>n DEF BeginItem, CountedFor, Storing, Closing, BatchType
  <2>2. CASE pos[r] > Len(batch[r])
    <3>1. n = Len(batch[r])
      BY <1>4, <1>a, <1>n, <2>1, <2>2 DEF BeginItem, Within
    <3>2. answer' = [answer EXCEPT ![r].ok = TRUE] /\ pc'[r] = "release"
      BY <1>4, <1>a, <2>1, <2>2 DEF BeginItem, PlaceTypes
    <3>3. /\ answer'[r].accepted = answer[r].accepted
          /\ answer'[r].rejected = answer[r].rejected
          /\ answer'[r].skipped = answer[r].skipped
      BY <1>a, <3>2 DEF AnswerTypes, Answers
    <3>4. Accounts(r, n)'
      BY <1>4, <2>1, <3>3 DEF BeginItem, Accounts, Mine
    <3>5. \A k \in answer'[r].skipped : Repeated(r, k)'
      BY <1>4, <1>a, <3>3 DEF BeginItem, CountedFor, Repeated
    <3>6. batch'[r] = batch[r]
      BY <1>4 DEF BeginItem
    <3> QED
      BY <3>1, <3>2, <3>4, <3>5, <3>6 DEF CountedFor, Before, Storing, Closing
  <2>3. CASE Reject(r)
    BY <1>3, <1>4, <2>3 DEF BeginItem, Storing
  <2>4. CASE Goes(r, "scrape") /\ UNCHANGED <<pos, got, answer>>
    BY <1>4, <1>a, <1>c, <1>n, <2>1, <2>4
       DEF BeginItem, CountedFor, PlaceTypes, Before, Storing, Closing
  <2> QED BY <1>4, <2>1, <2>2, <2>3, <2>4, <1>a DEF BeginItem
<1>5. ASSUME Scrape(r) PROVE CountedFor(r)'
  <2>1. CASE Reject(r)
    BY <1>3, <1>5, <2>1 DEF Scrape, Storing
  <2>2. ASSUME NEW found \in Scraped(Item(r)), got' = [got EXCEPT ![r] = found.udid],
               Goes(r, IF found.udid = None THEN "insert" ELSE "exists"),
               UNCHANGED <<pos, answer>>
        PROVE  CountedFor(r)'
    <3>1. found.udid # None => found.udid = Udid[Item(r)]
      BY DEF Scraped, Nothing
    <3>2. Item(r)' = Item(r) /\ got'[r] = found.udid
      BY <1>5, <1>a, <2>2 DEF Scrape, Item, PlaceTypes
    <3>3. Accounts(r, n) /\ ~answer[r].ok
      BY <1>5, <1>a, <1>n DEF Scrape, CountedFor, Storing, Closing
    <3>4. pc'[r] = IF found.udid = None THEN "insert" ELSE "exists"
      BY <1>a, <2>2 DEF PlaceTypes
    <3> QED
      BY <1>5, <1>a, <1>c, <1>n, <2>2, <3>1, <3>2, <3>3, <3>4
         DEF Scrape, CountedFor, Before, Storing, Closing
  <2> QED BY <1>5, <2>1, <2>2 DEF Scrape
<1>6. ASSUME Exists(r) PROVE CountedFor(r)'
  <2>1. Accounts(r, n) /\ ~answer[r].ok /\ got[r] = Udid[Item(r)] /\ Mine(r)' = Mine(r)
    BY <1>6, <1>a, <1>n DEF Exists, CountedFor, Storing, Closing, Mine
  <2>2. CASE Known(r) /\ answer' = [answer EXCEPT ![r].skipped = @ \cup {pos[r]}] /\ Advance(r)
    <3>1. /\ answer'[r] = [answer[r] EXCEPT !.skipped = @ \cup {n + 1}]
          /\ pc'[r] = "item" /\ pos'[r] - 1 = n + 1
      BY <1>a, <1>n, <2>2 DEF Advance, AnswerTypes, PlaceTypes
    <3>2. Accounts(r, n + 1)' /\ ~answer'[r].ok
      BY <2>1, <3>1, Counting
    <3>3. answer'[r].skipped = answer[r].skipped \cup {n + 1}
      BY <1>a, <3>1 DEF AnswerTypes, Answers
    <3>4. Repeated(r, n + 1)
      BY <1>n, <2>1, <2>2 DEF Known, Repeated, Item
    <3>5. \A k \in answer'[r].skipped : Repeated(r, k)'
      BY <1>6, <1>a, <3>3, <3>4 DEF Exists, CountedFor, Repeated
    <3> QED
      BY <3>1, <3>2, <3>5 DEF CountedFor, Before, Storing, Closing
  <2>3. CASE Goes(r, "insert") /\ UNCHANGED <<pos, answer>>
    BY <1>6, <1>a, <1>c, <1>n, <2>1, <2>3
       DEF Exists, CountedFor, PlaceTypes, Before, Storing, Closing
  <2> QED BY <1>6, <2>2, <2>3 DEF Exists
<1>7. ASSUME Insert(r) PROVE CountedFor(r)'
  <2>1. Accounts(r, n) /\ ~answer[r].ok
    BY <1>7, <1>a, <1>n DEF Insert, CountedFor, Storing, Closing
  <2>2. CASE Accept(r)
    <3>1. /\ answer'[r] = [answer[r] EXCEPT !.accepted = @ + 1]
          /\ pc'[r] = "item" /\ pos'[r] - 1 = n + 1
          /\ Row(r).by = r /\ Row(r).at = n + 1
      BY <1>a, <1>n, <2>2 DEF Accept, Advance, Row, AnswerTypes, PlaceTypes
    <3>2. PICK m : m = Row(r)
      OBVIOUS
    <3>3. Mine(r)' = Mine(r) \cup {m}
      BY <2>2, <3>1, <3>2 DEF Accept, Mine
    <3>4. Accounts(r, n + 1)' /\ ~answer'[r].ok /\ answer'[r].skipped = answer[r].skipped
      BY <2>1, <3>1, <3>2, <3>3, CountingStored
    <3>5. \A k \in answer'[r].skipped : Repeated(r, k)'
      BY <1>7, <1>a, <2>2, <3>4 DEF Insert, Accept, CountedFor, Repeated
    <3> QED
      BY <3>1, <3>4, <3>5 DEF CountedFor, Before, Storing, Closing
  <2>3. CASE Goes(r, "release") /\ UNCHANGED <<nominations, answer, pos>>
    BY <1>7, <1>a, <1>c, <2>1, <2>3 DEF Insert, CountedFor, PlaceTypes, Before, Storing, Closing
  <2> QED BY <1>7, <2>2, <2>3 DEF Insert
<1>8. ASSUME Release(r) \/ Delete(r) PROVE CountedFor(r)'
  <2>1. UNCHANGED <<nominations, answer, batch>> /\ pc[r] \in Closing
        /\ pc'[r] \in {"delete", "answered"}
    BY <1>8, <1>a DEF Release, Delete, End, PlaceTypes, Closing
  <2> QED
    BY <1>a, <1>c, <2>1 DEF CountedFor, Before, Storing, Closing
<1> QED
  BY <1>b, <1>1, <1>2, <1>4, <1>5, <1>6, <1>7, <1>8 DEF Submit

LEMMA CountedStep == TInv /\ Counted /\ [Next]_vars => Counted'
<1> SUFFICES ASSUME TInv, Counted, [Next]_vars PROVE Counted'
  OBVIOUS
<1> USE DEF request
<1>1. ASSUME UNCHANGED <<request, nominations>> PROVE Counted'
  BY <1>1, CountKept DEF Counted
<1>2. ASSUME NEW r \in Requests, Submit(r) PROVE Counted'
  BY <1>2, SubmitCounted
<1>3. ASSUME NEW r \in Requests, Crash(r) PROVE Counted'
  <2>1. /\ pc' = [pc EXCEPT ![r] = "crashed"] /\ answer' = [answer EXCEPT ![r] = NoAnswer]
        /\ pos' = [pos EXCEPT ![r] = 1] /\ got' = [got EXCEPT ![r] = None]
        /\ UNCHANGED <<batch, nominations>>
    BY <1>3 DEF Crash, End, Goes
  <2>2. PlaceTypes /\ AnswerTypes
    BY TypeParts DEF TInv
  <2>3. CountedFor(r)'
    BY <2>1, <2>2 DEF CountedFor, PlaceTypes, AnswerTypes, NoAnswer, Before, Storing, Closing
  <2>4. ASSUME NEW q \in Requests \ {r} PROVE CountedFor(q)'
    <3>1. pc'[q] = pc[q] /\ pos'[q] = pos[q] /\ got'[q] = got[q] /\ answer'[q] = answer[q]
      BY <2>1, <2>2 DEF PlaceTypes, AnswerTypes
    <3> QED BY <2>1, <3>1, CountKept DEF Counted
  <2> QED BY <2>3, <2>4 DEF Counted
<1>4. ASSUME NEW v \in Voters, Expire(v) PROVE Counted'
  BY <1>1, <1>4 DEF Expire
<1>5. CASE SeasonTurns
  BY <1>1, <1>5 DEF SeasonTurns
<1>6. ASSUME Backstage PROVE Counted'
  BY <1>1, <1>6 DEF Backstage
<1>7. ASSUME NEW n \in nominations, NEW ok \in BOOLEAN, Review(n, ok) PROVE Counted'
  BY <1>6, <1>7 DEF Review
<1>8. CASE ClearCache \/ Ask \/ Query \/ Store \/ CacheEnds
  BY <1>6, <1>8 DEF ClearCache, Ask, Query, Store, CacheEnds
<1>9. CASE UNCHANGED vars
  BY <1>1, <1>9 DEF vars
<1> QED
  BY <1>2, <1>3, <1>4, <1>5, <1>7, <1>8, <1>9 DEF Next

(* What a voter is told of a submit that went through is true: the number  *)
(* stored, every item accounted for, a repetition skipped for one that is  *)
(* there.                                                                  *)
THEOREM AnswersHold == Spec => []AnswersAreTrue
<1>1. Counted => AnswersAreTrue
  BY DEF Counted, CountedFor, Accounts, Mine, Repeated, Closing, AnswersAreTrue
<1> QED
  BY InitTypes, InitCounted, TypesStep, CountedStep, <1>1, PTL DEF Spec

-----------------------------------------------------------------------------
(* The public list. *)

(* Who has nominated the work with an id. *)
VotersOf(id) == {n.voter : n \in {m \in nominations : m.udid = id}}

Countable(list) ==
  \A e \in list : e.count \in Nat /\ e.count <= Cardinality(VotersOf(e.udid))

Public ==
  /\ IsFiniteSet(nominations)
  /\ reader = "store" => Countable(read)
  /\ cached # None => Countable(cached)

(* The voters of finitely many rows, and of more rows. *)
LEMMA VotersGrow ==
  ASSUME NEW S, NEW T, IsFiniteSet(T), S \subseteq T
  PROVE  /\ IsFiniteSet({n.voter : n \in T})
         /\ Cardinality({n.voter : n \in S}) \in Nat
         /\ Cardinality({n.voter : n \in S}) <= Cardinality({n.voter : n \in T})
<1> DEFINE V == {n.voter : n \in T}
           f == [n \in T |-> n.voter]
<1>1. f \in Surjection(T, V)
  BY DEF Surjection
<1>2. IsFiniteSet(V)
  BY <1>1, FS_Surjection
<1>3. {n.voter : n \in S} \in SUBSET V
  OBVIOUS
<1> QED BY <1>2, <1>3, FS_Subset, FS_CardinalityType

LEMMA InitPublic == Init => Public
  BY FS_EmptySet DEF Init, Public

(* More nominations keep a list within its count. *)
LEMMA StillCountable ==
  ASSUME NEW list, Countable(list), IsFiniteSet(nominations), IsFiniteSet(nominations'),
         nominations \subseteq nominations'
  PROVE  \A e \in list : e.count \in Nat /\ e.count <= Cardinality(VotersOf(e.udid)')
<1> TAKE e \in list
<1> DEFINE S == {m \in nominations : m.udid = e.udid}
           T == {m \in nominations' : m.udid = e.udid}
<1>1. IsFiniteSet(S) /\ IsFiniteSet(T) /\ S \subseteq T
  BY FS_Subset
<1>2. e.count \in Nat /\ e.count <= Cardinality({n.voter : n \in S})
  BY DEF Countable, VotersOf
<1>3. /\ IsFiniteSet({n.voter : n \in T})
      /\ Cardinality({n.voter : n \in S}) \in Nat
      /\ Cardinality({n.voter : n \in S}) <= Cardinality({n.voter : n \in T})
  BY <1>1, VotersGrow
<1>4. Cardinality({n.voter : n \in T}) \in Nat
  BY <1>3, FS_CardinalityType
<1>5. e.count <= Cardinality({n.voter : n \in T})
  BY <1>2, <1>3, <1>4
<1> QED BY <1>2, <1>5 DEF VotersOf

(* What the query returns is within the count of the table. *)
LEMMA QueryCounts ==
  ASSUME TInv, IsFiniteSet(nominations)
  PROVE  Countable(Approved)
<1> SUFFICES ASSUME NEW id
             PROVE  /\ Entry(id).count \in Nat
                    /\ Entry(id).count <= Cardinality(VotersOf(Entry(id).udid))
  BY DEF Approved, Countable
<1>1. Entry(id).udid = id /\ Entry(id).count = Cardinality({n.voter : n \in Group(id)})
  BY DEF Entry
<1>2. Group(id) \subseteq {m \in nominations : m.udid = id}
  BY DEF TInv, TypeOK, Group
<1>3. IsFiniteSet({m \in nominations : m.udid = id})
  BY FS_Subset
<1> QED BY <1>1, <1>2, <1>3, VotersGrow DEF VotersOf

LEMMA PublicStep == TInv /\ Public /\ [Next]_vars => Public'
<1> SUFFICES ASSUME TInv, Public, [Next]_vars PROVE Public'
  OBVIOUS
<1>1. ASSUME IsFiniteSet(nominations'), nominations \subseteq nominations', UNCHANGED public
      PROVE  Public'
  BY <1>1, StillCountable DEF Public, public, Countable
<1>2. ASSUME NEW r \in Requests, Submit(r) \/ Crash(r) PROVE Public'
  <2>1. UNCHANGED public
    BY <1>2 DEF Submit, Acquire, Validate, RestArchive, Archive, BeginItem, Scrape, Exists,
                Insert, Release, Delete, Crash, Elsewhere
  <2>2. UNCHANGED nominations \/ nominations' = nominations \cup {Row(r)}
    BY <1>2 DEF Submit, Acquire, Validate, RestArchive, Archive, BeginItem, Scrape, Exists,
                Insert, Accept, Release, Delete, Crash
  <2>3. IsFiniteSet(nominations')
    BY <2>2, FS_AddElement DEF Public
  <2> QED BY <1>1, <2>1, <2>2, <2>3
<1>3. ASSUME NEW v \in Voters, Expire(v) PROVE Public'
  BY <1>1, <1>3 DEF Expire, Public
<1>4. CASE SeasonTurns
  BY <1>1, <1>4 DEF SeasonTurns, Public
<1>5. ASSUME NEW n \in nominations, NEW ok \in BOOLEAN, Review(n, ok) PROVE Public'
  BY <1>1, <1>5 DEF Review, Backstage, Public
<1>6. ASSUME ClearCache \/ Ask \/ CacheEnds PROVE Public'
  BY <1>6 DEF ClearCache, Ask, CacheEnds, Backstage, Public, Countable, VotersOf
<1>7. CASE Query
  BY <1>7, QueryCounts DEF Query, Backstage, Public, Countable, VotersOf
<1>8. CASE Store
  BY <1>8 DEF Store, Backstage, Public, Countable, VotersOf
<1>9. CASE UNCHANGED vars
  BY <1>1, <1>9 DEF vars, Public
<1> QED
  BY <1>2, <1>3, <1>4, <1>5, <1>6, <1>7, <1>8, <1>9 DEF Next

(* The public count of a work, however stale, is at most the number of     *)
(* voters who have nominated it.                                           *)
THEOREM PublicCountsHold == Spec => []CountsVoters
<1>1. Public => CountsVoters
  BY DEF Public, Countable, VotersOf, CountsVoters
<1> QED
  BY InitTypes, InitPublic, TypesStep, PublicStep, <1>1, PTL DEF Spec
=============================================================================
