-------------------------- MODULE CatalogueProofs --------------------------
(***************************************************************************)
(* However an upload mixes ids, old ids and names, it never gives one old  *)
(* id to two voteables - if no other upload commits between its reads and  *)
(* its commit. The edits that may do so leave the old ids alone.           *)
(*                                                                         *)
(* A cached answer that differs from what is committed has a cause the     *)
(* code accepts, or a clear that is still to come: for any number of       *)
(* importers, editors and readers.                                         *)
(*                                                                         *)
(* A request for a constraint is answered with the voters its own words    *)
(* describe.  Normalizing never changes what a query means, by induction   *)
(* on the depth of the tree, and an entry is right for every query with    *)
(* its fingerprint.  No current entry is older than the main results, and  *)
(* no counter of the budget lives for ever unless a request died for it.   *)
(***************************************************************************)
EXTENDS Catalogue, Search, FiniteSetTheorems, FunctionTheorems, WellFoundedInduction, TLAPS

Administrators == Importers \cup Editors
Tables == [VIds -> Voteables \cup {None}]
Partial(K) == UNION {[D -> VIds] : D \in SUBSET K}

Planning == [at : {"plan"}, batch : Batches,
             ix : [seen : Tables, byName : Partial(Names), byOld : Partial(OldIds),
                   works : SUBSET Works]]

(* The old ids an import read are those of the table. *)
StillAsRead(seen) ==
  \A v \in VIds : /\ seen[v] = None <=> voteables[v] = None
                  /\ voteables[v] # None => seen[v].old = voteables[v].old

PlanFits(p) ==
  job[p].at = "plan" =>
    /\ p \in Importers
    /\ job[p].ix.byOld \in Indexes(job[p].ix.seen, "old")
    /\ StillAsRead(job[p].ix.seen)

Sound ==
  /\ voteables \in Tables /\ works \subseteq Works
  /\ job \in [Administrators -> {Idle, Clearing} \cup Planning]
  /\ \A p \in Administrators : PlanFits(p)
  /\ WhitelistBuildable

(* A non-empty set of positions of a sequence has a last one. *)
LEMMA LastPosition ==
  ASSUME NEW n \in Nat, NEW I \in SUBSET (1..n), I # {}
  PROVE  \E i \in I : \A j \in I : j <= i
  <1> DEFINE Above(i) == (i + 1)..n
             T == {Above(i) : i \in I}
             less == StrictSubsetOrdering(0..n + 1)
  <1>1. IsWellFoundedOn(less, FiniteSubsetsOf(0..n + 1))
    BY FS_Interval, FS_StrictSubsetOrderingWellFounded
  <1>2. T \subseteq FiniteSubsetsOf(0..n + 1) /\ T # {}
    <2>1. \A i \in I : Above(i) \subseteq 0..n + 1 /\ IsFiniteSet(Above(i))
      BY FS_Interval
    <2> QED BY <2>1 DEF FiniteSubsetsOf
  <1>3. PICK S \in T : \A R \in T : <<R, S>> \notin less
    <2> HIDE DEF T, less
    <2> QED BY <1>1, <1>2, WFMin
  <1>4. PICK i \in I : S = Above(i)
    BY <1>3
  <1>5. ASSUME NEW j \in I, i < j PROVE FALSE
    <2>1. Above(j) \subseteq Above(i) /\ j \in Above(i) /\ j \notin Above(j)
      BY <1>5
    <2>2. Above(j) \in T /\ Above(i) \in T
      OBVIOUS
    <2>3. <<Above(j), Above(i)>> \in less
      BY <2>1, <2>2, <1>2 DEF StrictSubsetOrdering, FiniteSubsetsOf
    <2> QED BY <1>3, <1>4, <2>2, <2>3
  <1> QED BY <1>5

(* The positions of an upload, and the keys of a row. *)
LEMMA BatchShape ==
  ASSUME CatalogueAssumption, NEW b \in Batches
  PROVE  /\ Len(b) \in Nat /\ DOMAIN b = 1..Len(b)
         /\ \A i \in DOMAIN b : b[i] \in Row
  BY DEF CatalogueAssumption

(* What a column holds afterwards comes from a row, or was there before. *)
LEMMA WrittenComesFrom ==
  ASSUME CatalogueAssumption, NEW b \in Batches, NEW field, NEW v, NEW target, NEW ix
  PROVE  \/ \E i \in DOMAIN b : /\ target[i] = v /\ b[i][field] # None
                                /\ Written(field, v, b, target, ix) = b[i][field]
         \/ Written(field, v, b, target, ix)
              = IF voteables[v] = None THEN None ELSE voteables[v][field]
  <1> DEFINE givers == {i \in DOMAIN b : target[i] = v /\ b[i][field] # None}
             earlier == IF ix.seen[v] = None THEN None ELSE ix.seen[v][field]
  <1>1. CASE \A i \in givers : b[i][field] = earlier
    BY <1>1, Zenon DEF Written
  <1>2. CASE ~ \A i \in givers : b[i][field] = earlier
    <2>1. \E i \in givers : \A j \in givers : j <= i
      <3>1. givers \in SUBSET (1..Len(b)) /\ givers # {} /\ Len(b) \in Nat
        BY <1>2, BatchShape
      <3> QED BY <3>1, LastPosition
    <2> DEFINE last == CHOOSE i \in givers : \A j \in givers : j <= i
    <2>2. last \in givers
      BY <2>1, Zenon
    <2>3. Written(field, v, b, target, ix) = b[last][field]
      BY <1>2, Zenon DEF Written
    <2> QED BY <2>2, <2>3, Zenon
  <1> QED BY <1>1, <1>2

(* Where an upload's rows go: new ids for the new rows, else what they match. *)
Directs(target, b, ix) ==
  \A i \in DOMAIN b : Match(b[i], ix) # None => target[i] = Match(b[i], ix)

(* A row that carries an old id some voteable has goes to that voteable.     *)
LEMMA RowFollowsOldId ==
  ASSUME CatalogueAssumption, NEW b \in Batches, NEW ix, NEW i \in DOMAIN b, NEW w \in VIds,
         ~Conflicts(b, ix), ix.byOld \in Indexes(ix.seen, "old"),
         OldIdsDiffer(voteables), StillAsRead(ix.seen),
         voteables[w] # None, voteables[w].old # None, b[i].old = voteables[w].old
  PROVE  Match(b[i], ix) = w
  <1> DEFINE o == b[i].old
             ids == {v \in VIds : ix.seen[v] # None}
             keys == {ix.seen[v].old : v \in ids} \ {None}
  <1>1. w \in ids /\ ix.seen[w].old = o
    BY DEF StillAsRead
  <1>2. o \in keys
    BY <1>1
  <1>3. ix.byOld \in [keys -> ids] /\ \A k \in keys : ix.seen[ix.byOld[k]].old = k
    BY Zenon DEF Indexes
  <1>4. o \in DOMAIN ix.byOld /\ ix.byOld[o] \in ids /\ ix.seen[ix.byOld[o]].old = o
    BY <1>2, <1>3
  <1>5. ix.byOld[o] = w
    <2>1. ix.byOld[o] \in VIds /\ voteables[ix.byOld[o]] # None /\ voteables[ix.byOld[o]].old = o
      BY <1>4, Zenon DEF StillAsRead
    <2> HIDE DEF o
    <2> QED BY <2>1, Zenon DEF OldIdsDiffer, o
  <1>6. ~Contradicts(b[i], ix)
    BY Zenon DEF Conflicts
  <1>7. CASE b[i].vid = None
    BY <1>4, <1>5, <1>7, Zenon DEF Match
  <1>8. CASE b[i].vid # None
    <2>1. b[i].vid = w
      BY <1>4, <1>5, <1>6, <1>8, Zenon DEF Contradicts
    <2> QED BY <1>8, <2>1, Zenon DEF Match
  <1> QED BY <1>7, <1>8

(* The heart of it: an upload without conflicts keeps the old ids apart.     *)
LEMMA MergeKeepsOldIdsApart ==
  ASSUME CatalogueAssumption, NEW b \in Batches, NEW ix, NEW target,
         ~Conflicts(b, ix), ix.byOld \in Indexes(ix.seen, "old"),
         OldIdsDiffer(voteables), StillAsRead(ix.seen), Directs(target, b, ix)
  PROVE  OldIdsDiffer(Merged(b, target, ix))
  <1> DEFINE R == Merged(b, target, ix)
             Gives(i, v, o) == i \in DOMAIN b /\ target[i] = v /\ b[i].old = o
             Had(v, o) == voteables[v] # None /\ voteables[v].old = o
  <1>1. ASSUME NEW v \in VIds, R[v] # None, R[v].old # None
        PROVE  Had(v, R[v].old) \/ \E i \in DOMAIN b : Gives(i, v, R[v].old)
    <2>1. CASE v \notin {target[i] : i \in DOMAIN b}
      <3>1. R[v] = voteables[v]
        BY <2>1 DEF Merged
      <3> QED BY <1>1, <3>1, Zenon
    <2>2. CASE v \in {target[i] : i \in DOMAIN b}
      <3>1. R[v].old = Written("old", v, b, target, ix)
        BY <2>2 DEF Merged
      <3>2. \/ \E i \in DOMAIN b : target[i] = v /\ Written("old", v, b, target, ix) = b[i].old
            \/ Written("old", v, b, target, ix) = IF voteables[v] = None THEN None ELSE voteables[v].old
        BY WrittenComesFrom
      <3> HIDE DEF R
      <3>3. CASE \E i \in DOMAIN b : target[i] = v /\ Written("old", v, b, target, ix) = b[i].old
        BY <3>1, <3>3, Zenon
      <3>4. CASE Written("old", v, b, target, ix) = IF voteables[v] = None THEN None ELSE voteables[v].old
        BY <1>1, <3>1, <3>4, Zenon
      <3> QED BY <3>2, <3>3, <3>4
    <2> QED BY <2>1, <2>2
  <1>2. ASSUME NEW v \in VIds, NEW w \in VIds, NEW o, o # None, NEW i \in DOMAIN b,
               Gives(i, v, o), Had(w, o)
        PROVE  v = w
    <2>1. Match(b[i], ix) = w
      BY <1>2, RowFollowsOldId
    <2>2. w # None
      BY DEF CatalogueAssumption
    <2> QED BY <1>2, <2>1, <2>2, Zenon DEF Directs
  <1>3. ASSUME NEW v \in VIds, NEW w \in VIds, NEW o, o # None,
               NEW i \in DOMAIN b, NEW j \in DOMAIN b, Gives(i, v, o), Gives(j, w, o)
        PROVE  v = w
    <2>1. i = j \/ i < j \/ j < i
      BY BatchShape
    <2>2. ~(i < j) /\ ~(j < i)
      BY <1>3 DEF Conflicts
    <2> QED BY <1>3, <2>1, <2>2
  <1>4. ASSUME NEW v \in VIds, NEW w \in VIds, NEW o, o # None, Had(v, o), Had(w, o)
        PROVE  v = w
    BY <1>4, Zenon DEF OldIdsDiffer
  <1>5. ASSUME NEW v \in VIds, NEW w \in VIds, v # w, R[v] # None, R[w] # None, R[v].old # None,
               R[v].old = R[w].old
        PROVE  FALSE
    <2> HIDE DEF R, Gives, Had
    <2>1. Had(v, R[v].old) \/ \E i \in DOMAIN b : Gives(i, v, R[v].old)
      BY <1>1, <1>5
    <2>2. Had(w, R[v].old) \/ \E i \in DOMAIN b : Gives(i, w, R[v].old)
      BY <1>1, <1>5, Zenon
    <2> QED BY <1>2, <1>3, <1>4, <1>5, <2>1, <2>2, Zenon
  <1> QED BY <1>5, Zenon DEF OldIdsDiffer

(* A step that leaves the old ids as they are. *)
OldIdsKept ==
  /\ voteables' \in Tables /\ works' \subseteq Works
  /\ \A v \in VIds : /\ voteables'[v] = None <=> voteables[v] = None
                     /\ voteables[v] # None => voteables'[v].old = voteables[v].old

LEMMA QuietStep ==
  ASSUME Sound, OldIdsKept,
         \/ job' = job
         \/ \E p \in Administrators, j \in {Idle, Clearing} : job' = [job EXCEPT ![p] = j]
  PROVE  Sound'
  <1>1. job' \in [Administrators -> {Idle, Clearing} \cup Planning]
    BY DEF Sound
  <1>2. ASSUME NEW p \in Administrators PROVE PlanFits(p)'
    <2>1. job'[p] = job[p] \/ job'[p] \in {Idle, Clearing}
      BY DEF Sound
    <2>2. CASE job'[p] \in {Idle, Clearing}
      BY <2>2 DEF PlanFits, Idle, Clearing
    <2>3. CASE job'[p] = job[p]
      <3>1. PlanFits(p)
        BY DEF Sound
      <3>2. ASSUME NEW seen, StillAsRead(seen) PROVE StillAsRead(seen)'
        <4> SUFFICES ASSUME NEW v \in VIds
                     PROVE  /\ seen[v] = None <=> voteables'[v] = None
                            /\ voteables'[v] # None => seen[v].old = voteables'[v].old
          BY Zenon DEF StillAsRead
        <4> QED BY <3>2, Zenon DEF StillAsRead, OldIdsKept
      <3> QED BY <2>3, <3>1, <3>2, Zenon DEF PlanFits
    <2> QED BY <2>1, <2>2, <2>3
  <1>3. WhitelistBuildable'
    BY Zenon DEF Sound, WhitelistBuildable, OldIdsDiffer, OldIdsKept
  <1> QED BY <1>1, <1>2, <1>3 DEF Sound, OldIdsKept

(* Steps that do not touch the table of voteables. *)
LEMMA TableUntouched ==
  ASSUME Sound, UNCHANGED <<voteables, works>>
  PROVE  OldIdsKept
  BY DEF Sound, OldIdsKept

(* One column other than the old id of one existing row. *)
LEMMA ColumnSet ==
  ASSUME CatalogueAssumption, Sound, UNCHANGED works, NEW v \in Existing, NEW x,
         \/ x \in Works \cup {None} /\ voteables' = [voteables EXCEPT ![v].work = x]
         \/ x \in Images \cup {None} /\ voteables' = [voteables EXCEPT ![v].image = x]
  PROVE  OldIdsKept
  <1>1. v \in VIds /\ voteables[v] \in Voteables /\ voteables \in Tables
    BY DEF Existing, Sound, Tables
  <1>2. voteables'[v] \in Voteables /\ voteables'[v].old = voteables[v].old
    BY <1>1 DEF Tables, Voteables
  <1>3. \A w \in VIds : w # v => voteables'[w] = voteables[w]
    BY <1>1 DEF Tables
  <1>4. None \notin Voteables
    BY DEF CatalogueAssumption
  <1>5. voteables' \in Tables
    BY <1>1, <1>2, <1>3 DEF Tables
  <1> QED BY <1>1, <1>2, <1>3, <1>4, <1>5 DEF OldIdsKept, Sound

(* What an upload makes of the rows it writes, and of the table. *)
LEMMA MergedRow ==
  ASSUME CatalogueAssumption, voteables \in Tables, NEW b \in Batches, NEW ix, NEW target,
         NEW v \in VIds, v \in {target[i] : i \in DOMAIN b}
  PROVE  Merged(b, target, ix)[v] \in Voteables
  <1>1. voteables[v] \in Voteables \cup {None}
    BY DEF Tables
  <1>2. \A i \in DOMAIN b : b[i] \in Row
    BY BatchShape
  <1>3. Written("name", v, b, target, ix) \in Names \cup {None}
    <2>1. \A i \in DOMAIN b : b[i].name \in Names \cup {None}
      BY <1>2 DEF Row
    <2>2. voteables[v] # None => voteables[v].name \in Names \cup {None}
      BY <1>1 DEF Voteables
    <2>3. \/ \E i \in DOMAIN b : Written("name", v, b, target, ix) = b[i].name
          \/ Written("name", v, b, target, ix) = IF voteables[v] = None THEN None ELSE voteables[v].name
      BY WrittenComesFrom
    <2> QED BY <2>1, <2>2, <2>3, Zenon
  <1>4. Written("old", v, b, target, ix) \in OldIds \cup {None}
    <2>1. \A i \in DOMAIN b : b[i].old \in OldIds \cup {None}
      BY <1>2 DEF Row
    <2>2. voteables[v] # None => voteables[v].old \in OldIds \cup {None}
      BY <1>1 DEF Voteables
    <2>3. \/ \E i \in DOMAIN b : Written("old", v, b, target, ix) = b[i].old
          \/ Written("old", v, b, target, ix) = IF voteables[v] = None THEN None ELSE voteables[v].old
      BY WrittenComesFrom
    <2> QED BY <2>1, <2>2, <2>3, Zenon
  <1>5. Written("work", v, b, target, ix) \in Works \cup {None}
    <2>1. \A i \in DOMAIN b : b[i].work \in Works \cup {None}
      BY <1>2 DEF Row
    <2>2. voteables[v] # None => voteables[v].work \in Works \cup {None}
      BY <1>1 DEF Voteables
    <2>3. \/ \E i \in DOMAIN b : Written("work", v, b, target, ix) = b[i].work
          \/ Written("work", v, b, target, ix) = IF voteables[v] = None THEN None ELSE voteables[v].work
      BY WrittenComesFrom
    <2> QED BY <2>1, <2>2, <2>3, Zenon
  <1> QED BY <1>1, <1>3, <1>4, <1>5 DEF Merged, Voteables

LEMMA MergedIsATable ==
  ASSUME CatalogueAssumption, voteables \in Tables, NEW b \in Batches, NEW ix, NEW target
  PROVE  Merged(b, target, ix) \in Tables
  <1> SUFFICES ASSUME NEW v \in VIds PROVE Merged(b, target, ix)[v] \in Voteables \cup {None}
    BY DEF Merged, Tables
  <1>1. v \notin {target[i] : i \in DOMAIN b} => Merged(b, target, ix)[v] = voteables[v]
    BY Zenon DEF Merged
  <1> QED BY <1>1, MergedRow DEF Tables

(* What an import has read is a plan. *)
LEMMA PlansAreTyped ==
  ASSUME CatalogueAssumption, voteables \in Tables, works \subseteq Works, NEW b \in Batches,
         NEW n \in Indexes(voteables, "name"), NEW o \in Indexes(voteables, "old")
  PROVE  [at |-> "plan", batch |-> b,
          ix |-> [seen |-> voteables, byName |-> n, byOld |-> o, works |-> works]] \in Planning
<1>1. ASSUME NEW f, NEW S, \A v \in VIds : voteables[v] # None => voteables[v][f] \in S \cup {None},
             NEW g \in Indexes(voteables, f)
      PROVE  g \in Partial(S)
  <2> DEFINE ids  == {v \in VIds : voteables[v] # None}
             keys == {voteables[v][f] : v \in ids} \ {None}
  <2>1. g \in [keys -> ids]
    BY DEF Indexes
  <2>2. keys \in SUBSET S /\ ids \subseteq VIds
    BY <1>1
  <2> HIDE DEF keys, ids
  <2>3. g \in [keys -> VIds]
    BY <2>1, <2>2
  <2> QED BY <2>2, <2>3 DEF Partial
<1>2. \A v \in VIds : voteables[v] # None =>
        voteables[v].name \in Names \cup {None} /\ voteables[v].old \in OldIds \cup {None}
  BY DEF Tables, Voteables
<1>3. n \in Partial(Names)
  BY <1>1, <1>2
<1>4. o \in Partial(OldIds)
  BY <1>1, <1>2
<1> QED BY <1>3, <1>4 DEF Planning

(* Reading the indexes: what was read is what is there. *)
LEMMA ReadingFits ==
  ASSUME CatalogueAssumption, Sound, NEW p \in Importers, ImportRead(p)
  PROVE  Sound'
  <1>1. PICK b \in Batches, n \in Indexes(voteables, "name"), o \in Indexes(voteables, "old") :
          job' = [job EXCEPT ![p] = [at |-> "plan", batch |-> b,
                                     ix |-> [seen |-> voteables, byName |-> n,
                                             byOld |-> o, works |-> works]]]
    BY DEF ImportRead
  <1> DEFINE plan == [at |-> "plan", batch |-> b,
                      ix |-> [seen |-> voteables, byName |-> n, byOld |-> o, works |-> works]]
  <1>2. job'[p] = plan /\ \A q \in Administrators : q # p => job'[q] = job[q]
    BY <1>1 DEF Sound, Administrators
  <1>3. plan \in Planning
    BY PlansAreTyped DEF Sound
  <1>4. job' \in [Administrators -> {Idle, Clearing} \cup Planning]
    BY <1>1, <1>3 DEF Sound, Administrators
  <1>5. ASSUME NEW q \in Administrators PROVE PlanFits(q)'
    <2>1. UNCHANGED voteables
      BY DEF ImportRead
    <2>2. CASE q = p
      BY <1>2, <2>1, <2>2 DEF PlanFits, StillAsRead
    <2>3. CASE q # p
      BY <1>2, <2>1, <2>3 DEF Sound, PlanFits, StillAsRead
    <2> QED BY <2>2, <2>3
  <1> QED BY <1>4, <1>5 DEF ImportRead, Sound, WhitelistBuildable

(* The commit of the one import there is. *)
LEMMA CommitKeepsOldIdsApart ==
  ASSUME CatalogueAssumption, OneImporter, Sound, NEW p \in Importers, ImportCommit(p)
  PROVE  Sound'
  <1> DEFINE b == job[p].batch
             ix == job[p].ix
             made == {i \in DOMAIN b : Match(b[i], ix) = None}
  <1>1. job[p] \in Planning /\ job[p].at = "plan" /\ p \in Administrators
    BY DEF ImportCommit, Sound, Administrators, Idle, Clearing
  <1>2. b \in Batches
    BY <1>1 DEF Planning
  <1>3. ix.byOld \in Indexes(ix.seen, "old") /\ StillAsRead(ix.seen)
    BY <1>1 DEF Sound, PlanFits
  <1>4. ~Conflicts(b, ix)
    BY DEF ImportCommit
  <1>5. PICK fresh \in [made -> VIds \ Existing] :
          voteables' = Merged(b, [i \in DOMAIN b |->
                                    IF i \in made THEN fresh[i] ELSE Match(b[i], ix)], ix)
    BY DEF ImportCommit
  <1> DEFINE target == [i \in DOMAIN b |-> IF i \in made THEN fresh[i] ELSE Match(b[i], ix)]
  <1>6. Directs(target, b, ix)
    BY DEF Directs
  <1>7. job' = [job EXCEPT ![p] = Clearing]
    BY DEF ImportCommit
  <1> HIDE DEF b, ix, made, target
  <1>8. voteables' \in Tables
    <2>1. voteables \in Tables
      BY DEF Sound
    <2> QED BY <1>2, <1>5, <2>1, MergedIsATable, Zenon DEF target
  <1>9. OldIdsDiffer(voteables')
    <2>1. OldIdsDiffer(voteables)
      BY DEF Sound, WhitelistBuildable
    <2> QED BY <1>2, <1>3, <1>4, <1>5, <1>6, <2>1, MergeKeepsOldIdsApart, Zenon DEF target
  <1>10. WhitelistBuildable'
    BY <1>9, Zenon DEF WhitelistBuildable
  <1>13. works' \subseteq Works
    <2>1. \A i \in DOMAIN b : b[i].work \in Works \cup {None}
      BY <1>2, BatchShape DEF Row
    <2>2. works' = works \cup ({b[i].work : i \in DOMAIN b} \ (ix.works \cup {None}))
      BY DEF ImportCommit, b, ix
    <2> QED BY <2>1, <2>2 DEF Sound
  <1>11. job' \in [Administrators -> {Idle, Clearing} \cup Planning]
    BY <1>1, <1>7 DEF Sound
  <1>12. ASSUME NEW q \in Administrators PROVE PlanFits(q)'
    <2>1. CASE q = p
      BY <1>1, <1>7, <2>1 DEF Sound, PlanFits, Clearing
    <2>2. CASE q # p
      <3>1. job'[q] = job[q]
        BY <1>7, <2>2 DEF Sound
      <3>2. job[q].at # "plan"
        BY <2>2 DEF OneImporter, Sound, PlanFits
      <3> QED BY <3>1, <3>2 DEF PlanFits
    <2> QED BY <2>1, <2>2
  <1> QED BY <1>8, <1>10, <1>11, <1>12, <1>13 DEF Sound

LEMMA NextIsSound ==
  ASSUME CatalogueAssumption, OneImporter, Sound, [Next]_vars
  PROVE  Sound'
  <1> USE DEF Administrators
  <1>1. ASSUME NEW p \in Importers, Import(p) PROVE Sound'
    <2>1. CASE ImportRead(p)
      BY <2>1, ReadingFits
    <2>2. CASE ImportEndsEarly(p)
      BY <2>2, TableUntouched, QuietStep DEF ImportEndsEarly
    <2>3. CASE ImportCommit(p)
      BY <2>3, CommitKeepsOldIdsApart
    <2> QED BY <1>1, <2>1, <2>2, <2>3 DEF Import
  <1>2. ASSUME NEW e \in Editors, Edit(e) PROVE Sound'
    <2>1. job' = [job EXCEPT ![e] = Clearing]
      BY <1>2 DEF Edit, UpsertCandidates, UpdateCandidate, DeleteCandidate, UpdateVoteableWork,
                  UpdateVoteableResources, MergeCandidate, WorkRoute, CreateWork, ChangeWork, Committed
    <2>5. UNCHANGED works
      BY <1>2 DEF Edit, UpsertCandidates, UpdateCandidate, DeleteCandidate, UpdateVoteableWork,
                  UpdateVoteableResources, MergeCandidate, WorkRoute, CreateWork, ChangeWork, Committed
    <2>2. CASE UpdateVoteableWork(e)
      <3>1. PICK v \in Existing, w \in works \cup {None} : voteables' = [voteables EXCEPT ![v].work = w]
        BY <2>2 DEF UpdateVoteableWork
      <3> QED BY <2>1, <2>5, <3>1, ColumnSet, QuietStep DEF Sound
    <2>3. CASE UpdateVoteableResources(e)
      <3>1. PICK v \in Existing, u \in Images \cup {None} : voteables' = [voteables EXCEPT ![v].image = u]
        BY <2>3 DEF UpdateVoteableResources
      <3> QED BY <2>1, <2>5, <3>1, ColumnSet, QuietStep DEF Sound
    <2>4. CASE UNCHANGED voteables
      BY <2>1, <2>4, <2>5, TableUntouched, QuietStep
    <2> QED BY <1>2, <2>2, <2>3, <2>4 DEF Edit, UpsertCandidates, UpdateCandidate,
               DeleteCandidate, MergeCandidate, WorkRoute, CreateWork, ChangeWork
  <1>3. ASSUME NEW p \in Administrators, Clear(p) PROVE Sound'
    BY <1>3, TableUntouched, QuietStep DEF Clear
  <1>4. CASE ImportResources
    <2>1. PICK name \in Names, u \in Images, f \in Indexes(voteables, "name") :
            name \in DOMAIN f /\ voteables' = [voteables EXCEPT ![f[name]].image = u]
      BY <1>4 DEF ImportResources
    <2>2. f[name] \in Existing
      BY <2>1 DEF Indexes, Existing
    <2> QED BY <1>4, <2>1, <2>2, ColumnSet, QuietStep DEF ImportResources
  <1>5. ASSUME NEW r \in Readers, Read(r) PROVE Sound'
    BY <1>5, TableUntouched, QuietStep DEF Read, LoadPage, StorePage, LosePage
  <1>6. ASSUME NEW k \in Keys, PageExpires(k) PROVE Sound'
    BY <1>6, TableUntouched, QuietStep DEF PageExpires
  <1>7. CASE FlushCache
    BY <1>7, TableUntouched, QuietStep DEF FlushCache
  <1>8. CASE UNCHANGED vars
    BY <1>8, TableUntouched, QuietStep DEF vars
  <1> QED BY <1>1, <1>2, <1>3, <1>4, <1>5, <1>6, <1>7, <1>8 DEF Next

(* voteable_import_service.py _match_row and _build_plan: with one upload at  *)
(* a time no two voteables ever carry one old id, so the whitelist of the     *)
(* count can always be built - for any table, any uploads, any number of      *)
(* editors and readers beside them.                                           *)
THEOREM OldIdsStayApart ==
  ASSUME CatalogueAssumption, OneImporter
  PROVE  Spec => []WhitelistBuildable
  <1>1. ASSUME Init PROVE Sound
    <2>1. voteables \in Tables /\ OldIdsDiffer(voteables)
      BY <1>1 DEF Init, CatalogueAssumption, Tables
    <2>2. works \subseteq Works
      <3>1. \A v \in Existing : voteables[v].work \in Works \cup {None}
        BY <2>1 DEF Existing, Tables, Voteables
      <3>2. works = {voteables[v].work : v \in Existing} \ {None}
        BY <1>1 DEF Init
      <3> QED BY <3>1, <3>2
    <2>3. job = [p \in Administrators |-> Idle]
      BY <1>1 DEF Init, Administrators
    <2> QED BY <2>1, <2>2, <2>3 DEF Sound, WhitelistBuildable, PlanFits, Idle
  <1>2. Sound /\ [Next]_vars => Sound'
    BY NextIsSound
  <1>3. Sound => WhitelistBuildable
    BY DEF Sound
  <1> QED BY <1>1, <1>2, <1>3, PTL DEF Spec

----
(* Types, for any number of uploads.                                         *)

(* A plan was made from rows that are still there, by indexes over them. *)
PlanStands(p) ==
  job[p].at = "plan" =>
    LET ix == job[p].ix IN
      /\ ix.byOld \in Indexes(ix.seen, "old") /\ ix.byName \in Indexes(ix.seen, "name")
      /\ \A v \in VIds : ix.seen[v] # None => voteables[v] # None

AllNamed(rows) == \A v \in VIds : rows[v] # None => rows[v].name # None

RowTypes ==
  /\ voteables \in Tables /\ works \subseteq Works
  /\ AllNamed(voteables)
  /\ job \in [Administrators -> {Idle, Clearing} \cup Planning]
  /\ \A p \in Administrators : PlanStands(p)

ListTypes ==
  /\ candidates \in [CIds -> VIds \cup {None}] /\ usedCids \subseteq CIds
  /\ acked \subseteq Works /\ blemish \subseteq Keys /\ commits \in 0..MaxCommits
  /\ held = [r \in Readers |-> held[r]]
  /\ \A r \in Readers : held[r] # None => held[r].key \in Keys

(* Rows are added and edited, never removed, and none loses its name. *)
RowsStay ==
  /\ voteables' \in Tables /\ works' \subseteq Works
  /\ AllNamed(voteables')
  /\ \A v \in VIds : voteables[v] # None => voteables'[v] # None

LEMMA RowsStayTyped ==
  ASSUME RowTypes, RowsStay,
         \/ job' = job
         \/ \E p \in Administrators, j \in {Idle, Clearing} : job' = [job EXCEPT ![p] = j]
  PROVE  RowTypes'
<1>1. job' \in [Administrators -> {Idle, Clearing} \cup Planning]
  BY DEF RowTypes
<1>2. ASSUME NEW p \in Administrators PROVE PlanStands(p)'
  <2>1. job'[p] = job[p] \/ job'[p] \in {Idle, Clearing}
    BY DEF RowTypes
  <2>2. CASE job'[p] \in {Idle, Clearing}
    BY <2>2 DEF PlanStands, Idle, Clearing
  <2>3. CASE job'[p] = job[p]
    <3>1. PlanStands(p)
      BY DEF RowTypes
    <3> QED BY <2>3, <3>1, Zenon DEF PlanStands, RowsStay
  <2> QED BY <2>1, <2>2, <2>3
<1>3. AllNamed(voteables)'
  BY Zenon DEF RowsStay, AllNamed
<1> QED BY <1>1, <1>2, <1>3 DEF RowTypes, RowsStay

LEMMA SameRows ==
  ASSUME RowTypes, UNCHANGED <<voteables, works>>
  PROVE  RowsStay
BY DEF RowTypes, RowsStay

LEMMA ColumnKeepsRows ==
  ASSUME CatalogueAssumption, RowTypes, UNCHANGED works, NEW v \in Existing, NEW x,
         \/ x \in Works \cup {None} /\ voteables' = [voteables EXCEPT ![v].work = x]
         \/ x \in Images \cup {None} /\ voteables' = [voteables EXCEPT ![v].image = x]
  PROVE  RowsStay
<1>1. v \in VIds /\ voteables[v] \in Voteables /\ voteables \in Tables
  BY DEF Existing, RowTypes, Tables
<1>2. voteables'[v] \in Voteables /\ voteables'[v].name = voteables[v].name
  BY <1>1 DEF Tables, Voteables
<1>3. \A w \in VIds : w # v => voteables'[w] = voteables[w]
  BY <1>1 DEF Tables
<1>4. None \notin Voteables
  BY DEF CatalogueAssumption
<1>5. voteables' \in Tables
  BY <1>1, <1>2, <1>3 DEF Tables
<1> QED BY <1>1, <1>2, <1>3, <1>4, <1>5 DEF RowsStay, RowTypes, AllNamed

(* A row that matches goes to a row the import has seen. *)
LEMMA MatchesSeen ==
  ASSUME NEW b, NEW ix, NEW i \in DOMAIN b, ~ Conflicts(b, ix), Match(b[i], ix) # None,
         b[i].vid \in VIds \cup {None},
         ix.byOld \in Indexes(ix.seen, "old"), ix.byName \in Indexes(ix.seen, "name")
  PROVE  Match(b[i], ix) \in VIds /\ ix.seen[Match(b[i], ix)] # None
<1> DEFINE ids == {v \in VIds : ix.seen[v] # None}
<1>1. ~ Contradicts(b[i], ix)
  BY Zenon DEF Conflicts
<1>2. ASSUME NEW f, NEW g \in Indexes(ix.seen, f), NEW k \in DOMAIN g PROVE g[k] \in ids
  <2> DEFINE keys == {ix.seen[v][f] : v \in ids} \ {None}
  <2>1. g \in [keys -> ids]
    BY Zenon DEF Indexes
  <2> HIDE DEF keys, ids
  <2> QED BY <2>1
<1>3. CASE b[i].vid # None
  BY <1>1, <1>3, Zenon DEF Match, Contradicts
<1>4. CASE b[i].vid = None
  <2>1. Match(b[i], ix) \in ids
    <3> HIDE DEF ids
    <3> QED BY <1>2, <1>4, Zenon DEF Match
  <2> QED BY <2>1
<1> QED BY <1>3, <1>4

(* An upload gives every new row a name and takes none from the others. *)
LEMMA MergeKeepsNames ==
  ASSUME CatalogueAssumption, AllNamed(voteables), NEW b \in Batches, NEW ix, NEW target,
         \A v \in VIds : ix.seen[v] # None => voteables[v] # None,
         \A i \in DOMAIN b : voteables[target[i]] = None => b[i].name # None
  PROVE  AllNamed(Merged(b, target, ix))
<1> SUFFICES ASSUME NEW v \in VIds, Merged(b, target, ix)[v] # None
             PROVE  Merged(b, target, ix)[v].name # None
  BY DEF AllNamed
<1>1. CASE v \notin {target[i] : i \in DOMAIN b}
  BY <1>1 DEF Merged, AllNamed
<1>2. CASE v \in {target[i] : i \in DOMAIN b}
  <2> DEFINE givers == {i \in DOMAIN b : target[i] = v /\ b[i]["name"] # None}
             earlier == IF ix.seen[v] = None THEN None ELSE ix.seen[v]["name"]
  <2>1. Merged(b, target, ix)[v].name = Written("name", v, b, target, ix)
    BY <1>2 DEF Merged
  <2>2. CASE voteables[v] # None
    BY <2>1, <2>2, WrittenComesFrom DEF AllNamed
  <2>3. CASE voteables[v] = None
    <3>1. PICK i \in DOMAIN b : target[i] = v
      BY <1>2
    <3>2. i \in givers /\ ix.seen[v] = None
      BY <2>3, <3>1
    <3>3. ~ \A j \in givers : b[j]["name"] = earlier
      BY <3>2
    <3>4. \E j \in givers : \A l \in givers : l <= j
      <4>1. givers \in SUBSET (1..Len(b)) /\ givers # {} /\ Len(b) \in Nat
        BY <3>2, BatchShape
      <4> QED BY <4>1, LastPosition
    <3> DEFINE last == CHOOSE j \in givers : \A l \in givers : l <= j
    <3>5. last \in givers
      BY <3>4, Zenon
    <3>6. Written("name", v, b, target, ix) = b[last]["name"]
      BY <3>3, Zenon DEF Written
    <3> QED BY <2>1, <3>5, <3>6
  <2> QED BY <2>2, <2>3
<1> QED BY <1>1, <1>2

LEMMA EnlistTypes ==
  ASSUME candidates \in [CIds -> VIds \cup {None}], usedCids \subseteq CIds,
         NEW vs \in SUBSET VIds, Enlist(vs)
  PROVE  candidates' \in [CIds -> VIds \cup {None}] /\ usedCids' \subseteq CIds
<1> DEFINE new == vs \ {candidates[c] : c \in Listed}
<1>1. PICK cid \in [new -> CIds \ usedCids] :
        /\ candidates' = [c \in CIds |-> IF c \in {cid[v] : v \in new}
                                           THEN CHOOSE v \in new : cid[v] = c ELSE candidates[c]]
        /\ usedCids' = usedCids \cup {cid[v] : v \in new}
  BY DEF Enlist
<1>2. ASSUME NEW c \in CIds, c \in {cid[v] : v \in new}
      PROVE  (CHOOSE v \in new : cid[v] = c) \in VIds
  BY <1>2
<1> HIDE DEF new
<1> QED BY <1>1, <1>2

LEMMA CommitTypes ==
  ASSUME CatalogueAssumption, RowTypes, ListTypes, NEW p \in Importers, ImportCommit(p)
  PROVE  RowTypes' /\ ListTypes'
<1> DEFINE b == job[p].batch
           ix == job[p].ix
           made == {i \in DOMAIN b : Match(b[i], ix) = None}
<1>1. job[p] \in Planning /\ job[p].at = "plan" /\ p \in Administrators
  BY DEF ImportCommit, RowTypes, Administrators, Idle, Clearing
<1>2. b \in Batches
  BY <1>1 DEF Planning
<1>3. /\ ix.byOld \in Indexes(ix.seen, "old") /\ ix.byName \in Indexes(ix.seen, "name")
      /\ \A v \in VIds : ix.seen[v] # None => voteables[v] # None
  BY <1>1 DEF RowTypes, PlanStands
<1>4. ~ Conflicts(b, ix) /\ \A i \in made : b[i].name # None
  BY DEF ImportCommit
<1>5. PICK fresh \in [made -> VIds \ Existing] :
        LET target == [i \in DOMAIN b |-> IF i \in made THEN fresh[i] ELSE Match(b[i], ix)]
        IN  /\ voteables' = Merged(b, target, ix)
            /\ Enlist({target[i] : i \in DOMAIN b}) \/ UNCHANGED <<candidates, usedCids>>
  BY DEF ImportCommit
<1> DEFINE target == [i \in DOMAIN b |-> IF i \in made THEN fresh[i] ELSE Match(b[i], ix)]
<1>6. voteables' = Merged(b, target, ix)
      /\ (Enlist({target[i] : i \in DOMAIN b}) \/ UNCHANGED <<candidates, usedCids>>)
  BY <1>5
<1>7. /\ job' = [job EXCEPT ![p] = Clearing]
      /\ commits < MaxCommits /\ commits' = commits + 1 /\ UNCHANGED <<acked, page, held, blemish>>
      /\ works' = works \cup ({b[i].work : i \in DOMAIN b} \ (ix.works \cup {None}))
  BY DEF ImportCommit
<1> HIDE DEF b, ix
<1>8. \A i \in DOMAIN b : b[i] \in Row
  BY <1>2, BatchShape
<1>9. ASSUME NEW i \in DOMAIN b
      PROVE  target[i] \in VIds /\ (voteables[target[i]] = None => b[i].name # None)
  <2>1. CASE i \in made
    BY <1>4, <2>1
  <2>2. CASE i \notin made
    <3>1. Match(b[i], ix) # None /\ target[i] = Match(b[i], ix) /\ b[i].vid \in VIds \cup {None}
      BY <1>8, <2>2 DEF Row
    <3>2. Match(b[i], ix) \in VIds /\ ix.seen[Match(b[i], ix)] # None
      BY <1>3, <1>4, <3>1, MatchesSeen
    <3> QED BY <1>3, <3>1, <3>2
  <2> QED BY <2>1, <2>2
<1> HIDE DEF made, target
<1>10. RowsStay
  <2>1. voteables' \in Tables
    BY <1>2, <1>6, MergedIsATable DEF RowTypes
  <2>2. AllNamed(voteables')
    BY <1>2, <1>3, <1>6, <1>9, MergeKeepsNames DEF RowTypes
  <2>3. works' \subseteq Works
    BY <1>7, <1>8 DEF RowTypes, Row
  <2>4. ASSUME NEW v \in VIds, voteables[v] # None PROVE voteables'[v] # None
    <3>1. v \notin {target[i] : i \in DOMAIN b} => Merged(b, target, ix)[v] = voteables[v]
      BY Zenon DEF Merged
    <3>2. v \in {target[i] : i \in DOMAIN b} => Merged(b, target, ix)[v] \in Voteables
      BY <1>2, MergedRow DEF RowTypes
    <3> QED BY <1>6, <2>4, <3>1, <3>2 DEF CatalogueAssumption
  <2> QED BY <2>1, <2>2, <2>3, <2>4 DEF RowsStay
<1>11. RowTypes'
  BY <1>1, <1>7, <1>10, RowsStayTyped
<1>12. candidates' \in [CIds -> VIds \cup {None}] /\ usedCids' \subseteq CIds
  <2>1. {target[i] : i \in DOMAIN b} \in SUBSET VIds
    BY <1>9
  <2> QED BY <1>6, <2>1, EnlistTypes DEF ListTypes
<1>13. ListTypes'
  BY <1>7, <1>12 DEF ListTypes, CatalogueAssumption
<1> QED BY <1>11, <1>13

LEMMA ReadTypes ==
  ASSUME CatalogueAssumption, RowTypes, ListTypes, NEW p \in Importers, ImportRead(p)
  PROVE  RowTypes' /\ ListTypes'
<1>1. PICK b \in Batches, n \in Indexes(voteables, "name"), o \in Indexes(voteables, "old") :
        job' = [job EXCEPT ![p] = [at |-> "plan", batch |-> b,
                                   ix |-> [seen |-> voteables, byName |-> n,
                                           byOld |-> o, works |-> works]]]
  BY DEF ImportRead
<1> DEFINE plan == [at |-> "plan", batch |-> b,
                    ix |-> [seen |-> voteables, byName |-> n, byOld |-> o, works |-> works]]
<1>2. plan \in Planning
  BY PlansAreTyped DEF RowTypes
<1>3. job' \in [Administrators -> {Idle, Clearing} \cup Planning]
  BY <1>1, <1>2 DEF RowTypes, Administrators
<1>4. ASSUME NEW q \in Administrators PROVE PlanStands(q)'
  <2>1. CASE q = p
    <3>1. job'[q] = plan
      BY <1>1, <2>1 DEF RowTypes
    <3> QED BY <3>1 DEF PlanStands, ImportRead
  <2>2. CASE q # p
    <3>1. job'[q] = job[q]
      BY <1>1, <2>2 DEF RowTypes
    <3> QED BY <3>1 DEF RowTypes, PlanStands, ImportRead
  <2> QED BY <2>1, <2>2
<1> QED BY <1>3, <1>4 DEF ImportRead, RowTypes, ListTypes

LEMMA EditTypes ==
  ASSUME CatalogueAssumption, RowTypes, ListTypes, NEW e \in Editors, Edit(e)
  PROVE  RowTypes' /\ ListTypes'
<1> USE DEF Administrators
<1>1. /\ job' = [job EXCEPT ![e] = Clearing] /\ UNCHANGED <<works, page, held, blemish>>
      /\ commits < MaxCommits /\ commits' = commits + 1
  BY DEF Edit, UpsertCandidates, UpdateCandidate, DeleteCandidate, UpdateVoteableWork,
         UpdateVoteableResources, MergeCandidate, WorkRoute, CreateWork, ChangeWork, Committed
<1>2. commits' \in 0..MaxCommits
  BY <1>1 DEF ListTypes, CatalogueAssumption
<1>3. ASSUME RowsStay PROVE RowTypes'
  BY <1>1, <1>3, RowsStayTyped
<1>4. CASE UpsertCandidates(e)
  <2>1. PICK vs \in NamedVoteables : Enlist(vs)
    BY <1>4 DEF UpsertCandidates
  <2>2. vs \in SUBSET VIds
    BY DEF NamedVoteables, Existing
  <2>3. candidates' \in [CIds -> VIds \cup {None}] /\ usedCids' \subseteq CIds
    BY <2>1, <2>2, EnlistTypes DEF ListTypes
  <2> QED BY <1>1, <1>2, <1>3, <1>4, <2>3, SameRows DEF UpsertCandidates, Committed, ListTypes
<1>5. CASE UpdateCandidate(e) \/ DeleteCandidate(e) \/ MergeCandidate(e)
  <2>1. candidates' \in [CIds -> VIds \cup {None}]
    BY <1>5 DEF UpdateCandidate, DeleteCandidate, MergeCandidate, Existing, ListTypes
  <2> QED BY <1>1, <1>2, <1>3, <1>5, <2>1, SameRows
          DEF UpdateCandidate, DeleteCandidate, MergeCandidate, Committed, ListTypes
<1>6. CASE UpdateVoteableWork(e)
  <2>1. PICK v \in Existing, w \in works \cup {None} : voteables' = [voteables EXCEPT ![v].work = w]
    BY <1>6 DEF UpdateVoteableWork
  <2>2. RowsStay
    BY <1>1, <2>1, ColumnKeepsRows DEF RowTypes
  <2> QED BY <1>1, <1>2, <1>3, <1>6, <2>2 DEF UpdateVoteableWork, Committed, ListTypes
<1>7. CASE UpdateVoteableResources(e)
  <2>1. PICK v \in Existing, u \in Images \cup {None} : voteables' = [voteables EXCEPT ![v].image = u]
    BY <1>7 DEF UpdateVoteableResources
  <2>2. RowsStay
    BY <1>1, <2>1, ColumnKeepsRows
  <2> QED BY <1>1, <1>2, <1>3, <1>7, <2>2 DEF UpdateVoteableResources, Committed, ListTypes
<1>8. CASE CreateWork(e) \/ ChangeWork(e)
  <2>1. acked' \subseteq Works /\ UNCHANGED <<voteables, candidates, usedCids>>
    BY <1>8 DEF CreateWork, ChangeWork, WorkRoute, ListTypes
  <2> QED BY <1>1, <1>2, <1>3, <2>1, SameRows DEF ListTypes
<1> QED BY <1>4, <1>5, <1>6, <1>7, <1>8 DEF Edit

LEMMA CatalogueStep ==
  ASSUME CatalogueAssumption, RowTypes, ListTypes, [Next]_vars
  PROVE  RowTypes' /\ ListTypes'
<1> USE DEF Administrators
<1>1. ASSUME NEW p \in Importers, Import(p) PROVE RowTypes' /\ ListTypes'
  <2>1. CASE ImportEndsEarly(p)
    <3>1. RowTypes'
      BY <2>1, SameRows, RowsStayTyped DEF ImportEndsEarly
    <3> QED BY <2>1, <3>1 DEF ImportEndsEarly, ListTypes
  <2> QED BY <1>1, <2>1, ReadTypes, CommitTypes DEF Import
<1>2. ASSUME NEW e \in Editors, Edit(e) PROVE RowTypes' /\ ListTypes'
  BY <1>2, EditTypes
<1>3. ASSUME NEW p \in Administrators, Clear(p) PROVE RowTypes' /\ ListTypes'
  <2>1. RowTypes'
    BY <1>3, SameRows, RowsStayTyped DEF Clear
  <2> QED BY <1>3, <2>1 DEF Clear, ListTypes
<1>4. CASE ImportResources
  <2>1. PICK name \in Names, u \in Images, f \in Indexes(voteables, "name") :
          name \in DOMAIN f /\ voteables' = [voteables EXCEPT ![f[name]].image = u]
    BY <1>4 DEF ImportResources
  <2>2. f[name] \in Existing
    BY <2>1 DEF Indexes, Existing
  <2>3. RowTypes'
    BY <1>4, <2>1, <2>2, ColumnKeepsRows, RowsStayTyped DEF ImportResources
  <2> QED BY <1>4, <2>3 DEF ImportResources, ListTypes, CatalogueAssumption
<1>5. ASSUME NEW r \in Readers, Read(r) PROVE RowTypes' /\ ListTypes'
  <2>1. RowTypes'
    BY <1>5, SameRows, RowsStayTyped DEF Read, LoadPage, StorePage, LosePage
  <2>2. ASSUME NEW k \in Keys, held' = [held EXCEPT ![r] = [key |-> k, body |-> Answer(k)]]
        PROVE  /\ held' = [q \in Readers |-> held'[q]]
               /\ \A q \in Readers : held'[q] # None => held'[q].key \in Keys
    BY <2>2 DEF ListTypes
  <2>3. CASE LoadPage(r)
    BY <2>1, <2>2, <2>3 DEF LoadPage, ListTypes
  <2>4. CASE StorePage(r) \/ LosePage(r)
    BY <2>1, <2>4 DEF StorePage, LosePage, ListTypes
  <2> QED BY <1>5, <2>3, <2>4 DEF Read
<1>6. CASE FlushCache \/ (\E k \in Keys : PageExpires(k)) \/ UNCHANGED vars
  <2>1. RowTypes'
    BY <1>6, SameRows, RowsStayTyped DEF PageExpires, FlushCache, vars
  <2> QED BY <1>6, <2>1 DEF PageExpires, FlushCache, vars, ListTypes
<1> QED BY <1>1, <1>2, <1>3, <1>4, <1>5, <1>6 DEF Next

(* With any number of uploads and edits at once, no voteable is removed or  *)
(* loses its name, and candidates, works and cached keys are what they are  *)
(* taken for.                                                               *)
THEOREM CatalogueTypes ==
  ASSUME CatalogueAssumption PROVE Spec => []TypeOK
<1> DEFINE IInv == RowTypes /\ ListTypes
<1>1. Init => IInv
  <2> SUFFICES ASSUME Init PROVE IInv
    OBVIOUS
  <2>1. voteables \in Tables /\ AllNamed(voteables)
    BY DEF Init, CatalogueAssumption, Tables, AllNamed
  <2>2. works \subseteq Works
    <3>1. \A v \in Existing : voteables[v].work \in Works \cup {None}
      BY <2>1 DEF Existing, Tables, Voteables
    <3> QED BY <3>1 DEF Init
  <2>3. RowTypes
    BY <2>1, <2>2 DEF Init, RowTypes, Administrators, PlanStands, Idle
  <2> QED BY <2>3 DEF Init, ListTypes, CatalogueAssumption
<1>2. IInv /\ [Next]_vars => IInv'
  BY CatalogueStep
<1>3. IInv => TypeOK
  BY DEF RowTypes, ListTypes, TypeOK, AllNamed, Tables, Existing, Administrators, Idle, Clearing,
         Planning
<1> QED BY <1>1, <1>2, <1>3, PTL DEF Spec

----
(* The cache. Nothing here depends on how many uploads run.                   *)

Fresh(k) == page[k] \in {None, Answer(k)}
SomeoneClears == \E p \in Administrators : job[p] = Clearing

CacheInv ==
  /\ \E T : job \in [Administrators -> T]
  /\ \E U : page \in [Keys -> U]
  /\ \A k \in Keys \ blemish : Fresh(k) \/ SomeoneClears

(* The answers are functions of the two tables. *)
LEMMA SameAnswers ==
  ASSUME UNCHANGED <<voteables, candidates>>, NEW k
  PROVE  Answer(k)' = Answer(k)
  BY DEF Answer, Listing, Detail, Suggestions, Listed

(* Whoever commits has yet to clear. *)
LEMMA CommitAwaitsClear ==
  ASSUME CacheInv, NEW p \in Administrators, job' = [job EXCEPT ![p] = Clearing], UNCHANGED page
  PROVE  CacheInv'
  <1>1. PICK T : job \in [Administrators -> T]
    BY DEF CacheInv
  <1>2. job' \in [Administrators -> T \cup {Clearing}] /\ job'[p] = Clearing
    BY <1>1
  <1> QED BY <1>2 DEF CacheInv, SomeoneClears

(* A job that was not clearing moves on, the answers stay. *)
LEMMA OthersStillClear ==
  ASSUME CacheInv, NEW p \in Administrators, NEW j, job' = [job EXCEPT ![p] = j],
         job[p] # Clearing, UNCHANGED <<voteables, candidates, page, blemish>>
  PROVE  CacheInv'
  <1>1. PICK T : job \in [Administrators -> T]
    BY DEF CacheInv
  <1>2. job' \in [Administrators -> T \cup {j}]
    BY <1>1
  <1>3. SomeoneClears => SomeoneClears'
    BY <1>1 DEF SomeoneClears
  <1>4. ASSUME NEW k \in Keys \ blemish' PROVE Fresh(k)' \/ SomeoneClears'
    BY <1>3, <1>4, SameAnswers DEF CacheInv, Fresh
  <1> QED BY <1>2, <1>4 DEF CacheInv

(* No job moves and the answers stay: each key that is not blemished holds *)
(* what it held, nothing, or its answer.                                   *)
LEMMA PagesMove ==
  ASSUME CacheInv, UNCHANGED <<voteables, candidates, job>>, NEW U, page' \in [Keys -> U],
         \A k \in Keys \ blemish' : \/ page'[k] \in {None, Answer(k)}
                                    \/ k \notin blemish /\ page'[k] = page[k]
  PROVE  CacheInv'
  <1>1. SomeoneClears => SomeoneClears'
    BY DEF SomeoneClears
  <1>2. ASSUME NEW k \in Keys \ blemish' PROVE Fresh(k)' \/ SomeoneClears'
    <2>1. CASE page'[k] \in {None, Answer(k)}
      BY <2>1, SameAnswers DEF Fresh
    <2>2. CASE k \notin blemish /\ page'[k] = page[k]
      BY <1>1, <2>2, SameAnswers DEF CacheInv, Fresh
    <2> QED BY <1>2, <2>1, <2>2
  <1> QED BY <1>2 DEF CacheInv

LEMMA CacheStep ==
  ASSUME CacheInv, [Next]_vars
  PROVE  CacheInv'
  <1> USE DEF Administrators
  <1>a. Clearing.at # "plan" /\ Clearing # Idle
    <2>1. Clearing.at = "clear" /\ Idle.at = "idle"
      BY DEF Clearing, Idle
    <2> QED BY <2>1
  <1>b. PICK U : page \in [Keys -> U]
    BY DEF CacheInv
  <1>1. ASSUME NEW p \in Importers, Import(p) PROVE CacheInv'
    <2>1. CASE ImportRead(p)
      <3>1. PICK j : job' = [job EXCEPT ![p] = j]
        BY <2>1 DEF ImportRead
      <3>2. job[p] # Clearing
        BY <2>1, <1>a DEF ImportRead
      <3> QED BY <2>1, <3>1, <3>2, OthersStillClear DEF ImportRead
    <2>2. CASE ImportEndsEarly(p)
      <3>1. job[p] # Clearing
        BY <2>2, <1>a DEF ImportEndsEarly
      <3> QED BY <2>2, <3>1, OthersStillClear DEF ImportEndsEarly
    <2>3. CASE ImportCommit(p)
      BY <2>3, CommitAwaitsClear DEF ImportCommit
    <2> QED BY <1>1, <2>1, <2>2, <2>3 DEF Import
  <1>2. ASSUME NEW e \in Editors, Edit(e) PROVE CacheInv'
    BY <1>2, CommitAwaitsClear DEF Edit, UpsertCandidates, UpdateCandidate, DeleteCandidate,
         UpdateVoteableWork, UpdateVoteableResources, MergeCandidate, WorkRoute, CreateWork,
         ChangeWork, Committed
  <1>3. ASSUME NEW p \in Administrators, Clear(p) PROVE CacheInv'
    <2>1. \A k \in Keys \ blemish' : page'[k] = None
      BY <1>3 DEF Clear
    <2>4. page' \in [Keys -> U \cup {None}]
      BY <1>3, <1>b DEF Clear
    <2>2. PICK T : job \in [Administrators -> T]
      BY DEF CacheInv
    <2>3. job' \in [Administrators -> T \cup {Idle}]
      BY <1>3, <2>2 DEF Clear
    <2> QED BY <2>1, <2>3, <2>4 DEF CacheInv, Fresh
  <1>4. CASE ImportResources
    <2>1. Keys \ blemish' = {} /\ UNCHANGED <<job, page>>
      BY <1>4 DEF ImportResources
    <2> QED BY <2>1 DEF CacheInv
  <1>5. ASSUME NEW r \in Readers, Read(r) PROVE CacheInv'
    <2>1. CASE LoadPage(r) \/ LosePage(r)
      BY <1>b, <2>1, PagesMove DEF LoadPage, LosePage
    <2>2. CASE StorePage(r)
      <3> DEFINE k == held[r].key
      <3>1. /\ page' = [page EXCEPT ![k] = held[r].body]
            /\ blemish' = IF held[r].body = Answer(k) THEN blemish \ {k} ELSE blemish \cup {k}
            /\ UNCHANGED <<voteables, candidates, job>>
        BY <2>2 DEF StorePage
      <3>2. ASSUME NEW n \in Keys \ blemish'
            PROVE  page'[n] \in {None, Answer(n)} \/ (n \notin blemish /\ page'[n] = page[n])
        <4>1. CASE n # k
          BY <3>1, <3>2, <4>1
        <4>2. CASE n = k /\ page'[k] = held[r].body
          BY <3>1, <3>2, <4>2
        <4> QED BY <1>b, <3>1, <4>1, <4>2
      <3>3. page' \in [Keys -> U \cup {held[r].body}]
        BY <1>b, <3>1
      <3> QED BY <3>1, <3>2, <3>3, PagesMove
    <2> QED BY <1>5, <2>1, <2>2 DEF Read
  <1>6. ASSUME NEW k \in Keys, PageExpires(k) PROVE CacheInv'
    <2>1. page' \in [Keys -> U \cup {None}]
      BY <1>b, <1>6 DEF PageExpires
    <2>2. \A n \in Keys \ blemish' : page'[n] \in {None, Answer(n)}
                                    \/ (n \notin blemish /\ page'[n] = page[n])
      BY <1>b, <1>6 DEF PageExpires
    <2> QED BY <1>6, <2>1, <2>2, PagesMove DEF PageExpires
  <1>7. CASE FlushCache
    <2>1. page' \in [Keys -> U \cup {None}]
      BY <1>b, <1>7 DEF FlushCache
    <2> QED BY <1>7, <2>1, PagesMove DEF FlushCache
  <1>8. CASE UNCHANGED vars
    BY <1>8, SameAnswers DEF vars, CacheInv, Fresh, SomeoneClears
  <1> QED BY <1>1, <1>2, <1>3, <1>4, <1>5, <1>6, <1>7, <1>8 DEF Next

(* A cached answer that does not show the committed catalogue is one that   *)
(* somebody is about to clear or whose history says how it escaped, for any *)
(* number of importers, editors and readers (_clear_vote_objects_cache).    *)
THEOREM CacheShowsCommits == Spec => []CacheFollowsCommits
  <1>1. Init => CacheInv
    <2> SUFFICES ASSUME Init PROVE CacheInv
      OBVIOUS
    <2>1. job \in [Administrators -> {Idle}] /\ page \in [Keys -> {None}]
      BY DEF Init, Administrators
    <2> QED BY <2>1 DEF CacheInv, Fresh
  <1>2. CacheInv /\ [Next]_vars => CacheInv'
    BY CacheStep
  <1>3. CacheInv => CacheFollowsCommits
    BY DEF CacheInv, Fresh, SomeoneClears, Administrators, CacheFollowsCommits
  <1> QED BY <1>1, <1>2, <1>3, PTL DEF Spec

----
(* The language of the constraints.                                           *)

USE DEF Sentences

(* Induction along 1..N: Q has 1 and, with any number below N, the next one. *)
LEMMA Climbs ==
  ASSUME NEW Q, NEW N \in Nat \ {0}, 1 \in Q, \A k \in 1..(N - 1) : k \in Q => k + 1 \in Q
  PROVE  1..N \subseteq Q
<1> DEFINE bad == {k \in 1..N : k \notin Q}
           T == {1..k : k \in bad}
           less == StrictSubsetOrdering(1..N)
<1> SUFFICES ASSUME bad # {} PROVE FALSE
  OBVIOUS
<1>1. IsWellFoundedOn(less, FiniteSubsetsOf(1..N))
  BY FS_Interval, FS_StrictSubsetOrderingWellFounded
<1>2. T \subseteq FiniteSubsetsOf(1..N) /\ T # {}
  <2>1. \A k \in bad : 1..k \subseteq 1..N /\ IsFiniteSet(1..k)
    BY FS_Interval
  <2> QED BY <2>1 DEF FiniteSubsetsOf
<1>3. PICK R \in T : \A S \in T : <<S, R>> \notin less
  <2> HIDE DEF T, less
  <2> QED BY <1>1, <1>2, WFMin
<1>4. PICK k \in bad : R = 1..k
  BY <1>3
<1>5. k # 1 /\ k - 1 \in bad
  BY <1>4
<1>6. 1..(k - 1) \subseteq 1..k /\ k \in 1..k /\ k \notin 1..(k - 1) /\ 1..k \subseteq 1..N
  BY <1>4, <1>5
<1>7. <<1..(k - 1), 1..k>> \in less
  BY <1>6 DEF StrictSubsetOrdering
<1> QED BY <1>3, <1>4, <1>5, <1>7

(* The recursive functions of Query exist, level by level: a tree of at most e + 1  *)
(* levels needs what the function says of the trees of at most e.                  *)
LEMMA TreesGrow ==
  ASSUME QueryAssumption
  PROVE  /\ Trees[1] = Conditions
         /\ \A d \in 2..MaxDepth :
              Trees[d] = Trees[d - 1] \cup [op : Group, kids : Seq(Trees[d - 1])]
<1> DEFINE Grows(T, N) == T = [d \in 1..N |-> IF d = 1 THEN Conditions
                               ELSE T[d - 1] \cup [op : Group, kids : Seq(T[d - 1])]]
           Q == {N \in 1..MaxDepth : \E T : Grows(T, N)}
<1>0. MaxDepth \in Nat \ {0}
  BY DEF QueryAssumption
<1>1. 1 \in Q
  <2>1. Grows([d \in 1..1 |-> Conditions], 1)
    OBVIOUS
  <2> HIDE DEF Grows
  <2> QED BY <1>0, <2>1
<1>2. ASSUME NEW N \in 1..(MaxDepth - 1), N \in Q PROVE N + 1 \in Q
  <2>1. PICK T : Grows(T, N)
    BY <1>2
  <2> DEFINE U == [d \in 1..(N + 1) |-> IF d = 1 THEN Conditions
                   ELSE T[d - 1] \cup [op : Group, kids : Seq(T[d - 1])]]
  <2>2. ASSUME NEW d \in 1..N PROVE U[d] = T[d]
    <3>1. d \in 1..(N + 1)
      BY <1>2
    <3>2. T[d] = IF d = 1 THEN Conditions ELSE T[d - 1] \cup [op : Group, kids : Seq(T[d - 1])]
      BY <2>1
    <3> QED BY <3>1, <3>2
  <2>3. Grows(U, N + 1)
    <3>1. ASSUME NEW d \in 1..(N + 1), d # 1 PROVE T[d - 1] = U[d - 1]
      <4>1. d - 1 \in 1..N
        BY <3>1
      <4> HIDE DEF U
      <4> QED BY <2>2, <4>1
    <3> DEFINE V(d) == IF d = 1 THEN Conditions ELSE U[d - 1] \cup [op : Group, kids : Seq(U[d - 1])]
               W(d) == IF d = 1 THEN Conditions ELSE T[d - 1] \cup [op : Group, kids : Seq(T[d - 1])]
    <3>2. \A d \in 1..(N + 1) : V(d) = W(d)
      <4> HIDE DEF U
      <4> QED BY <3>1
    <3>3. U = [d \in 1..(N + 1) |-> W(d)]
      OBVIOUS
    <3>4. U = [d \in 1..(N + 1) |-> V(d)]
      <4> HIDE DEF V, W, U
      <4> QED BY <3>2, <3>3
    <3> QED BY <3>4
  <2>4. N + 1 \in 1..MaxDepth
    BY <1>0
  <2> HIDE DEF Grows
  <2> QED BY <2>3, <2>4
<1>3. \E T : Grows(T, MaxDepth)
  <2> HIDE DEF Q
  <2>1. \A k \in 1..(MaxDepth - 1) : k \in Q => k + 1 \in Q
    BY <1>2
  <2>2. 1..MaxDepth \subseteq Q
    BY <1>0, <1>1, <2>1, Climbs
  <2>3. MaxDepth \in Q
    BY <1>0, <2>2
  <2> QED BY <2>3 DEF Q
<1>4. Grows(Trees, MaxDepth)
  <2>1. Trees = CHOOSE T : Grows(T, MaxDepth)
    BY DEF Trees
  <2> HIDE DEF Grows
  <2> QED BY <1>3, <2>1
<1> QED BY <1>0, <1>4

(* A tree is a condition or a group of lower trees. *)
LEMMA TreesNest ==
  ASSUME QueryAssumption, NEW d \in 1..MaxDepth
  PROVE  /\ Trees[d] \subseteq Trees[MaxDepth]
         /\ Conditions \subseteq Trees[d]
         /\ \A n \in Trees[d] :
              \/ n \in Conditions
              \/ /\ d > 1
                 /\ n \in [op : Group, kids : Seq(Trees[d - 1])]
<1>0. MaxDepth \in Nat \ {0}
  BY DEF QueryAssumption
<1> DEFINE Q == {e \in 1..MaxDepth :
                  /\ Conditions \subseteq Trees[e]
                  /\ \A i \in 1..e : Trees[i] \subseteq Trees[e]
                  /\ \A n \in Trees[e] :
                       \/ n \in Conditions
                       \/ e > 1 /\ n \in [op : Group, kids : Seq(Trees[e - 1])]}
<1>1. 1 \in Q
  BY <1>0, TreesGrow
<1>2. ASSUME NEW e \in 1..(MaxDepth - 1), e \in Q PROVE e + 1 \in Q
  <2>1. e + 1 \in 2..MaxDepth /\ (e + 1) - 1 = e
    BY <1>0
  <2>2. Trees[e + 1] = Trees[e] \cup [op : Group, kids : Seq(Trees[e])]
    BY <2>1, TreesGrow
  <2>3. \A i \in 1..(e + 1) : Trees[i] \subseteq Trees[e + 1]
    BY <1>2, <2>2
  <2>4. ASSUME NEW n \in Trees[e]
        PROVE  n \in Conditions \/ n \in [op : Group, kids : Seq(Trees[e])]
    <3>1. CASE n \in Conditions
      BY <3>1
    <3>2. CASE e > 1 /\ n \in [op : Group, kids : Seq(Trees[e - 1])]
      <4>1. Trees[e - 1] \subseteq Trees[e]
        BY <1>2, <3>2
      <4>2. n.kids \in Seq(Trees[e])
        BY <3>2, <4>1
      <4> QED BY <3>2, <4>2
    <3> QED BY <1>2, <2>4, <3>1, <3>2
  <2> QED BY <1>2, <2>1, <2>2, <2>3, <2>4
<1>3. 1..MaxDepth \subseteq Q
  <2> HIDE DEF Q
  <2> QED BY <1>0, <1>1, <1>2, Climbs
<1>4. d \in Q /\ MaxDepth \in Q /\ d \in 1..MaxDepth
  BY <1>0, <1>3
<1> QED BY <1>4

KidsIn(n, S) == DOMAIN n.kids \in SUBSET Nat /\ \A i \in DOMAIN n.kids : n.kids[i] \in S

LEMMA KidsAreSmaller ==
  ASSUME QueryAssumption, NEW e \in 1..(MaxDepth - 1), NEW n \in Trees[e + 1], n.op \in Group
  PROVE  n \in [op : Group, kids : Seq(Trees[e])] /\ KidsIn(n, Trees[e])
<1>0. MaxDepth \in Nat \ {0}
  BY DEF QueryAssumption
<1>1. e + 1 \in 1..MaxDepth /\ (e + 1) - 1 = e
  BY <1>0
<1>2. n \notin Conditions
  BY DEF Conditions, Group
<1>3. n \in [op : Group, kids : Seq(Trees[e])]
  BY <1>1, <1>2, TreesNest
<1> QED BY <1>3 DEF KidsIn

(* What a tree evaluates to when its conditions do as leaf says. *)
Value(f, leaf, k) ==
  IF k.op = "and" THEN \A i \in DOMAIN k.kids : f[k.kids[i]]
  ELSE IF k.op = "or" THEN \E i \in DOMAIN k.kids : f[k.kids[i]]
  ELSE leaf[k]

(* A value depends on the values of the members only. *)
LEMMA ValueOfKids ==
  ASSUME NEW f, NEW g, NEW leaf, NEW k,
         k.op \in Group => \A i \in DOMAIN k.kids : f[k.kids[i]] = g[k.kids[i]]
  PROVE  Value(f, leaf, k) = Value(g, leaf, k)
<1>1. CASE k.op = "and"
  BY <1>1 DEF Value, Group
<1>2. CASE k.op = "or"
  BY <1>2 DEF Value, Group
<1>3. CASE k.op \notin Group
  BY <1>3 DEF Value, Group
<1> QED BY <1>1, <1>2, <1>3 DEF Group

LEMMA Evaluation ==
  ASSUME QueryAssumption, NEW leaf
  PROVE  \E f : f = [k \in Trees[MaxDepth] |-> Value(f, leaf, k)]
<1> DEFINE IsValue(f, d) == f = [k \in Trees[d] |-> Value(f, leaf, k)]
           Q == {d \in 1..MaxDepth : \E f : IsValue(f, d)}
<1>0. MaxDepth \in Nat \ {0}
  BY DEF QueryAssumption
<1>1. 1 \in Q
  <2> DEFINE f == [k \in Conditions |-> leaf[k]]
  <2>1. \A k \in Conditions : Value(f, leaf, k) = leaf[k]
    BY DEF Value, Conditions
  <2>2. f = [k \in Conditions |-> Value(f, leaf, k)]
    <3> HIDE DEF f
    <3>1. f = [k \in Conditions |-> leaf[k]]
      BY DEF f
    <3> QED BY <2>1, <3>1
  <2>3. IsValue(f, 1)
    BY <2>2, TreesGrow
  <2> HIDE DEF IsValue
  <2> QED BY <1>0, <2>3
<1>2. ASSUME NEW e \in 1..(MaxDepth - 1), e \in Q PROVE e + 1 \in Q
  <2>1. PICK f : IsValue(f, e)
    BY <1>2
  <2>2. e \in 1..MaxDepth /\ e + 1 \in 1..MaxDepth /\ e + 1 \in 2..MaxDepth /\ (e + 1) - 1 = e
    BY <1>0
  <2>3. Trees[e] \subseteq Trees[e + 1]
    BY <2>2, TreesGrow
  <2> DEFINE g == [k \in Trees[e + 1] |-> Value(f, leaf, k)]
  <2>4. \A k \in Trees[e] : g[k] = f[k]
    BY <2>1, <2>3
  <2>5. ASSUME NEW k \in Trees[e + 1] PROVE Value(g, leaf, k) = Value(f, leaf, k)
    <3>1. k.op \in Group => \A i \in DOMAIN k.kids : f[k.kids[i]] = g[k.kids[i]]
      <4> HIDE DEF g
      <4> QED BY <2>4, KidsAreSmaller DEF KidsIn
    <3> HIDE DEF g
    <3> QED BY <3>1, ValueOfKids
  <2>6. IsValue(g, e + 1)
    <3>1. g = [k \in Trees[e + 1] |-> Value(f, leaf, k)]
      OBVIOUS
    <3> HIDE DEF g
    <3> QED BY <2>5, <3>1
  <2> HIDE DEF IsValue
  <2> QED BY <2>2, <2>6
<1>3. MaxDepth \in Q
  <2> HIDE DEF Q
  <2>1. \A k \in 1..(MaxDepth - 1) : k \in Q => k + 1 \in Q
    BY <1>2
  <2>2. 1..MaxDepth \subseteq Q
    BY <1>0, <1>1, <2>1, Climbs
  <2> QED BY <1>0, <2>2
<1> QED BY <1>3

(* What normalize makes of a group whose normalized members are flattened. *)
Regroup(n, flat) ==
  IF \E k \in flat : flat = {k} THEN CHOOSE k \in flat : TRUE
  ELSE [n EXCEPT !.kids = SortedOnce(flat)]

FlatIn(k, op) == IF k.op = op THEN Range(k.kids) ELSE {k}
FlatKids(f, n) == UNION {FlatIn(f[n.kids[i]], n.op) : i \in DOMAIN n.kids}

NormalForm(f, n) ==
  CASE n.op \in Group -> Regroup(n, FlatKids(f, n))
    [] n.op = "any" -> [n EXCEPT !.names = SortedOnce(Range(n.names))]
    [] n.op = "cp"  -> [n EXCEPT !.names = PairMembers(n.names)]
    [] OTHER        -> n

(* A normal form depends on the normal forms of the members only. *)
LEMMA NormalFormOfKids ==
  ASSUME NEW f, NEW g, NEW k,
         k.op \in Group => \A i \in DOMAIN k.kids : f[k.kids[i]] = g[k.kids[i]]
  PROVE  NormalForm(f, k) = NormalForm(g, k)
<1>1. CASE k.op \in Group
  <2>1. FlatKids(f, k) = FlatKids(g, k)
    BY <1>1 DEF FlatKids
  <2> QED BY <1>1, <2>1 DEF NormalForm, Group
<1>2. CASE k.op \notin Group
  BY <1>2 DEF NormalForm
<1> QED BY <1>1, <1>2

LEMMA Normalization ==
  ASSUME QueryAssumption
  PROVE  Normalize = [n \in Trees[MaxDepth] |-> NormalForm(Normalize, n)]
<1> DEFINE IsNormal(f, d) == f = [n \in Trees[d] |-> NormalForm(f, n)]
           Q == {d \in 1..MaxDepth : \E f : IsNormal(f, d)}
<1>0. MaxDepth \in Nat \ {0}
  BY DEF QueryAssumption
<1>1. 1 \in Q
  <2> DEFINE f == [k \in Conditions |-> NormalForm(Conditions, k)]
  <2>1. \A k \in Conditions : NormalForm(f, k) = NormalForm(Conditions, k)
    <3> HIDE DEF f
    <3>1. \A k \in Conditions : k.op \notin Group
      BY DEF Conditions, Group
    <3> QED BY <3>1, NormalFormOfKids
  <2>2. f = [k \in Conditions |-> NormalForm(f, k)]
    <3>1. f = [k \in Conditions |-> NormalForm(Conditions, k)]
      OBVIOUS
    <3> HIDE DEF f
    <3> QED BY <2>1, <3>1
  <2>3. IsNormal(f, 1)
    BY <2>2, TreesGrow
  <2> HIDE DEF IsNormal
  <2> QED BY <1>0, <2>3
<1>2. ASSUME NEW e \in 1..(MaxDepth - 1), e \in Q PROVE e + 1 \in Q
  <2>1. PICK f : IsNormal(f, e)
    BY <1>2
  <2>2. e \in 1..MaxDepth /\ e + 1 \in 1..MaxDepth /\ e + 1 \in 2..MaxDepth /\ (e + 1) - 1 = e
    BY <1>0
  <2>3. Trees[e] \subseteq Trees[e + 1]
    BY <2>2, TreesGrow
  <2> DEFINE g == [k \in Trees[e + 1] |-> NormalForm(f, k)]
  <2>4. \A k \in Trees[e] : g[k] = f[k]
    BY <2>1, <2>3
  <2>5. ASSUME NEW k \in Trees[e + 1] PROVE NormalForm(g, k) = NormalForm(f, k)
    <3>1. k.op \in Group => \A i \in DOMAIN k.kids : f[k.kids[i]] = g[k.kids[i]]
      <4> HIDE DEF g
      <4> QED BY <2>4, KidsAreSmaller DEF KidsIn
    <3> HIDE DEF g
    <3> QED BY <3>1, NormalFormOfKids
  <2>6. IsNormal(g, e + 1)
    <3>1. g = [k \in Trees[e + 1] |-> NormalForm(f, k)]
      OBVIOUS
    <3> HIDE DEF g
    <3> QED BY <2>5, <3>1
  <2> HIDE DEF IsNormal
  <2> QED BY <2>2, <2>6
<1>3. \E f : IsNormal(f, MaxDepth)
  <2> HIDE DEF Q
  <2>1. \A k \in 1..(MaxDepth - 1) : k \in Q => k + 1 \in Q
    BY <1>2
  <2>2. 1..MaxDepth \subseteq Q
    BY <1>0, <1>1, <2>1, Climbs
  <2>3. MaxDepth \in Q
    BY <1>0, <2>2
  <2> QED BY <2>3 DEF Q
<1>4. Normalize = CHOOSE f : IsNormal(f, MaxDepth)
  BY DEF Normalize, NormalForm, Regroup, FlatKids, FlatIn
<1> HIDE DEF IsNormal
<1>5. IsNormal(Normalize, MaxDepth)
  BY <1>3, <1>4
<1> QED BY <1>5 DEF IsNormal

(* A set that is put in order stays that set. *)
LEMMA SortedOnceHasAll ==
  ASSUME NEW S, IsFiniteSet(S)
  PROVE  SortedOnce(S) \in Seq(S) /\ Range(SortedOnce(S)) = S
<1>1. Cardinality(S) \in Nat /\ ExistsBijection(1..Cardinality(S), S)
  BY FS_CardinalityType
<1> DEFINE P(f) == f \in [1..Cardinality(S) -> S] /\ IsInjective(f)
           s == SortedOnce(S)
<1>2. PICK b : b \in Bijection(1..Cardinality(S), S)
  BY <1>1 DEF ExistsBijection
<1>3. s \in [1..Cardinality(S) -> S] /\ IsInjective(s)
  <2>1. b \in [1..Cardinality(S) -> S] /\ IsInjective(b)
    BY <1>2 DEF Bijection, Injection
  <2>2. s = CHOOSE f \in [1..Cardinality(S) -> S] : IsInjective(f)
    BY DEF SortedOnce, SetToSeq
  <2> QED BY <2>1, <2>2
<1> HIDE DEF s
<1>4. s \in Injection(1..Cardinality(S), S)
  BY <1>3 DEF Injection
<1>5. Cardinality(1..Cardinality(S)) = Cardinality(S)
  BY <1>1, FS_Interval
<1>6. s \in Surjection(1..Cardinality(S), S)
  BY <1>4, <1>5, FS_Injection
<1>7. Range(s) = S
  BY <1>3, <1>6 DEF Surjection, Range
<1>8. s \in Seq(S)
  BY <1>1, <1>3
<1> QED BY <1>7, <1>8 DEF s

LEMMA RangeIsFinite ==
  ASSUME NEW S, NEW s \in Seq(S)
  PROVE  IsFiniteSet(Range(s)) /\ Range(s) \subseteq S
<1>1. s \in Surjection(DOMAIN s, Range(s))
  BY DEF Surjection, Range
<1>2. DOMAIN s = 1..Len(s) /\ Len(s) \in Nat
  OBVIOUS
<1>3. IsFiniteSet(DOMAIN s)
  BY <1>2, FS_Interval
<1>4. IsFiniteSet(Range(s))
  BY <1>1, <1>3, FS_Surjection
<1> QED BY <1>4 DEF Range

Evaluates(f, leaf) == f = [k \in Trees[MaxDepth] |-> Value(f, leaf, k)]

(* A member may dissolve into its own members if it is of the kind of its group. *)
LEMMA FlatteningKeeps ==
  ASSUME QueryAssumption, NEW e \in 1..MaxDepth, NEW m \in Trees[e], NEW op \in Group,
         NEW ok, NEW leaf, Evaluates(ok, leaf)
  PROVE  /\ FlatIn(m, op) \subseteq Trees[e] /\ IsFiniteSet(FlatIn(m, op))
         /\ op = "and" => (ok[m] <=> \A k \in FlatIn(m, op) : ok[k])
         /\ op = "or" => (ok[m] <=> \E k \in FlatIn(m, op) : ok[k])
<1>0. MaxDepth \in Nat \ {0}
  BY DEF QueryAssumption
<1>1. CASE m.op = op
  <2>1. m \notin Conditions
    BY <1>1 DEF Conditions, Group
  <2>2. e > 1 /\ m.kids \in Seq(Trees[e - 1])
    BY <2>1, TreesNest
  <2>3. e \in 2..MaxDepth
    BY <2>2
  <2>4. Trees[e - 1] \subseteq Trees[e]
    BY <2>3, TreesGrow
  <2>5. FlatIn(m, op) = Range(m.kids)
    BY <1>1 DEF FlatIn
  <2>6. Range(m.kids) \subseteq Trees[e - 1] /\ IsFiniteSet(Range(m.kids))
    BY <2>2, RangeIsFinite
  <2>7. ok[m] = Value(ok, leaf, m)
    BY TreesNest DEF Evaluates
  <2>8. op = "and" => (ok[m] <=> \A i \in DOMAIN m.kids : ok[m.kids[i]])
    BY <1>1, <2>7 DEF Value
  <2>9. op = "or" => (ok[m] <=> \E i \in DOMAIN m.kids : ok[m.kids[i]])
    BY <1>1, <2>7 DEF Value
  <2>10. Range(m.kids) = {m.kids[i] : i \in DOMAIN m.kids}
    BY DEF Range
  <2> QED BY <2>4, <2>5, <2>6, <2>8, <2>9, <2>10
<1>2. CASE m.op # op
  BY <1>2, FS_Singleton DEF FlatIn
<1> QED BY <1>1, <1>2

(* A group may lose order and repetition, and stand for its only member. *)
LEMMA RegroupingKeeps ==
  ASSUME QueryAssumption, NEW e \in 1..(MaxDepth - 1), NEW n \in Trees[e + 1], n.op \in Group,
         NEW flat \in SUBSET Trees[e], IsFiniteSet(flat),
         NEW ok, NEW leaf, Evaluates(ok, leaf)
  PROVE  /\ Regroup(n, flat) \in Trees[e + 1]
         /\ n.op = "and" => (ok[Regroup(n, flat)] <=> \A k \in flat : ok[k])
         /\ n.op = "or" => (ok[Regroup(n, flat)] <=> \E k \in flat : ok[k])
<1>0. MaxDepth \in Nat \ {0}
  BY DEF QueryAssumption
<1>1. e + 1 \in 2..MaxDepth /\ e + 1 \in 1..MaxDepth /\ (e + 1) - 1 = e
  BY <1>0
<1>2. Trees[e + 1] = Trees[e] \cup [op : Group, kids : Seq(Trees[e])]
  BY <1>1, TreesGrow
<1>3. n \in [op : Group, kids : Seq(Trees[e])]
  BY KidsAreSmaller
<1>4. CASE \E k \in flat : flat = {k}
  <2>1. PICK k \in flat : flat = {k}
    BY <1>4
  <2>2. Regroup(n, flat) = k
    BY <2>1 DEF Regroup
  <2> QED BY <1>2, <2>1, <2>2
<1>5. CASE ~ \E k \in flat : flat = {k}
  <2> DEFINE s == SortedOnce(flat)
             r == [n EXCEPT !.kids = s]
  <2>1. Regroup(n, flat) = r
    BY <1>5 DEF Regroup
  <2>2. s \in Seq(flat) /\ Range(s) = flat
    BY SortedOnceHasAll
  <2> HIDE DEF s
  <2>3. s \in Seq(Trees[e])
    BY <2>2
  <2>4. r \in [op : Group, kids : Seq(Trees[e])] /\ r.op = n.op /\ r.kids = s
    BY <1>3, <2>3
  <2> HIDE DEF r
  <2>5. r \in Trees[e + 1] /\ r \in Trees[MaxDepth]
    BY <1>1, <1>2, <2>4, TreesNest
  <2>6. ok[r] = Value(ok, leaf, r)
    BY <2>5 DEF Evaluates
  <2>7. n.op = "and" => (ok[r] <=> \A i \in DOMAIN s : ok[s[i]])
    BY <2>4, <2>6 DEF Value
  <2>8. n.op = "or" => (ok[r] <=> \E i \in DOMAIN s : ok[s[i]])
    BY <2>4, <2>6 DEF Value
  <2>9. flat = {s[i] : i \in DOMAIN s}
    BY <2>2 DEF Range
  <2> QED BY <2>1, <2>5, <2>7, <2>8, <2>9
<1> QED BY <1>4, <1>5

(* A normal form evaluates to what its tree does, if the conditions' ones do. *)
LEMMA NormalizingKeeps ==
  ASSUME QueryAssumption,
         NEW ok, NEW leaf, Evaluates(ok, leaf), NEW means, NEW meant, Evaluates(means, meant),
         \A n \in Conditions : /\ NormalForm(Normalize, n) \in Conditions
                               /\ leaf[NormalForm(Normalize, n)] <=> meant[n]
  PROVE  \A n \in Trees[MaxDepth] : ok[Normalize[n]] <=> means[n]
<1> DEFINE Kept(d, n) == Normalize[n] \in Trees[d] /\ (ok[Normalize[n]] <=> means[n])
           Q == {d \in 1..MaxDepth : \A n \in Trees[d] : Kept(d, n)}
<1>0. MaxDepth \in Nat \ {0}
  BY DEF QueryAssumption
<1>1. \A d \in 1..MaxDepth : \A n \in Trees[d] :
        /\ Normalize[n] = NormalForm(Normalize, n)
        /\ ok[n] = Value(ok, leaf, n)
        /\ means[n] = Value(means, meant, n)
  <2>1. \A n \in Trees[MaxDepth] : Normalize[n] = NormalForm(Normalize, n)
    BY Normalization
  <2> QED BY <2>1, TreesNest DEF Evaluates
<1>2. ASSUME NEW d \in 1..MaxDepth, NEW n \in Conditions PROVE Kept(d, n)
  <2>1. Conditions \subseteq Trees[d]
    BY TreesNest
  <2>2. \A k \in Conditions : Value(ok, leaf, k) = leaf[k] /\ Value(means, meant, k) = meant[k]
    BY DEF Value, Conditions
  <2>3. Normalize[n] = NormalForm(Normalize, n) /\ Normalize[n] \in Conditions
    BY <1>1, <2>1
  <2>4. ok[Normalize[n]] = leaf[Normalize[n]] /\ means[n] = meant[n]
    BY <1>1, <2>1, <2>2, <2>3
  <2> QED BY <2>1, <2>3, <2>4
<1>3. 1 \in Q
  BY <1>0, <1>2, TreesGrow
<1>4. ASSUME NEW e \in 1..(MaxDepth - 1), e \in Q PROVE e + 1 \in Q
  <2>1. e \in 1..MaxDepth /\ e + 1 \in 1..MaxDepth
    BY <1>0
  <2> SUFFICES ASSUME NEW n \in Trees[e + 1], n \notin Conditions PROVE Kept(e + 1, n)
    BY <1>2, <2>1
  <2>2. n.op \in Group
    <3>1. (e + 1) - 1 = e
      OBVIOUS
    <3>2. n \in [op : Group, kids : Seq(Trees[e])]
      BY <2>1, <3>1, TreesNest
    <3> QED BY <3>2
  <2>3. n \in [op : Group, kids : Seq(Trees[e])] /\ KidsIn(n, Trees[e])
    BY <2>2, KidsAreSmaller
  <2>4. \A i \in DOMAIN n.kids : /\ Normalize[n.kids[i]] \in Trees[e]
                                 /\ ok[Normalize[n.kids[i]]] <=> means[n.kids[i]]
    BY <1>4, <2>3 DEF KidsIn
  <2> DEFINE m == [i \in DOMAIN n.kids |-> Normalize[n.kids[i]]]
             flat == FlatKids(Normalize, n)
  <2>5. flat = UNION {FlatIn(m[i], n.op) : i \in DOMAIN n.kids}
    BY DEF FlatKids
  <2>6. \A i \in DOMAIN n.kids : m[i] \in Trees[e] /\ (ok[m[i]] <=> means[n.kids[i]])
    BY <2>4
  <2> HIDE DEF flat, m
  <2>7. \A i \in DOMAIN n.kids :
          /\ FlatIn(m[i], n.op) \subseteq Trees[e] /\ IsFiniteSet(FlatIn(m[i], n.op))
          /\ n.op = "and" => (ok[m[i]] <=> \A k \in FlatIn(m[i], n.op) : ok[k])
          /\ n.op = "or" => (ok[m[i]] <=> \E k \in FlatIn(m[i], n.op) : ok[k])
    BY <2>1, <2>2, <2>6, FlatteningKeeps
  <2>8. flat \in SUBSET Trees[e] /\ IsFiniteSet(flat)
    <3> DEFINE F == [i \in DOMAIN n.kids |-> FlatIn(m[i], n.op)]
    <3>1. F \in Surjection(DOMAIN n.kids, Range(F))
      BY DEF Surjection, Range
    <3>2. n.kids \in Seq(Trees[e])
      BY <2>3
    <3>3. DOMAIN n.kids = 1..Len(n.kids) /\ Len(n.kids) \in Nat
      BY <3>2
    <3>4. IsFiniteSet(DOMAIN n.kids)
      BY <3>3, FS_Interval
    <3>5. IsFiniteSet(Range(F))
      BY <3>1, <3>4, FS_Surjection
    <3>6. \A S \in Range(F) : IsFiniteSet(S) /\ S \subseteq Trees[e]
      BY <2>7 DEF Range
    <3>7. flat = UNION Range(F)
      BY <2>5 DEF Range
    <3> HIDE DEF F
    <3> QED BY <3>5, <3>6, <3>7, FS_UNION
  <2>9. n.op = "and" => ((\A k \in flat : ok[k]) <=> \A i \in DOMAIN n.kids : means[n.kids[i]])
    BY <2>5, <2>6, <2>7
  <2>10. n.op = "or" => ((\E k \in flat : ok[k]) <=> \E i \in DOMAIN n.kids : means[n.kids[i]])
    BY <2>5, <2>6, <2>7
  <2>11. Normalize[n] = Regroup(n, flat)
    BY <1>1, <2>1, <2>2 DEF NormalForm, Group, flat
  <2>12. /\ Regroup(n, flat) \in Trees[e + 1]
         /\ n.op = "and" => (ok[Regroup(n, flat)] <=> \A k \in flat : ok[k])
         /\ n.op = "or" => (ok[Regroup(n, flat)] <=> \E k \in flat : ok[k])
    BY <2>2, <2>8, RegroupingKeeps
  <2>13. means[n] = Value(means, meant, n)
    BY <1>1, <2>1
  <2>14. n.op = "and" => (means[n] <=> \A i \in DOMAIN n.kids : means[n.kids[i]])
    BY <2>13 DEF Value
  <2>15. n.op = "or" => (means[n] <=> \E i \in DOMAIN n.kids : means[n.kids[i]])
    BY <2>13 DEF Value
  <2> QED BY <2>2, <2>9, <2>10, <2>11, <2>12, <2>14, <2>15 DEF Group
<1>5. MaxDepth \in Q
  <2> HIDE DEF Q
  <2>1. \A k \in 1..(MaxDepth - 1) : k \in Q => k + 1 \in Q
    BY <1>4
  <2>2. 1..MaxDepth \subseteq Q
    BY <1>0, <1>3, <2>1, Climbs
  <2> QED BY <1>0, <2>2
<1> QED BY <1>5

(* A list and its permutations have the same permutations. *)
LEMMA ArrangementsAgree ==
  ASSUME NEW S, NEW s \in Seq(S), NEW t \in Arrangements(s)
  PROVE  /\ t \in Seq(S) /\ Len(t) = Len(s)
         /\ Arrangements(t) = Arrangements(s)
<1> DEFINE D == DOMAIN s
<1>1. D = 1..Len(s) /\ Len(s) \in Nat
  OBVIOUS
<1>2. PICK p \in Bijection(D, D) : t = [i \in D |-> s[p[i]]]
  BY DEF Arrangements
<1>3. p \in [D -> D]
  BY <1>2, Fun_BijectionProperties
<1>4. t \in Seq(S) /\ Len(t) = Len(s) /\ DOMAIN t = D
  BY <1>1, <1>2, <1>3
<1> DEFINE q == Inverse(p, D, D)
<1>5. q \in Bijection(D, D) /\ \A i \in D : q[p[i]] = i
  BY <1>2, Fun_BijInverse
<1>6. \A i \in D : p[q[i]] = i
  <2>1. \A i \in D : \E j \in D : p[j] = i
    BY <1>2, Fun_BijectionProperties
  <2> QED BY <1>3, <1>5, <2>1
<1> HIDE DEF D, q
<1>7. ASSUME NEW u \in Arrangements(t) PROVE u \in Arrangements(s)
  <2>1. PICK r \in Bijection(D, D) : u = [i \in D |-> t[r[i]]]
    BY <1>4, <1>7 DEF Arrangements
  <2>2. [i \in D |-> p[r[i]]] \in Bijection(D, D)
    BY <1>2, <2>1, Fun_BijTransitive
  <2>3. r \in [D -> D]
    BY <2>1, Fun_BijectionProperties
  <2>4. u = [i \in D |-> s[[j \in D |-> p[r[j]]][i]]]
    BY <1>2, <2>1, <2>3
  <2> QED BY <2>2, <2>4 DEF Arrangements, D
<1>8. ASSUME NEW u \in Arrangements(s) PROVE u \in Arrangements(t)
  <2>1. PICK r \in Bijection(D, D) : u = [i \in D |-> s[r[i]]]
    BY <1>8 DEF Arrangements, D
  <2>2. [i \in D |-> q[r[i]]] \in Bijection(D, D)
    BY <1>5, <2>1, Fun_BijTransitive
  <2>3. r \in [D -> D] /\ q \in [D -> D]
    BY <1>5, <2>1, Fun_BijectionProperties
  <2>4. \A i \in D : s[r[i]] = t[q[r[i]]]
    BY <1>2, <1>6, <2>3
  <2>5. u = [i \in D |-> t[[j \in D |-> q[r[j]]][i]]]
    BY <2>1, <2>4
  <2> QED BY <1>4, <2>2, <2>5 DEF Arrangements
<1> QED BY <1>4, <1>7, <1>8

LEMMA PairMembersArranged ==
  ASSUME NEW S, NEW s \in Seq(S)
  PROVE  PairMembers(s) \in Arrangements(s)
<1> DEFINE D == DOMAIN s
<1>1. \E p : p \in Bijection(D, D)
  BY Fun_ExistsBijReflexive DEF ExistsBijection
<1> QED BY <1>1 DEF Arrangements, PairMembers

(* A couple fits if its members can be matched with the names one to one. *)
LEMMA FittingIsMatching ==
  ASSUME NEW S, NEW names \in Seq(S), NEW T, NEW members \in Seq(T)
  PROVE  Fits(members, names) <=>
           \E f \in Bijection(DOMAIN members, DOMAIN names) :
             \A i \in DOMAIN members :
               Canonical[members[i]] \in Named[Characters][names[f[i]]]
<1>1. /\ DOMAIN members = 1..Len(members) /\ Len(members) \in Nat
      /\ DOMAIN names = 1..Len(names) /\ Len(names) \in Nat
  OBVIOUS
<1>2. CASE Len(members) = Len(names)
  <2> DEFINE D == DOMAIN names
  <2>1. DOMAIN members = D
    BY <1>1, <1>2
  <2>2. Fits(members, names) <=>
          \E p \in Bijection(D, D) : \A i \in D :
            Canonical[members[i]] \in Named[Characters][[j \in D |-> names[p[j]]][i]]
    BY <1>2, <2>1 DEF Fits, Arrangements
  <2> QED BY <2>1, <2>2
<1>3. CASE Len(members) # Len(names)
  <2>1. ASSUME NEW f \in Bijection(DOMAIN members, DOMAIN names) PROVE FALSE
    <3>1. ExistsBijection(1..Len(members), 1..Len(names))
      BY <1>1, <2>1 DEF ExistsBijection
    <3>2. Cardinality(1..Len(names)) = Cardinality(1..Len(members))
      BY <1>1, <3>1, FS_Bijection, FS_Interval
    <3>3. \A n \in Nat : Cardinality(1..n) = n
      BY FS_Interval
    <3> QED BY <1>1, <1>3, <3>2, <3>3
  <2> QED BY <1>3, <2>1 DEF Fits
<1> QED BY <1>2, <1>3

(* The conditions as evaluate_subset takes them, and the functions it stands for. *)
HoldsLeaf(b) ==
  [k \in Trees[MaxDepth] |->
     IF k.op = "q" THEN <<k.question, k.option>> \in b.answers
     ELSE IF k.op = "any" THEN \E i \in DOMAIN k.names :
                                 Named[k.cat][k.names[i]] \cap Canon(b.picks[k.cat]) # {}
     ELSE IF k.op = "first" THEN Named[k.cat][k.name] \cap Canon(b.first[k.cat]) # {}
     ELSE \E members \in b.pairs : Fits(members, k.names)]

LEMMA HoldsEvaluates ==
  ASSUME QueryAssumption, NEW b
  PROVE  \E ok : Evaluates(ok, HoldsLeaf(b)) /\ \A n : Holds(n, b) = ok[n]
<1> DEFINE IsOk(f) ==
      f = [k \in Trees[MaxDepth] |->
        CASE k.op = "and"   -> \A i \in DOMAIN k.kids : f[k.kids[i]]
          [] k.op = "or"    -> \E i \in DOMAIN k.kids : f[k.kids[i]]
          [] k.op = "q"     -> <<k.question, k.option>> \in b.answers
          [] k.op = "any"   -> \E i \in DOMAIN k.names :
                                 Named[k.cat][k.names[i]] \cap Canon(b.picks[k.cat]) # {}
          [] k.op = "first" -> Named[k.cat][k.name] \cap Canon(b.first[k.cat]) # {}
          [] OTHER          -> \E members \in b.pairs : Fits(members, k.names)]
<1> DEFINE ok == CHOOSE f : IsOk(f)
<1>1. \A n : Holds(n, b) = ok[n]
  BY DEF Holds
<1>2. ASSUME NEW f PROVE IsOk(f) <=> Evaluates(f, HoldsLeaf(b))
  BY DEF Evaluates, Value, HoldsLeaf
<1> HIDE DEF IsOk
<1>3. \E f : IsOk(f)
  BY <1>2, Evaluation DEF Evaluates
<1>4. IsOk(ok)
  BY <1>3
<1> QED BY <1>1, <1>2, <1>4

(* The conditions as an author means them. *)
MeansLeaf(b) ==
  [k \in Trees[MaxDepth] |->
     IF k.op = "q" THEN <<k.question, k.option>> \in b.answers
     ELSE IF k.op = "any" THEN \E i \in DOMAIN k.names, t \in b.picks[k.cat] :
                                 Canonical[t] \in Named[k.cat][k.names[i]]
     ELSE IF k.op = "first" THEN \E t \in b.first[k.cat] :
                                   Canonical[t] \in Named[k.cat][k.name]
     ELSE \E members \in b.pairs :
            \E f \in Bijection(DOMAIN members, DOMAIN k.names) :
              \A i \in DOMAIN members :
                Canonical[members[i]] \in Named[Characters][k.names[f[i]]]]

LEMMA MeansEvaluates ==
  ASSUME QueryAssumption, NEW b
  PROVE  \E means : Evaluates(means, MeansLeaf(b)) /\ \A n : Means(n, b) = means[n]
<1> DEFINE IsMeant(f) ==
      f = [k \in Trees[MaxDepth] |->
        CASE k.op = "and"   -> \A i \in DOMAIN k.kids : f[k.kids[i]]
          [] k.op = "or"    -> \E i \in DOMAIN k.kids : f[k.kids[i]]
          [] k.op = "q"     -> <<k.question, k.option>> \in b.answers
          [] k.op = "any"   -> \E i \in DOMAIN k.names, t \in b.picks[k.cat] :
                                 Canonical[t] \in Named[k.cat][k.names[i]]
          [] k.op = "first" -> \E t \in b.first[k.cat] :
                                 Canonical[t] \in Named[k.cat][k.name]
          [] OTHER          -> \E members \in b.pairs :
                                 \E fn \in Bijection(DOMAIN members, DOMAIN k.names) :
                                   \A i \in DOMAIN members :
                                     Canonical[members[i]] \in Named[Characters][k.names[fn[i]]]]
<1> DEFINE means == CHOOSE f : IsMeant(f)
<1>1. \A n : Means(n, b) = means[n]
  BY DEF Means
<1>2. ASSUME NEW f PROVE IsMeant(f) <=> Evaluates(f, MeansLeaf(b))
  BY DEF Evaluates, Value, MeansLeaf
<1> HIDE DEF IsMeant
<1>3. \E f : IsMeant(f)
  BY <1>2, Evaluation DEF Evaluates
<1>4. IsMeant(means)
  BY <1>3
<1> QED BY <1>1, <1>2, <1>4

(* Lists of names lose order, and repetition where that does not matter. *)
LEMMA ConditionsKeep ==
  ASSUME QueryAssumption, NEW b \in Ballot, NEW n \in Conditions
  PROVE  /\ NormalForm(Normalize, n) \in Conditions
         /\ HoldsLeaf(b)[NormalForm(Normalize, n)] <=> MeansLeaf(b)[n]
<1> DEFINE r == NormalForm(Normalize, n)
<1>0. Conditions \subseteq Trees[MaxDepth]
  <2>1. MaxDepth \in 1..MaxDepth
    BY DEF QueryAssumption
  <2> QED BY <2>1, TreesNest
<1>1. CASE n \in [op : {"q"}, question : STRING, option : STRING]
  <2>1. r = n
    BY <1>1 DEF NormalForm, Group
  <2> QED BY <1>0, <1>1, <2>1 DEF HoldsLeaf, MeansLeaf
<1>2. CASE n \in [op : {"first"}, cat : Categories, name : QueryNames]
  <2>1. r = n
    BY <1>2 DEF NormalForm, Group
  <2>2. Named[n.cat][n.name] \cap Canon(b.first[n.cat]) # {} <=>
          \E t \in b.first[n.cat] : Canonical[t] \in Named[n.cat][n.name]
    BY DEF Canon
  <2> QED BY <1>0, <1>2, <2>1, <2>2 DEF HoldsLeaf, MeansLeaf
<1>3. CASE n \in [op : {"any"}, cat : Categories, names : Seq(QueryNames)]
  <2> DEFINE s == SortedOnce(Range(n.names))
  <2>1. r = [n EXCEPT !.names = s]
    BY <1>3 DEF NormalForm, Group
  <2>2. IsFiniteSet(Range(n.names)) /\ Range(n.names) \subseteq QueryNames
    BY <1>3, RangeIsFinite
  <2>3. s \in Seq(Range(n.names)) /\ Range(s) = Range(n.names)
    BY <2>2, SortedOnceHasAll
  <2> HIDE DEF s
  <2>4. s \in Seq(QueryNames)
    BY <2>2, <2>3
  <2>5. r \in [op : {"any"}, cat : Categories, names : Seq(QueryNames)] /\ r.names = s /\ r.cat = n.cat
    BY <1>3, <2>1, <2>4
  <2>6. \A x : (\E i \in DOMAIN s : s[i] = x) <=> \E i \in DOMAIN n.names : n.names[i] = x
    BY <2>3 DEF Range
  <2>7. \A x : Named[n.cat][x] \cap Canon(b.picks[n.cat]) # {} <=>
                 \E t \in b.picks[n.cat] : Canonical[t] \in Named[n.cat][x]
    BY DEF Canon
  <2>8. (\E i \in DOMAIN s : Named[n.cat][s[i]] \cap Canon(b.picks[n.cat]) # {}) <=>
        (\E i \in DOMAIN n.names, t \in b.picks[n.cat] : Canonical[t] \in Named[n.cat][n.names[i]])
    BY <2>6, <2>7
  <2>9. r \in Conditions
    BY <2>5 DEF Conditions
  <2>10. HoldsLeaf(b)[r] <=> \E i \in DOMAIN s : Named[n.cat][s[i]] \cap Canon(b.picks[n.cat]) # {}
    <3> HIDE DEF r
    <3> QED BY <1>0, <2>5, <2>9 DEF HoldsLeaf
  <2>11. MeansLeaf(b)[n] <=>
           \E i \in DOMAIN n.names, t \in b.picks[n.cat] : Canonical[t] \in Named[n.cat][n.names[i]]
    BY <1>0, <1>3 DEF MeansLeaf
  <2> QED BY <2>8, <2>9, <2>10, <2>11
<1>4. CASE n \in [op : {"cp"}, names : Seq(QueryNames)]
  <2> DEFINE s == PairMembers(n.names)
  <2>1. r = [n EXCEPT !.names = s]
    BY <1>4 DEF NormalForm, Group
  <2>2. s \in Arrangements(n.names)
    BY <1>4, PairMembersArranged
  <2> HIDE DEF s
  <2>3. s \in Seq(QueryNames) /\ Len(s) = Len(n.names) /\ Arrangements(s) = Arrangements(n.names)
    BY <1>4, <2>2, ArrangementsAgree
  <2>4. r \in [op : {"cp"}, names : Seq(QueryNames)] /\ r.names = s
    BY <1>4, <2>1, <2>3
  <2>5. r \in Conditions
    BY <2>4 DEF Conditions
  <2>6. \A members : Fits(members, s) <=> Fits(members, n.names)
    BY <2>3 DEF Fits
  <2>7. HoldsLeaf(b)[r] <=> \E members \in b.pairs : Fits(members, s)
    <3> HIDE DEF r
    <3> QED BY <1>0, <2>4, <2>5 DEF HoldsLeaf
  <2>8. MeansLeaf(b)[n] <=>
          \E members \in b.pairs :
            \E f \in Bijection(DOMAIN members, DOMAIN n.names) :
              \A i \in DOMAIN members :
                Canonical[members[i]] \in Named[Characters][n.names[f[i]]]
    BY <1>0, <1>4 DEF MeansLeaf
  <2>9. \A members \in b.pairs : members \in Seq(Tokens)
    BY DEF Ballot
  <2>10. \A members \in b.pairs :
           Fits(members, n.names) <=>
             \E f \in Bijection(DOMAIN members, DOMAIN n.names) :
               \A i \in DOMAIN members :
                 Canonical[members[i]] \in Named[Characters][n.names[f[i]]]
    BY <1>4, <2>9, FittingIsMatching
  <2> QED BY <2>5, <2>6, <2>7, <2>8, <2>10
<1> QED BY <1>1, <1>2, <1>3, <1>4 DEF Conditions

(* The normal form holds for the ballots the query means. *)
LEMMA NormalFormsMean ==
  ASSUME QueryAssumption, NEW b \in Ballot, NEW n \in Trees[MaxDepth]
  PROVE  Holds(Normalize[n], b) <=> Means(n, b)
<1>1. PICK ok : Evaluates(ok, HoldsLeaf(b)) /\ \A k : Holds(k, b) = ok[k]
  BY HoldsEvaluates
<1>2. PICK means : Evaluates(means, MeansLeaf(b)) /\ \A k : Means(k, b) = means[k]
  BY MeansEvaluates
<1>3. ok[Normalize[n]] <=> means[n]
  BY <1>1, <1>2, ConditionsKeep, NormalizingKeeps
<1> QED BY <1>1, <1>2, <1>3

----
(* The cached computation.                                                    *)

Snapshots == [Voters -> DOMAIN Content \cup {Nothing}]

(* An entry under f has the voters, among the ballots it saw, for whom the normal    *)
(* form with that fingerprint holds.                                                 *)
Consistent(e, f) ==
  /\ e.ballots \in Snapshots
  /\ \A q \in Accepted : Digest[Tree[q]] = f =>
       e.subset = {v \in Voted(e.ballots) : Holds(Tree[q], Content[e.ballots[v]])}

Over(f, D) == f = [x \in D |-> f[x]]

Busy == {"probe", "lock", "recheck", "poll", "follow", "count", "ttl", "load", "store",
         "unlock", "fail"}
Points == Busy \cup {"idle", "ranking", "global"} \cup Ended

(* Where a request may be, with which question. *)
Asking(p, q) ==
  p \in Busy \/ (p \in {"ranking", "global"} /\ q # NoQuery) => q \in Accepted

(* What the variables are, and that no version is from the future. *)
SearchShapes ==
  /\ pc \in [Callers -> Points]
  /\ asked \in [Callers -> Queries \cup {NoQuery}]
  /\ version \in [Callers -> Nat]
  /\ Over(read, Callers) /\ Over(answer, Callers) /\ Over(cache, Versions \X Fingerprints)
  /\ ballots \in Snapshots
  /\ cast \in Nat
  /\ loaded = Nothing \/ (loaded \in Nat /\ loaded <= cast)
  /\ main = Nothing \/ (main \in [version : 1..MaxClock, seen : Nat] /\ main.seen <= cast)
  /\ \A c \in Callers : version[c] <= Current /\ Asking(pc[c], asked[c])

(* Every entry, and every answer on its way, is consistent. *)
AnswersInv ==
  /\ \A c \in Callers : pc[c] = "store" => read[c].ballots \in Snapshots
  /\ \A i \in Versions \X Fingerprints : cache[i] # Nothing => Consistent(cache[i], i[2])
  /\ \A c \in Callers : pc[c] = "global" /\ asked[c] # NoQuery =>
       Consistent(answer[c], Fingerprint(c))

(* What has seen at least as much as the main results of its version. *)
AsOld(v, e, m) == m # Nothing /\ v = m.version => e.seen >= m.seen

(* No entry is from the future, none of the present is too old, and none will be. *)
AgeInv ==
  /\ \A c \in Callers : pc[c] = "store" => read[c].seen \in Nat /\ AsOld(version[c], read[c], main)
  /\ \A i \in Versions \X Fingerprints : cache[i] # Nothing =>
       i[1] <= Current /\ AsOld(i[1], cache[i], main)

CountersInv ==
  /\ \E T : pc \in [Callers -> T]
  /\ scope \in [Callers -> Counters \cup {Nothing}]
  /\ used \in [Counters -> Nat]
  /\ CountersAreMortal

(* Equal fingerprints mean equal normal forms. *)
LEMMA DigestTells ==
  ASSUME SearchAssumption, NEW q \in Accepted
  PROVE  /\ Digest[Tree[q]] \in Fingerprints
         /\ \A r \in Accepted : Digest[Tree[r]] = Digest[Tree[q]] => Tree[r] = Tree[q]
<1> DEFINE R == Range(Tree)
<1>1. IsFiniteSet(R)
  <2>1. IsFiniteSet(Accepted)
    <3>1. Accepted \in SUBSET Queries
      BY DEF Accepted
    <3> QED BY <3>1, FS_Subset DEF SearchAssumption
  <2>2. DOMAIN Tree = Accepted
    BY DEF Tree
  <2>3. Tree \in Surjection(Accepted, R)
    <3>1. Tree \in [Accepted -> R]
      BY DEF Tree, Range
    <3> QED BY <2>2, <3>1 DEF Surjection, Range
  <2> QED BY <2>1, <2>3, FS_Surjection
<1>2. ExistsBijection(Fingerprints, R)
  BY <1>1, FS_CardinalityType DEF Fingerprints
<1>3. PICK b : b \in Bijection(R, Fingerprints)
  BY <1>2, Fun_ExistsBijSymmetric DEF ExistsBijection
<1>4. \A r \in Accepted : Tree[r] \in R
  BY DEF Tree, Range
<1> HIDE DEF R
<1>5. b \in [R -> Fingerprints] /\ IsInjective(b)
  BY <1>3 DEF Bijection, Injection
<1>6. Digest = CHOOSE d \in [R -> Fingerprints] : IsInjective(d)
  BY DEF Digest, R
<1>7. Digest \in [R -> Fingerprints] /\ IsInjective(Digest)
  BY <1>5, <1>6
<1> QED BY <1>4, <1>7 DEF IsInjective

LEMMA CurrentIsAVersion ==
  ASSUME SearchAssumption, SearchShapes
  PROVE  Current \in Versions /\ \A c \in Callers : version[c] \in Versions
  BY DEF SearchAssumption, SearchShapes, Current, Versions

LEMMA EntryOfCaller ==
  ASSUME SearchAssumption, SearchShapes, NEW c \in Callers, asked[c] \in Accepted
  PROVE  Infix(c) \in Versions \X Fingerprints /\ Infix(c)[1] = version[c]
         /\ Infix(c)[2] = Fingerprint(c) /\ asked[c] # NoQuery
<1>1. version[c] \in Versions
  BY CurrentIsAVersion
<1>2. Fingerprint(c) \in Fingerprints
  BY DigestTells DEF Fingerprint
<1>3. asked[c] # NoQuery
  BY DEF Accepted, Queries
<1> QED BY <1>1, <1>2, <1>3 DEF Infix

LEMMA StillOver ==
  ASSUME NEW f, NEW D, Over(f, D), NEW x, NEW e
  PROVE  Over([f EXCEPT ![x] = e], D)
<1> DEFINE g == [f EXCEPT ![x] = e]
<1>1. DOMAIN g = D /\ g = [y \in DOMAIN g |-> g[y]]
  BY DEF Over
<1> HIDE DEF g
<1> QED BY <1>1 DEF Over, g

(* What a step of request c may do: it goes to p with question q, version n, *)
(* read r and answer e, and it may store what it has counted.               *)
Moves(c, p, q, n, r, e) ==
  /\ pc' = [pc EXCEPT ![c] = p] /\ p \in Points
  /\ asked' = [asked EXCEPT ![c] = q] /\ q \in Queries \cup {NoQuery} /\ Asking(p, q)
  /\ version' = [version EXCEPT ![c] = n] /\ n \in Nat /\ n <= Current
  /\ read' = [read EXCEPT ![c] = r]
  /\ p = "store" => r = [seen |-> cast, ballots |-> ballots]
  /\ answer' = [answer EXCEPT ![c] = e]
  /\ p = "global" /\ q # NoQuery => q = asked[c] /\ e = cache[Infix(c)] /\ e # Nothing
  /\ UNCHANGED world

Stores(c) ==
  /\ pc[c] = "store"
  /\ cache' = [cache EXCEPT ![Infix(c)] = Results(read[c], Tree[asked[c]])]

CallerMoves(c) ==
  /\ \E p, q, n, r, e : Moves(c, p, q, n, r, e)
  /\ UNCHANGED cache \/ Stores(c)

LEMMA CallersMove ==
  ASSUME SearchAssumption, SearchShapes, NEW c \in Callers,
         CallerStep(c) \/ Crash(c) \/ \E q \in Asks[c] : Ask(c, q)
  PROVE  CallerMoves(c)
<1>0. Current \in Nat
  BY CurrentIsAVersion DEF Versions
<1>c. /\ pc[c] \in Points /\ asked[c] \in Queries \cup {NoQuery}
      /\ version[c] \in Nat /\ version[c] <= Current
      /\ Asking(pc[c], asked[c])
      /\ UNCHANGED asked => asked' = [asked EXCEPT ![c] = asked[c]]
      /\ UNCHANGED version => version' = [version EXCEPT ![c] = version[c]]
      /\ UNCHANGED read => read' = [read EXCEPT ![c] = read[c]]
      /\ UNCHANGED answer => answer' = [answer EXCEPT ![c] = answer[c]]
  BY DEF SearchShapes, Over, Asking
<1>1. ASSUME NEW q \in Asks[c], Ask(c, q) PROVE CallerMoves(c)
  <2>1. q \in Queries \cup {NoQuery}
    BY DEF Queries
  <2> DEFINE p == IF q = NoQuery THEN "ranking" ELSE IF q \in Accepted THEN "probe" ELSE "refused"
  <2>2. p \in Points /\ Asking(p, q) /\ p # "store" /\ p # "global"
    BY DEF Asking, Busy, Points, Ended
  <2>3. /\ pc' = [pc EXCEPT ![c] = p] /\ asked' = [asked EXCEPT ![c] = q]
        /\ version' = [version EXCEPT ![c] = Current]
        /\ UNCHANGED <<world, cache, read, answer>>
    BY <1>1 DEF Ask
  <2> HIDE DEF p
  <2>4. Moves(c, p, q, Current, read[c], answer[c])
    BY <1>0, <1>c, <2>1, <2>2, <2>3 DEF Moves
  <2> QED BY <2>3, <2>4 DEF CallerMoves
<1>2. ASSUME NEW to \in (Busy \ {"store"}) \cup {"ranking"}, pc[c] \in Busy,
             pc' = [pc EXCEPT ![c] = to],
             UNCHANGED <<world, cache, asked, version, read, answer>>
      PROVE  CallerMoves(c)
  <2>1. to \in Points /\ Asking(to, asked[c]) /\ to # "store" /\ to # "global"
    BY <1>2, <1>c DEF Asking, Busy, Points, Ended
  <2>2. Moves(c, to, asked[c], version[c], read[c], answer[c])
    BY <1>2, <1>c, <2>1 DEF Moves
  <2> QED BY <1>2, <2>2 DEF CallerMoves
<1>3. ASSUME NEW to \in Ended, pc' = [pc EXCEPT ![c] = to], Ends(c), UNCHANGED <<world, cache>>
      PROVE  CallerMoves(c)
  <2>1. to \in Points /\ Asking(to, NoQuery) /\ to # "store"
    BY DEF Ended, Asking, Busy, Points
  <2>2. Moves(c, to, NoQuery, 0, Nothing, Nothing)
    BY <1>0, <1>3, <2>1 DEF Ends, Moves
  <2> QED BY <1>3, <2>2 DEF CallerMoves
<1> USE DEF Goto
<1>4. CASE Probe(c)
  BY <1>2, <1>4 DEF Probe, Busy
<1>5. CASE SetLock(c)
  BY <1>2, <1>5 DEF SetLock, Busy
<1>6. CASE Recheck(c)
  BY <1>2, <1>6 DEF Recheck, Busy
<1>7. CASE Poll(c)
  BY <1>2, <1>7 DEF Poll, Busy
<1>8. CASE Follow(c)
  BY <1>2, <1>8 DEF Follow, Busy
<1>9. CASE Incr(c)
  BY <1>2, <1>9 DEF Incr, AfterPaying, Busy
<1>10. CASE Expire(c)
  BY <1>2, <1>10 DEF Expire, AfterPaying, Busy
<1>11. CASE Load(c)
  <2> DEFINE known == AllKnown(Tree[asked[c]])
             to == IF known THEN "store" ELSE "fail"
             r == IF known THEN [seen |-> cast, ballots |-> ballots] ELSE read[c]
  <2>1. pc' = [pc EXCEPT ![c] = to] /\ UNCHANGED <<world, cache, asked, version, answer>>
    BY <1>11 DEF Load
  <2>2. to \in Points /\ Asking(to, asked[c]) /\ to # "global"
    BY <1>11, <1>c DEF Load, Asking, Busy, Points, Ended
  <2>3. read' = [read EXCEPT ![c] = r]
    BY <1>11, <1>c DEF Load
  <2>4. to = "store" => r = [seen |-> cast, ballots |-> ballots]
    OBVIOUS
  <2> HIDE DEF to, r, known
  <2>5. Moves(c, to, asked[c], version[c], r, answer[c])
    BY <1>c, <2>1, <2>2, <2>3, <2>4 DEF Moves
  <2> QED BY <2>1, <2>5 DEF CallerMoves
<1>12. CASE Store(c)
  <2>1. pc' = [pc EXCEPT ![c] = "unlock"] /\ UNCHANGED <<world, asked, version, read, answer>>
    BY <1>12 DEF Store
  <2>2. Asking("unlock", asked[c]) /\ "unlock" \in Points
    BY <1>12, <1>c DEF Store, Asking, Busy, Points, Ended
  <2>3. Stores(c)
    BY <1>12 DEF Store, Stores, StoredUnder
  <2>4. Moves(c, "unlock", asked[c], version[c], read[c], answer[c])
    BY <1>c, <2>1, <2>2 DEF Moves
  <2> QED BY <2>3, <2>4 DEF CallerMoves
<1>13. CASE Finally(c)
  BY <1>2, <1>3, <1>13 DEF Finally, Busy, Ended
<1>14. CASE ReadRanking(c)
  <2>1. CASE Entry(c) = Nothing
    BY <1>3, <1>14, <2>1 DEF ReadRanking, Ended
  <2>2. CASE Entry(c) # Nothing
    <3>1. /\ pc[c] = "ranking" /\ pc' = [pc EXCEPT ![c] = "global"]
          /\ answer' = [answer EXCEPT ![c] = Entry(c)]
          /\ UNCHANGED <<world, cache, asked, version, read>>
      BY <1>14, <2>2 DEF ReadRanking
    <3>2. Asking("global", asked[c]) /\ "global" \in Points
      BY <1>c, <3>1 DEF Asking, Busy, Points
    <3>3. asked[c] # NoQuery => Entry(c) = cache[Infix(c)]
      BY DEF Entry
    <3>4. Moves(c, "global", asked[c], version[c], read[c], Entry(c))
      BY <1>c, <2>2, <3>1, <3>2, <3>3 DEF Moves
    <3> QED BY <3>1, <3>4 DEF CallerMoves
  <2> QED BY <2>1, <2>2
<1>15. CASE ReadGlobal(c)
  BY <1>3, <1>15 DEF ReadGlobal, Ended
<1>16. CASE Crash(c)
  <2>1. Asking("crashed", asked[c]) /\ "crashed" \in Points
    BY DEF Asking, Busy, Points, Ended
  <2>2. Moves(c, "crashed", asked[c], 0, Nothing, answer[c])
    BY <1>0, <1>16, <1>c, <2>1 DEF Crash, Moves
  <2> QED BY <1>16, <2>2 DEF Crash, CallerMoves
<1> QED BY <1>1, <1>4, <1>5, <1>6, <1>7, <1>8, <1>9, <1>10, <1>11, <1>12, <1>13, <1>14, <1>15,
           <1>16 DEF CallerStep

LEMMA CallerKeepsShapes ==
  ASSUME SearchAssumption, SearchShapes, NEW c \in Callers, CallerMoves(c)
  PROVE  SearchShapes'
<1>0. PICK p, q, n, r, e : Moves(c, p, q, n, r, e)
  BY DEF CallerMoves
<1> USE <1>0 DEF Moves
<1>6. Over(cache', Versions \X Fingerprints)
  <2>1. Over(cache, Versions \X Fingerprints)
    BY DEF SearchShapes
  <2>2. CASE UNCHANGED cache
    BY <2>1, <2>2
  <2>3. CASE Stores(c)
    BY <2>1, <2>3, StillOver DEF Stores
  <2> QED BY <2>2, <2>3 DEF CallerMoves
<1>1. /\ pc' \in [Callers -> Points]
      /\ asked' \in [Callers -> Queries \cup {NoQuery}]
      /\ version' \in [Callers -> Nat]
  BY DEF SearchShapes
<1>2. Over(read', Callers) /\ Over(answer', Callers)
  BY StillOver DEF SearchShapes
<1>3. /\ UNCHANGED <<ballots, cast, loaded, main>>
      /\ Current' = Current
  BY DEF world, Current
<1>4. ASSUME NEW d \in Callers
      PROVE  /\ version'[d] <= Current
             /\ Asking(pc'[d], asked'[d])
  <2>1. version[d] <= Current /\ Asking(pc[d], asked[d])
    BY DEF SearchShapes
  <2>2. pc'[d] = (IF d = c THEN p ELSE pc[d]) /\ asked'[d] = (IF d = c THEN q ELSE asked[d])
        /\ version'[d] = IF d = c THEN n ELSE version[d]
    BY DEF SearchShapes
  <2> QED BY <2>1, <2>2
<1>5. /\ ballots' \in Snapshots
      /\ cast' \in Nat
      /\ loaded' = Nothing \/ (loaded' \in Nat /\ loaded' <= cast')
      /\ main' = Nothing \/ (main' \in [version : 1..MaxClock, seen : Nat] /\ main'.seen <= cast')
  BY <1>3 DEF SearchShapes
<1> QED BY <1>1, <1>2, <1>3, <1>4, <1>5, <1>6 DEF SearchShapes

(* The world moves on, the requests do not. *)
LEMMA WorldKeepsShapes ==
  ASSUME SearchAssumption, SearchShapes, UNCHANGED <<cache, pc, asked, version, read, answer>>,
         Current <= Current', Current' \in Nat, ballots' \in Snapshots,
         cast' \in Nat, loaded' = Nothing \/ (loaded' \in Nat /\ loaded' <= cast'),
         main' = Nothing \/ (main' \in [version : 1..MaxClock, seen : Nat] /\ main'.seen <= cast')
  PROVE  SearchShapes'
<1>1. Current \in Nat
  BY CurrentIsAVersion DEF Versions
<1>2. \A c \in Callers : version'[c] <= Current' /\ Asking(pc'[c], asked'[c])
  BY <1>1 DEF SearchShapes
<1>3. /\ pc' \in [Callers -> Points]
      /\ asked' \in [Callers -> Queries \cup {NoQuery}]
      /\ version' \in [Callers -> Nat]
      /\ Over(read', Callers) /\ Over(answer', Callers) /\ Over(cache', Versions \X Fingerprints)
  BY DEF SearchShapes
<1> QED BY <1>2, <1>3 DEF SearchShapes

LEMMA SearchShapesHold ==
  ASSUME SearchAssumption, SearchShapes, [SearchNext]_searchVars
  PROVE  SearchShapes'
<1>0. Current \in Nat
  BY CurrentIsAVersion DEF Versions
<1>s. UNCHANGED main => Current' = Current
  BY DEF Current
<1>w. /\ ballots \in Snapshots
      /\ cast \in Nat
      /\ loaded = Nothing \/ (loaded \in Nat /\ loaded <= cast)
      /\ main = Nothing \/ (main \in [version : 1..MaxClock, seen : Nat] /\ main.seen <= cast)
  BY DEF SearchShapes
<1>q. UNCHANGED <<world, cache, pc, asked, version, read, answer>> => SearchShapes'
  BY <1>0, <1>s, <1>w, WorldKeepsShapes DEF world
<1>1. ASSUME NEW v \in Voters, Vote(v) PROVE SearchShapes'
  <2>1. PICK b \in Late[v] : ballots' = [ballots EXCEPT ![v] = b]
    BY <1>1 DEF Vote
  <2>2. b \in DOMAIN Content
    BY <2>1 DEF SearchAssumption
  <2>3. ballots' \in Snapshots
    BY <1>w, <2>1, <2>2 DEF Snapshots
  <2>4. cast' = cast + 1 /\ UNCHANGED <<loaded, main, cache, pc, asked, version, read, answer>>
    BY <1>1 DEF Vote
  <2>5. /\ cast' \in Nat
        /\ loaded' = Nothing \/ (loaded' \in Nat /\ loaded' <= cast')
        /\ main' = Nothing \/ (main' \in [version : 1..MaxClock, seen : Nat] /\ main'.seen <= cast')
    BY <1>w, <2>4
  <2> QED BY <1>0, <1>s, <2>3, <2>4, <2>5, WorldKeepsShapes
<1>2. CASE ComputeAll
  <2>1. loaded' = cast /\ UNCHANGED <<ballots, cast, main, cache, pc, asked, version, read, answer>>
    BY <1>2 DEF ComputeAll
  <2>2. loaded' \in Nat /\ loaded' <= cast'
    BY <1>w, <2>1
  <2>3. main' = Nothing \/ (main' \in [version : 1..MaxClock, seen : Nat] /\ main'.seen <= cast')
    BY <1>w, <2>1
  <2> QED BY <1>0, <1>s, <1>w, <2>1, <2>2, <2>3, WorldKeepsShapes
<1>3. CASE Publish
  <2>1. PICK second \in 1..MaxClock :
          /\ second >= Current
          /\ main' = [version |-> second, seen |-> loaded]
    BY <1>0, <1>3 DEF Publish
  <2>2. loaded \in Nat /\ loaded <= cast
    BY <1>3 DEF Publish, SearchShapes
  <2>3. main' \in [version : 1..MaxClock, seen : Nat] /\ main'.seen <= cast
    BY <2>1, <2>2
  <2>4. Current' = second /\ second \in Nat
    BY <2>1, <2>2, <2>3 DEF Current, SearchAssumption
  <2>5. loaded' = Nothing /\ UNCHANGED <<ballots, cast, cache, pc, asked, version, read, answer>>
    BY <1>3 DEF Publish
  <2> QED BY <1>0, <1>w, <2>1, <2>3, <2>4, <2>5, WorldKeepsShapes
<1>4. ASSUME NEW f \in Fingerprints, LockRunsOut(f) PROVE SearchShapes'
  BY <1>4, <1>q DEF LockRunsOut
<1>5. ASSUME NEW s \in Counters, WindowEnds(s) PROVE SearchShapes'
  BY <1>5, <1>q DEF WindowEnds
<1>6. ASSUME NEW c \in Callers, CallerStep(c) \/ Crash(c) \/ \E q \in Asks[c] : Ask(c, q)
      PROVE  SearchShapes'
  BY <1>6, CallersMove, CallerKeepsShapes
<1>7. CASE UNCHANGED searchVars
  BY <1>7, <1>q DEF searchVars
<1> QED BY <1>1, <1>2, <1>3, <1>4, <1>5, <1>6, <1>7 DEF SearchNext

LEMMA AnswersKept ==
  ASSUME SearchAssumption, SearchShapes, AnswersInv, [SearchNext]_searchVars
  PROVE  AnswersInv'
<1>1. ASSUME UNCHANGED <<cache, pc, asked, read, answer>> PROVE AnswersInv'
  BY <1>1 DEF AnswersInv, Fingerprint
<1>2. ASSUME NEW c \in Callers, CallerStep(c) \/ Crash(c) \/ \E q \in Asks[c] : Ask(c, q)
      PROVE  AnswersInv'
  <2>0. CallerMoves(c)
    BY <1>2, CallersMove
  <2>1. PICK p, q, n, r, e : Moves(c, p, q, n, r, e)
    BY <2>0 DEF CallerMoves
  <2>2. \A d \in Callers :
          /\ pc'[d] = IF d = c THEN p ELSE pc[d]
          /\ asked'[d] = IF d = c THEN q ELSE asked[d]
          /\ read'[d] = IF d = c THEN r ELSE read[d]
          /\ answer'[d] = IF d = c THEN e ELSE answer[d]
    BY <2>1 DEF Moves, SearchShapes, Over
  <2>3. ASSUME NEW d \in Callers, pc'[d] = "store" PROVE read'[d].ballots \in Snapshots
    BY <2>1, <2>2, <2>3 DEF Moves, AnswersInv, SearchShapes
  <2>4. ASSUME NEW d \in Callers, pc'[d] = "global", asked'[d] # NoQuery
        PROVE  Consistent(answer'[d], Digest[Tree[asked'[d]]])
    <3>1. CASE d = c
      <4>1. e = cache[Infix(c)] /\ e # Nothing /\ q = asked[c] /\ asked[c] \in Accepted
        BY <2>1, <2>2, <2>4, <3>1 DEF Moves, Asking
      <4>2. Consistent(e, Fingerprint(c))
        BY <4>1, EntryOfCaller DEF AnswersInv
      <4> QED BY <2>2, <3>1, <4>1, <4>2 DEF Fingerprint
    <3>2. CASE d # c
      BY <2>2, <2>4, <3>2 DEF AnswersInv, Fingerprint
    <3> QED BY <3>1, <3>2
  <2>5. ASSUME NEW i \in Versions \X Fingerprints, cache'[i] # Nothing
        PROVE  Consistent(cache'[i], i[2])
    <3>1. CASE cache'[i] = cache[i]
      BY <2>5, <3>1 DEF AnswersInv
    <3>2. CASE Stores(c) /\ i = Infix(c)
      <4> DEFINE new == Results(read[c], Tree[asked[c]])
      <4>1. asked[c] \in Accepted
        BY <3>2 DEF Stores, SearchShapes, Asking, Busy
      <4>2. cache'[i] = new
        BY <3>2 DEF Stores, SearchShapes, Over
      <4>3. i[2] = Digest[Tree[asked[c]]]
        BY <3>2, <4>1, EntryOfCaller DEF Fingerprint
      <4>4. new.ballots = read[c].ballots
            /\ new.subset = {v \in Voted(new.ballots) : Holds(Tree[asked[c]], Content[new.ballots[v]])}
        BY DEF Results
      <4>5. new.ballots \in Snapshots
        BY <3>2, <4>4 DEF Stores, AnswersInv
      <4>6. \A k \in Accepted : Digest[Tree[k]] = i[2] => Tree[k] = Tree[asked[c]]
        BY <4>1, <4>3, DigestTells
      <4> HIDE DEF new
      <4>7. Consistent(new, i[2])
        BY <4>4, <4>5, <4>6 DEF Consistent
      <4> QED BY <4>2, <4>7
    <3> QED BY <2>0, <3>1, <3>2 DEF CallerMoves, Stores, SearchShapes, Over
  <2> QED BY <2>3, <2>4, <2>5 DEF AnswersInv, Fingerprint
<1>3. ASSUME NEW v \in Voters, Vote(v) PROVE AnswersInv'
  BY <1>1, <1>3 DEF Vote
<1>4. ASSUME NEW f \in Fingerprints, LockRunsOut(f) PROVE AnswersInv'
  BY <1>1, <1>4 DEF LockRunsOut
<1>5. ASSUME NEW s \in Counters, WindowEnds(s) PROVE AnswersInv'
  BY <1>1, <1>5 DEF WindowEnds
<1>6. CASE ComputeAll \/ Publish \/ UNCHANGED searchVars
  BY <1>1, <1>6 DEF ComputeAll, Publish, searchVars
<1> QED BY <1>2, <1>3, <1>4, <1>5, <1>6 DEF SearchNext

LEMMA AgesKept ==
  ASSUME SearchAssumption, SharedSeconds = FALSE, SearchShapes, AgeInv, [SearchNext]_searchVars
  PROVE  AgeInv'
<1>0. Current \in Nat
  BY CurrentIsAVersion DEF Versions
<1>1. ASSUME UNCHANGED <<main, cache, pc, version, read>> PROVE AgeInv'
  BY <1>1 DEF AgeInv, AsOld, Current
<1>2. ASSUME NEW c \in Callers, CallerStep(c) \/ Crash(c) \/ \E q \in Asks[c] : Ask(c, q)
      PROVE  AgeInv'
  <2>0. CallerMoves(c)
    BY <1>2, CallersMove
  <2>1. PICK p, q, n, r, e : Moves(c, p, q, n, r, e)
    BY <2>0 DEF CallerMoves
  <2>2. \A d \in Callers :
          /\ pc'[d] = IF d = c THEN p ELSE pc[d]
          /\ version'[d] = IF d = c THEN n ELSE version[d]
          /\ read'[d] = IF d = c THEN r ELSE read[d]
    BY <2>1 DEF Moves, SearchShapes, Over
  <2>3. UNCHANGED main /\ Current' = Current
    BY <2>1 DEF Moves, world, Current
  <2>4. ASSUME NEW d \in Callers, pc'[d] = "store"
        PROVE  read'[d].seen \in Nat /\ AsOld(version'[d], read'[d], main)
    <3>1. CASE d = c
      <4>1. read'[d] = [seen |-> cast, ballots |-> ballots]
        BY <2>1, <2>2, <2>4, <3>1 DEF Moves
      <4>2. cast \in Nat /\ (main # Nothing => cast >= main.seen)
        BY DEF SearchShapes
      <4> QED BY <4>1, <4>2 DEF AsOld
    <3>2. CASE d # c
      BY <2>2, <2>4, <3>2 DEF AgeInv
    <3> QED BY <3>1, <3>2
  <2>5. ASSUME NEW i \in Versions \X Fingerprints, cache'[i] # Nothing
        PROVE  i[1] <= Current /\ AsOld(i[1], cache'[i], main)
    <3>1. CASE cache'[i] = cache[i]
      BY <2>5, <3>1 DEF AgeInv
    <3>2. CASE Stores(c) /\ i = Infix(c)
      <4>1. asked[c] \in Accepted
        BY <3>2 DEF Stores, SearchShapes, Asking, Busy
      <4>2. cache'[i] = Results(read[c], Tree[asked[c]])
        BY <3>2 DEF Stores, SearchShapes, Over
      <4>3. cache'[i].seen = read[c].seen
        BY <4>2 DEF Results
      <4>4. i[1] = version[c] /\ version[c] <= Current
        BY <3>2, <4>1, EntryOfCaller DEF SearchShapes
      <4>5. AsOld(version[c], read[c], main)
        BY <3>2 DEF Stores, AgeInv
      <4> QED BY <4>3, <4>4, <4>5 DEF AsOld
    <3> QED BY <2>0, <3>1, <3>2 DEF CallerMoves, Stores, SearchShapes, Over
  <2> QED BY <2>3, <2>4, <2>5 DEF AgeInv
<1>3. CASE Publish
  <2>1. PICK second \in 1..MaxClock : second > Current /\ main' = [version |-> second, seen |-> loaded]
    BY <1>3 DEF Publish
  <2>2. main' \in [version : Nat, seen : Nat] /\ main'.version = second
    BY <1>3, <2>1 DEF Publish, SearchShapes
  <2>3. Current' = second
    BY <2>1, <2>2 DEF Current, SearchAssumption
  <2>4. UNCHANGED <<cache, pc, version, read>>
    BY <1>3 DEF Publish
  <2>5. \A c \in Callers : version[c] \in Nat /\ version[c] < second
    BY <1>0, <2>1 DEF SearchShapes
  <2>6. \A i \in Versions \X Fingerprints : cache[i] # Nothing => i[1] < second /\ i[1] \in Nat
    BY <1>0, <2>1 DEF AgeInv, Versions, SearchAssumption
  <2> QED BY <2>2, <2>3, <2>4, <2>5, <2>6 DEF AgeInv, AsOld
<1>4. ASSUME NEW v \in Voters, Vote(v) PROVE AgeInv'
  BY <1>1, <1>4 DEF Vote
<1>5. ASSUME NEW f \in Fingerprints, LockRunsOut(f) PROVE AgeInv'
  BY <1>1, <1>5 DEF LockRunsOut, world
<1>6. ASSUME NEW s \in Counters, WindowEnds(s) PROVE AgeInv'
  BY <1>1, <1>6 DEF WindowEnds, world
<1>7. CASE ComputeAll \/ UNCHANGED searchVars
  BY <1>1, <1>7 DEF ComputeAll, searchVars, world
<1> QED BY <1>2, <1>3, <1>4, <1>5, <1>6, <1>7 DEF SearchNext

LEMMA CountersKept ==
  ASSUME SearchAssumption, CountersInv, [SearchNext]_searchVars
  PROVE  CountersInv'
<1>1. ASSUME UNCHANGED <<pc, scope, used, mortal>> PROVE CountersInv'
  BY <1>1 DEF CountersInv, CountersAreMortal
<1>2. ASSUME NEW c \in Callers, NEW p, pc[c] # "ttl", pc[c] # "crashed",
             pc' = [pc EXCEPT ![c] = p], UNCHANGED <<used, mortal>>,
             scope' = scope \/ scope' = [scope EXCEPT ![c] = Nothing]
      PROVE  CountersInv'
  <2>1. scope' \in [Callers -> Counters \cup {Nothing}] /\ \E T : pc' \in [Callers -> T]
    <3>1. PICK T : pc \in [Callers -> T]
      BY DEF CountersInv
    <3>2. pc' \in [Callers -> T \cup {p}]
      BY <1>2, <3>1
    <3> QED BY <1>2, <3>2 DEF CountersInv
  <2>2. \A d \in Callers \ {c} : pc'[d] = pc[d] /\ scope'[d] = scope[d]
    BY <1>2 DEF CountersInv
  <2>3. CountersAreMortal'
    BY <1>2, <2>2 DEF CountersInv, CountersAreMortal
  <2> QED BY <1>2, <2>1, <2>3 DEF CountersInv
<1>3. ASSUME NEW c \in Callers, Incr(c) PROVE CountersInv'
  <2> DEFINE s == Scope(c)
  <2>1. s \in Counters
    BY DEF Scope, Counters, SearchAssumption
  <2>2. /\ pc[c] = "count" /\ scope' = [scope EXCEPT ![c] = s]
        /\ used' = [used EXCEPT ![s] = @ + 1] /\ UNCHANGED mortal
        /\ \E p : pc' = [pc EXCEPT ![c] = p] /\ (used[s] = 0 => p = "ttl")
    BY <1>3 DEF Incr, Goto, CountsToOne
  <2> HIDE DEF s
  <2>3. PICK p : pc' = [pc EXCEPT ![c] = p] /\ (used[s] = 0 => p = "ttl")
    BY <2>2
  <2>4. PICK T : pc \in [Callers -> T]
    BY DEF CountersInv
  <2>5. pc' \in [Callers -> T \cup {p}]
    BY <2>3, <2>4
  <2>6. scope' \in [Callers -> Counters \cup {Nothing}] /\ used' \in [Counters -> Nat]
    BY <2>1, <2>2 DEF CountersInv
  <2>7. ASSUME NEW k \in Counters, used'[k] > 0, k \notin mortal
        PROVE  \E d \in Callers : scope'[d] = k /\ pc'[d] \in {"ttl", "crashed"}
    <3>1. CASE used[k] > 0
      <4>1. PICK d \in Callers : scope[d] = k /\ pc[d] \in {"ttl", "crashed"}
        BY <2>7, <3>1 DEF CountersInv, CountersAreMortal
      <4>2. d # c
        BY <2>2, <4>1
      <4> QED BY <2>2, <2>3, <4>1, <4>2 DEF CountersInv
    <3>2. CASE ~(used[k] > 0)
      <4>1. k = s /\ used[s] = 0
        BY <2>1, <2>2, <2>7, <3>2 DEF CountersInv
      <4> QED BY <2>2, <2>3, <4>1 DEF CountersInv
    <3> QED BY <3>1, <3>2
  <2> QED BY <2>2, <2>5, <2>6, <2>7 DEF CountersInv, CountersAreMortal
<1>4. ASSUME NEW c \in Callers, Expire(c) PROVE CountersInv'
  <2>1. PICK p : pc' = [pc EXCEPT ![c] = p]
    BY <1>4 DEF Expire, Goto
  <2>2. mortal' = mortal \cup {scope[c]} /\ UNCHANGED <<used, scope>>
    BY <1>4 DEF Expire
  <2>3. PICK T : pc \in [Callers -> T]
    BY DEF CountersInv
  <2>4. pc' \in [Callers -> T \cup {p}] /\ \A d \in Callers \ {c} : pc'[d] = pc[d]
    BY <2>1, <2>3
  <2>5. CountersAreMortal'
    BY <2>2, <2>4 DEF CountersInv, CountersAreMortal
  <2> QED BY <2>2, <2>4, <2>5 DEF CountersInv
<1>5. ASSUME NEW c \in Callers, Crash(c) PROVE CountersInv'
  <2>1. pc' = [pc EXCEPT ![c] = "crashed"] /\ UNCHANGED <<used, mortal, scope>>
    BY <1>5 DEF Crash, budget
  <2>3. PICK T : pc \in [Callers -> T]
    BY DEF CountersInv
  <2>4. pc' \in [Callers -> T \cup {"crashed"}]
        /\ \A d \in Callers : pc'[d] = IF d = c THEN "crashed" ELSE pc[d]
    BY <2>1, <2>3
  <2>5. CountersAreMortal'
    BY <2>1, <2>4 DEF CountersInv, CountersAreMortal
  <2> QED BY <2>1, <2>4, <2>5 DEF CountersInv
<1>6. ASSUME NEW s \in Counters, WindowEnds(s) PROVE CountersInv'
  <2>1. /\ used' = [used EXCEPT ![s] = 0] /\ mortal' = mortal \ {s} /\ UNCHANGED <<pc, scope>>
    BY <1>6 DEF WindowEnds
  <2>2. used' \in [Counters -> Nat] /\ \A k \in Counters : used'[k] = IF k = s THEN 0 ELSE used[k]
    BY <2>1 DEF CountersInv
  <2>3. CountersAreMortal'
    BY <2>1, <2>2 DEF CountersInv, CountersAreMortal
  <2> QED BY <2>1, <2>2, <2>3 DEF CountersInv
<1>7. ASSUME NEW c \in Callers, CallerStep(c) \/ \E q \in Asks[c] : Ask(c, q) PROVE CountersInv'
  <2> USE DEF Goto, budget
  <2>1. CASE Probe(c) \/ SetLock(c) \/ Recheck(c) \/ Poll(c) \/ Follow(c)
    BY <1>2, <2>1 DEF Probe, SetLock, Recheck, Poll, Follow
  <2>2. CASE Load(c) \/ Store(c)
    BY <1>2, <2>2 DEF Load, Store
  <2>3. CASE Finally(c) \/ ReadRanking(c) \/ ReadGlobal(c)
    BY <1>2, <2>3 DEF Finally, ReadRanking, ReadGlobal, Ends
  <2>4. CASE \E q \in Asks[c] : Ask(c, q)
    BY <1>2, <2>4 DEF Ask
  <2> QED BY <1>3, <1>4, <1>7, <2>1, <2>2, <2>3, <2>4 DEF CallerStep
<1>8. CASE \/ \E v \in Voters : Vote(v)
           \/ \E f \in Fingerprints : LockRunsOut(f)
           \/ ComputeAll \/ Publish \/ UNCHANGED searchVars
  BY <1>1, <1>8 DEF Vote, LockRunsOut, ComputeAll, Publish, searchVars, budget
<1> QED BY <1>3, <1>4, <1>5, <1>6, <1>7, <1>8 DEF SearchNext

LEMMA SearchBegins ==
  ASSUME QueryAssumption, SearchAssumption, SearchInit
  PROVE  SearchShapes /\ AnswersInv /\ AgeInv /\ CountersInv
<1>1. pc = [c \in Callers |-> "idle"] /\ asked = [c \in Callers |-> NoQuery]
      /\ version = [c \in Callers |-> 0]
  BY DEF SearchInit
<1>2. Over(read, Callers) /\ Over(answer, Callers) /\ Over(cache, Versions \X Fingerprints)
  BY DEF SearchInit, Over
<1>3. Current = 0 /\ main = Nothing /\ loaded = Nothing /\ cast = 0
  BY DEF SearchInit, Current
<1>4. ballots \in Snapshots
  BY DEF SearchInit, SearchAssumption, Snapshots
<1>5. \A c \in Callers : version[c] <= Current /\ Asking(pc[c], asked[c])
  BY <1>1, <1>3 DEF Asking, Busy
<1>6. SearchShapes
  BY <1>1, <1>2, <1>3, <1>4, <1>5 DEF SearchShapes, Points
<1>7. \A i \in Versions \X Fingerprints : cache[i] = Nothing
  BY DEF SearchInit
<1>8. AnswersInv /\ AgeInv
  BY <1>1, <1>7 DEF AnswersInv, AgeInv
<1>9. CountersInv
  <2>1. /\ pc \in [Callers -> {"idle"}]
        /\ scope \in [Callers -> Counters \cup {Nothing}]
        /\ used \in [Counters -> Nat] /\ \A s \in Counters : used[s] = 0
    BY DEF SearchInit
  <2>2. \E T : pc \in [Callers -> T]
    BY <2>1
  <2>3. CountersAreMortal
    BY <2>1 DEF CountersAreMortal
  <2> QED BY <2>1, <2>2, <2>3 DEF CountersInv
<1> QED BY <1>6, <1>8, <1>9

(* dsl.py normalize, subset.py evaluate_subset, service.py: whoever else     *)
(* computed the entry, for whatever spelling, a request reads the voters its *)
(* own words describe - for any queries within the limits, any ballots, any  *)
(* candidates and old ids, any number of requests, crashes, lost locks.      *)
THEOREM WordsAreFollowed ==
  ASSUME QueryAssumption, SearchAssumption
  PROVE  SearchSpec => []AnswersTheQuestion
<1>1. SearchInit => SearchShapes /\ AnswersInv
  BY SearchBegins
<1>2. SearchShapes /\ AnswersInv /\ [SearchNext]_searchVars => (SearchShapes /\ AnswersInv)'
  BY SearchShapesHold, AnswersKept
<1>3. SearchShapes /\ AnswersInv => AnswersTheQuestion
  <2> SUFFICES ASSUME SearchShapes, AnswersInv, NEW c \in Callers, pc[c] = "global",
                      asked[c] # NoQuery
               PROVE  answer[c].subset =
                        {v \in Voted(answer[c].ballots) :
                           Means(Typed[asked[c]], Content[answer[c].ballots[v]])}
    BY DEF AnswersTheQuestion
  <2> DEFINE bs == answer[c].ballots
             q == asked[c]
  <2>1. q \in Accepted
    BY DEF SearchShapes, Asking
  <2>2. bs \in Snapshots
        /\ answer[c].subset = {v \in Voted(bs) : Holds(Tree[q], Content[bs[v]])}
    BY <2>1 DEF AnswersInv, Consistent, Fingerprint
  <2>3. Typed[q] \in Trees[MaxDepth] /\ Tree[q] = Normalize[Typed[q]]
    BY <2>1 DEF Accepted, WithinLimits, Tree
  <2> HIDE DEF bs, q
  <2>4. ASSUME NEW v \in Voted(bs)
        PROVE  Holds(Tree[q], Content[bs[v]]) <=> Means(Typed[q], Content[bs[v]])
    <3>1. bs[v] \in DOMAIN Content
      BY <2>2, <2>4 DEF Snapshots, Voted
    <3>2. Content[bs[v]] \in Ballot
      BY <3>1 DEF SearchAssumption
    <3> QED BY <2>3, <3>2, NormalFormsMean
  <2>5. answer[c].subset = {v \in Voted(bs) : Means(Typed[q], Content[bs[v]])}
    BY <2>2, <2>4
  <2> QED BY <2>5 DEF bs, q
<1> QED BY <1>1, <1>2, <1>3, PTL DEF SearchSpec

(* service.py ensure_filtered_results, compute_service.py: if every main     *)
(* computation has a second of its own, no filtered result under the current *)
(* version is older than the main results, however ballots, computations and *)
(* requests overlap.                                                         *)
THEOREM FilteredKeepsUp ==
  ASSUME QueryAssumption, SearchAssumption, SharedSeconds = FALSE
  PROVE  SearchSpec => []FilteredIsNotOlder
<1>1. SearchInit => SearchShapes /\ AgeInv
  BY SearchBegins
<1>2. SearchShapes /\ AgeInv /\ [SearchNext]_searchVars => (SearchShapes /\ AgeInv)'
  BY SearchShapesHold, AgesKept
<1>3. SearchShapes /\ AgeInv => FilteredIsNotOlder
  <2> SUFFICES ASSUME SearchShapes, AgeInv, main # Nothing, NEW f \in Fingerprints,
                      cache[<<main.version, f>>] # Nothing
               PROVE  cache[<<main.version, f>>].seen >= main.seen
    BY DEF FilteredIsNotOlder
  <2>1. main.version \in Versions
    BY DEF SearchShapes, Versions, SearchAssumption
  <2> QED BY <2>1 DEF AgeInv, AsOld
<1> QED BY <1>1, <1>2, <1>3, PTL DEF SearchSpec

(* service.py _incr_window: a counter of the budget ends, or its EXPIRE is   *)
(* the next call of a request that lives, or was of one that died - whatever *)
(* the limits, the addresses and the number of requests.                     *)
THEOREM CountersEnd ==
  ASSUME QueryAssumption, SearchAssumption
  PROVE  SearchSpec => []CountersAreMortal
<1>1. SearchInit => CountersInv
  BY SearchBegins
<1>2. CountersInv /\ [SearchNext]_searchVars => CountersInv'
  BY CountersKept
<1>3. CountersInv => CountersAreMortal
  BY DEF CountersInv
<1> QED BY <1>1, <1>2, <1>3, PTL DEF SearchSpec

----
(* The budget's types: who pays for what, and when.                           *)

(* A request at p, with scope s and n polls, from address a: it polls and    *)
(* pays in this order, first for its address, then for everyone.             *)
PaysInOrder(p, s, n, a) ==
  /\ p \in Points /\ s \in Counters \cup {Nothing} /\ n \in 0..MaxPolls
  /\ p \in {"idle", "probe", "lock"} => n = 0
  /\ p = "poll" => n < MaxPolls
  /\ p \in {"idle", "probe", "lock", "recheck", "poll", "follow"} => s = Nothing
  /\ p = "count" => s = Nothing \/ (s = a /\ s # Everyone)
  /\ p = "ttl" => s = Everyone \/ (s = a /\ s # Nothing)

(* Whoever may have counted in k. *)
Paid(c, k) == pc[c] \in Ended \/ scope[c] \in {k, Everyone}

(* A request between INCR and EXPIRE is the only one there. *)
AboutToExpire(c) ==
  pc[c] = "ttl" =>
    /\ used[scope[c]] > 0 /\ scope[c] \notin mortal
    /\ \A d \in Callers \ {c} : pc[d] = "ttl" => scope[d] # scope[c]

PayInv ==
  /\ Over(pc, Callers) /\ Over(scope, Callers) /\ Over(polls, Callers)
  /\ \A c \in Callers : PaysInOrder(pc[c], scope[c], polls[c], Address[c]) /\ AboutToExpire(c)
  /\ used \in [Counters -> Nat] /\ mortal \subseteq {s \in Counters : used[s] > 0}
  /\ \A s \in Counters : used[s] <= Cardinality({c \in Callers : Paid(c, s)})

(* What request c does to itself. *)
PayGoes(c, p, s, n) ==
  /\ pc' = [pc EXCEPT ![c] = p] /\ scope' = [scope EXCEPT ![c] = s]
  /\ polls' = [polls EXCEPT ![c] = n]

LEMMA PayMoves ==
  ASSUME PayInv, NEW c \in Callers, NEW p, NEW s, NEW n,
         PaysInOrder(p, s, n, Address[c]), PayGoes(c, p, s, n)
  PROVE  /\ Over(pc, Callers)' /\ Over(scope, Callers)' /\ Over(polls, Callers)'
         /\ \A d \in Callers : PaysInOrder(pc[d], scope[d], polls[d], Address[d])'
         /\ pc'[c] = p /\ scope'[c] = s
         /\ \A d \in Callers \ {c} : pc'[d] = pc[d] /\ scope'[d] = scope[d]
<1>1. /\ pc'[c] = p /\ scope'[c] = s /\ polls'[c] = n
      /\ \A d \in Callers \ {c} : pc'[d] = pc[d] /\ scope'[d] = scope[d] /\ polls'[d] = polls[d]
  BY DEF PayInv, Over, PayGoes
<1>2. Over(pc, Callers)' /\ Over(scope, Callers)' /\ Over(polls, Callers)'
  BY DEF PayInv, Over, PayGoes
<1>3. ASSUME NEW d \in Callers PROVE PaysInOrder(pc'[d], scope'[d], polls'[d], Address[d])
  BY <1>1 DEF PayInv
<1>4. ASSUME NEW d \in Callers PROVE PaysInOrder(pc[d], scope[d], polls[d], Address[d])'
  BY <1>3, <1>4 DEF PaysInOrder
<1> QED BY <1>1, <1>2, <1>4

(* Who has paid stays so. *)
LEMMA PaidSum ==
  ASSUME SearchAssumption, NEW k, \A d \in Callers : Paid(d, k) => Paid(d, k)'
  PROVE  /\ Cardinality({d \in Callers : Paid(d, k)}) \in Nat
         /\ Cardinality({d \in Callers : Paid(d, k)'}) \in Nat
         /\ Cardinality({d \in Callers : Paid(d, k)}) <= Cardinality({d \in Callers : Paid(d, k)'})
         /\ \A c \in Callers : ~ Paid(c, k) /\ Paid(c, k)' =>
              Cardinality({d \in Callers : Paid(d, k)}) + 1
                <= Cardinality({d \in Callers : Paid(d, k)'})
         /\ Cardinality({d \in Callers : Paid(d, k)'}) <= Cardinality(Callers)
<1> DEFINE B == {d \in Callers : Paid(d, k)}
           A == {d \in Callers : Paid(d, k)'}
<1>1. B \subseteq A /\ A \subseteq Callers /\ IsFiniteSet(Callers)
  BY DEF SearchAssumption
<1>2. ASSUME NEW c \in A, c \notin B PROVE Cardinality(B) + 1 <= Cardinality(A)
  <2> HIDE DEF A, B
  <2>1. IsFiniteSet(A) /\ IsFiniteSet(B)
    BY <1>1, FS_Subset
  <2>2. IsFiniteSet(B \cup {c}) /\ Cardinality(B \cup {c}) = Cardinality(B) + 1
    BY <1>2, <2>1, FS_AddElement
  <2>3. B \cup {c} \subseteq A
    BY <1>1, <1>2
  <2> QED BY <2>1, <2>2, <2>3, FS_Subset
<1>3. /\ Cardinality(B) \in Nat /\ Cardinality(A) \in Nat /\ Cardinality(B) <= Cardinality(A)
      /\ Cardinality(A) <= Cardinality(Callers)
  <2> HIDE DEF A, B
  <2>1. IsFiniteSet(A) /\ IsFiniteSet(B)
    BY <1>1, FS_Subset
  <2> QED BY <1>1, <2>1, FS_Subset, FS_CardinalityType
<1> QED BY <1>2, <1>3

(* A step that leaves the counters alone. *)
LEMMA PayQuietly ==
  ASSUME SearchAssumption, PayInv, NEW c \in Callers, NEW p, NEW s, NEW n,
         PaysInOrder(p, s, n, Address[c]), PayGoes(c, p, s, n), UNCHANGED <<used, mortal>>,
         pc[c] \notin Ended, p # "ttl", p \in Ended \/ s = scope[c]
  PROVE  PayInv'
<1>1. /\ Over(pc, Callers)' /\ Over(scope, Callers)' /\ Over(polls, Callers)'
      /\ \A d \in Callers : PaysInOrder(pc[d], scope[d], polls[d], Address[d])'
      /\ pc'[c] = p /\ scope'[c] = s
      /\ \A d \in Callers \ {c} : pc'[d] = pc[d] /\ scope'[d] = scope[d]
  BY PayMoves
<1>2. ASSUME NEW d \in Callers PROVE AboutToExpire(d)'
  BY <1>1 DEF PayInv, AboutToExpire
<1>3. ASSUME NEW k \in Counters PROVE used'[k] <= Cardinality({d \in Callers : Paid(d, k)'})
  <2>1. \A d \in Callers : Paid(d, k) => Paid(d, k)'
    BY <1>1 DEF Paid
  <2> DEFINE B == Cardinality({d \in Callers : Paid(d, k)})
             A == Cardinality({d \in Callers : Paid(d, k)'})
  <2>2. B \in Nat /\ A \in Nat /\ B <= A
    BY <2>1, PaidSum
  <2>3. used[k] \in Nat /\ used[k] <= B /\ used'[k] = used[k]
    BY DEF PayInv
  <2> HIDE DEF A, B
  <2>4. used'[k] <= A
    BY <2>2, <2>3
  <2> QED BY <2>4 DEF A
<1> QED BY <1>1, <1>2, <1>3 DEF PayInv

(* INCR *)
LEMMA PayIncr ==
  ASSUME SearchAssumption, PayInv, NEW c \in Callers, Incr(c)
  PROVE  PayInv'
<1> DEFINE s == Scope(c)
           p == IF used[s] = 0 THEN "ttl" ELSE IF used[s] + 1 > Limit[s] THEN "fail" ELSE AfterPaying(s)
<1>0. /\ pc[c] = "count" /\ pc' = [pc EXCEPT ![c] = p] /\ scope' = [scope EXCEPT ![c] = s]
      /\ used' = [used EXCEPT ![s] = @ + 1] /\ UNCHANGED <<mortal, polls>>
  BY DEF Incr, Goto, CountsToOne
<1>1. s \in Counters /\ s # Nothing
  BY DEF Scope, Counters, SearchAssumption
<1>2. PaysInOrder(pc[c], scope[c], polls[c], Address[c]) /\ used \in [Counters -> Nat]
  BY DEF PayInv
<1>3. s = Everyone \/ (s = Address[c] /\ scope[c] = Nothing)
  BY DEF Scope
<1>4. p \in {"ttl", "fail", "load", "count"} /\ (p = "count" => s # Everyone)
  BY DEF AfterPaying
<1>5. ~ Paid(c, s)
  BY <1>0, <1>1, <1>2, <1>3 DEF Paid, PaysInOrder, Ended, SearchAssumption, Counters
<1> HIDE DEF s, p
<1>6. PaysInOrder(p, s, polls[c], Address[c])
  BY <1>1, <1>2, <1>3, <1>4 DEF PaysInOrder, Points, Busy
<1>7. PayGoes(c, p, s, polls[c])
  BY <1>0 DEF PayGoes, PayInv, Over
<1>8. /\ Over(pc, Callers)' /\ Over(scope, Callers)' /\ Over(polls, Callers)'
      /\ \A d \in Callers : PaysInOrder(pc[d], scope[d], polls[d], Address[d])'
      /\ pc'[c] = p /\ scope'[c] = s
      /\ \A d \in Callers \ {c} : pc'[d] = pc[d] /\ scope'[d] = scope[d]
  BY <1>6, <1>7, PayMoves
<1>9. used' \in [Counters -> Nat] /\ used'[s] = used[s] + 1
      /\ \A k \in Counters \ {s} : used'[k] = used[k]
  BY <1>0, <1>1, <1>2
<1>10. mortal' \subseteq {k \in Counters : used'[k] > 0}
  BY <1>0, <1>1, <1>2, <1>9 DEF PayInv
<1>11. ASSUME NEW d \in Callers PROVE AboutToExpire(d)'
  <2>1. ASSUME NEW e \in Callers, e # c, pc[e] = "ttl"
        PROVE  /\ used[scope[e]] > 0 /\ scope[e] \notin mortal /\ scope[e] \in Counters
               /\ \A f \in Callers \ {e} : pc[f] = "ttl" => scope[f] # scope[e]
    BY <2>1 DEF PayInv, AboutToExpire, PaysInOrder, Counters, SearchAssumption
  <2>2. CASE d = c /\ p = "ttl"
    <3>1. used[s] = 0 /\ s \notin mortal
      BY <1>1, <2>2 DEF p, AfterPaying, PayInv
    <3> QED BY <1>0, <1>8, <1>9, <2>1, <2>2, <3>1 DEF AboutToExpire
  <2>3. CASE d # c
    <3>1. CASE p = "ttl"
      <4>1. used[s] = 0
        BY <3>1 DEF p, AfterPaying
      <4> QED BY <1>0, <1>1, <1>8, <1>9, <2>1, <2>3, <3>1, <4>1 DEF AboutToExpire
    <3>2. CASE p # "ttl"
      BY <1>0, <1>1, <1>2, <1>8, <1>9, <2>1, <2>3, <3>2 DEF AboutToExpire
    <3> QED BY <3>1, <3>2
  <2> QED BY <1>8, <2>2, <2>3 DEF AboutToExpire
<1>12. ASSUME NEW k \in Counters PROVE used'[k] <= Cardinality({d \in Callers : Paid(d, k)'})
  <2>1. \A d \in Callers : Paid(d, k) => Paid(d, k)'
    <3>1. Paid(c, k) => k # s /\ scope[c] = k /\ s = Everyone
      BY <1>0, <1>1, <1>2, <1>3, <1>5 DEF Paid, PaysInOrder, Ended
    <3> QED BY <1>8, <3>1 DEF Paid
  <2> DEFINE B == Cardinality({d \in Callers : Paid(d, k)})
             A == Cardinality({d \in Callers : Paid(d, k)'})
  <2>2. B \in Nat /\ A \in Nat /\ B <= A /\ (~ Paid(c, k) /\ Paid(c, k)' => B + 1 <= A)
    BY <2>1, PaidSum
  <2>3. used[k] \in Nat /\ used[k] <= B
    BY DEF PayInv
  <2>4. k = s => ~ Paid(c, k) /\ Paid(c, k)'
    BY <1>5, <1>8 DEF Paid
  <2> HIDE DEF A, B
  <2>5. used'[k] <= A
    BY <1>9, <2>2, <2>3, <2>4
  <2> QED BY <2>5 DEF A
<1> QED BY <1>8, <1>9, <1>10, <1>11, <1>12 DEF PayInv

(* EXPIRE, and the end of the window. *)
LEMMA PayExpire ==
  ASSUME SearchAssumption, PayInv, NEW c \in Callers, Expire(c)
  PROVE  PayInv'
<1> DEFINE s == scope[c]
           p == AfterPaying(s)
<1>0. /\ pc[c] = "ttl" /\ pc' = [pc EXCEPT ![c] = p]
      /\ mortal' = mortal \cup {s} /\ UNCHANGED <<used, scope, polls>>
  BY DEF Expire, Goto
<1>1. PaysInOrder(pc[c], s, polls[c], Address[c]) /\ AboutToExpire(c)
  BY DEF PayInv
<1>2. s \in Counters /\ used[s] > 0 /\ \A d \in Callers \ {c} : pc[d] = "ttl" => scope[d] # s
  BY <1>0, <1>1 DEF PaysInOrder, AboutToExpire, Counters, SearchAssumption
<1>3. p \in {"load", "count"} /\ (p = "count" => s # Everyone)
  BY DEF AfterPaying
<1> HIDE DEF s, p
<1>4. PaysInOrder(p, s, polls[c], Address[c])
  BY <1>0, <1>1, <1>3 DEF PaysInOrder, Points, Busy
<1>5. PayGoes(c, p, s, polls[c])
  BY <1>0 DEF PayGoes, PayInv, Over, s
<1>6. /\ Over(pc, Callers)' /\ Over(scope, Callers)' /\ Over(polls, Callers)'
      /\ \A d \in Callers : PaysInOrder(pc[d], scope[d], polls[d], Address[d])'
      /\ pc'[c] = p /\ scope'[c] = s
      /\ \A d \in Callers \ {c} : pc'[d] = pc[d] /\ scope'[d] = scope[d]
  BY <1>4, <1>5, PayMoves
<1>7. ASSUME NEW d \in Callers PROVE AboutToExpire(d)'
  BY <1>0, <1>2, <1>3, <1>6 DEF PayInv, AboutToExpire
<1>8. ASSUME NEW k \in Counters PROVE used'[k] <= Cardinality({d \in Callers : Paid(d, k)'})
  <2>1. \A d \in Callers : Paid(d, k) => Paid(d, k)'
    BY <1>0, <1>6 DEF Paid, Ended
  <2> DEFINE B == Cardinality({d \in Callers : Paid(d, k)})
             A == Cardinality({d \in Callers : Paid(d, k)'})
  <2>2. B \in Nat /\ A \in Nat /\ B <= A
    BY <2>1, PaidSum
  <2>3. used[k] \in Nat /\ used[k] <= B /\ used'[k] = used[k]
    BY <1>0 DEF PayInv
  <2> HIDE DEF A, B
  <2>4. used'[k] <= A
    BY <2>2, <2>3
  <2> QED BY <2>4 DEF A
<1>9. used' \in [Counters -> Nat] /\ mortal' \subseteq {k \in Counters : used'[k] > 0}
  BY <1>0, <1>2 DEF PayInv
<1> QED BY <1>6, <1>7, <1>8, <1>9 DEF PayInv

LEMMA PayWindowEnds ==
  ASSUME SearchAssumption, PayInv, NEW s \in Counters, WindowEnds(s)
  PROVE  PayInv'
<1>0. /\ s \in mortal /\ used' = [used EXCEPT ![s] = 0] /\ mortal' = mortal \ {s}
      /\ UNCHANGED <<pc, scope, polls>>
  BY DEF WindowEnds
<1>1. used' \in [Counters -> Nat] /\ \A k \in Counters : used'[k] = IF k = s THEN 0 ELSE used[k]
  BY <1>0 DEF PayInv
<1>2. ASSUME NEW d \in Callers PROVE AboutToExpire(d)' /\ PaysInOrder(pc[d], scope[d], polls[d], Address[d])'
  <2>1. PaysInOrder(pc[d], scope[d], polls[d], Address[d]) /\ AboutToExpire(d)
    BY DEF PayInv
  <2>2. pc[d] = "ttl" => scope[d] \in Counters
    BY <2>1 DEF PaysInOrder, Counters, SearchAssumption
  <2>3. AboutToExpire(d)'
    BY <1>0, <1>1, <2>1, <2>2 DEF AboutToExpire
  <2> QED BY <1>0, <2>1, <2>3 DEF PaysInOrder
<1>3. ASSUME NEW k \in Counters PROVE used'[k] <= Cardinality({d \in Callers : Paid(d, k)'})
  <2>1. \A d \in Callers : Paid(d, k)' <=> Paid(d, k)
    BY <1>0 DEF Paid
  <2> DEFINE B == Cardinality({d \in Callers : Paid(d, k)})
             A == Cardinality({d \in Callers : Paid(d, k)'})
  <2>2. A \in Nat /\ B \in Nat /\ B <= A
    BY <2>1, PaidSum
  <2>3. used[k] \in Nat /\ used[k] <= B
    BY DEF PayInv
  <2> HIDE DEF A, B
  <2>4. used'[k] <= A
    BY <1>1, <2>2, <2>3
  <2> QED BY <2>4 DEF A
<1> QED BY <1>0, <1>1, <1>2, <1>3 DEF PayInv, Over

LEMMA PayHolds ==
  ASSUME SearchAssumption, PayInv, [SearchNext]_searchVars
  PROVE  PayInv'
<1>1. ASSUME UNCHANGED <<pc, scope, polls, used, mortal>> PROVE PayInv'
  BY <1>1 DEF PayInv, Over, PaysInOrder, AboutToExpire, Paid
<1>2. ASSUME NEW c \in Callers, CallerStep(c) \/ Crash(c) \/ \E q \in Asks[c] : Ask(c, q)
      PROVE  PayInv'
  <2>0. /\ PaysInOrder(pc[c], scope[c], polls[c], Address[c])
        /\ Over(pc, Callers) /\ Over(scope, Callers) /\ Over(polls, Callers)
        /\ MaxPolls \in Nat \ {0}
    BY DEF PayInv, SearchAssumption
  <2>k. /\ UNCHANGED scope => scope' = [scope EXCEPT ![c] = scope[c]]
        /\ UNCHANGED polls => polls' = [polls EXCEPT ![c] = polls[c]]
    BY <2>0 DEF Over
  <2>1. ASSUME NEW p \in {"ranking", "lock", "recheck", "poll", "unlock", "count"},
               pc' = [pc EXCEPT ![c] = p], UNCHANGED <<scope, polls, used, mortal>>,
               pc[c] \in {"probe", "lock", "recheck", "follow"},
               p = "lock" => pc[c] = "probe",
               p = "poll" => pc[c] = "lock" \/ polls[c] # MaxPolls
        PROVE  PayInv'
    <3>1. PaysInOrder(p, scope[c], polls[c], Address[c])
      BY <2>0, <2>1 DEF PaysInOrder, Points, Busy
    <3> QED BY <2>k, <2>1, <3>1, PayQuietly DEF PayGoes, Ended
  <2>2. ASSUME Poll(c) PROVE PayInv'
    <3>1. PICK p : /\ pc' = [pc EXCEPT ![c] = p] /\ UNCHANGED <<scope, used, mortal>>
                   /\ pc[c] = "poll" /\ p \in {"ranking", "follow"}
                   /\ polls' = [polls EXCEPT ![c] = polls[c] + 1]
      BY <2>2 DEF Poll, Goto, budget, Waited
    <3>2. PaysInOrder(p, scope[c], polls[c] + 1, Address[c])
      BY <2>0, <3>1 DEF PaysInOrder, Points, Busy
    <3> QED BY <2>k, <3>1, <3>2, PayQuietly DEF PayGoes, Ended
  <2>3. ASSUME NEW p \in {"store", "fail", "unlock", "ranking", "global"},
               pc' = [pc EXCEPT ![c] = p], UNCHANGED <<scope, polls, used, mortal>>,
               pc[c] \in {"load", "store", "unlock", "ranking"}
        PROVE  PayInv'
    <3>1. PaysInOrder(p, scope[c], polls[c], Address[c])
      BY <2>0, <2>3 DEF PaysInOrder, Points, Busy
    <3> QED BY <2>k, <2>3, <3>1, PayQuietly DEF PayGoes, Ended
  <2>4. ASSUME NEW p \in {"refused", "answered"}, Ends(c), UNCHANGED <<used, mortal>>,
               pc' = [pc EXCEPT ![c] = p], pc[c] \in {"fail", "ranking", "global"}
        PROVE  PayInv'
    <3>1. PaysInOrder(p, Nothing, 0, Address[c])
      BY <2>0, <2>4 DEF PaysInOrder, Points, Ended
    <3> QED BY <2>4, <3>1, PayQuietly DEF PayGoes, Ended, Ends
  <2>5. ASSUME Crash(c) PROVE PayInv'
    <3>1. /\ pc' = [pc EXCEPT ![c] = "crashed"] /\ polls' = [polls EXCEPT ![c] = 0]
          /\ UNCHANGED <<scope, used, mortal>> /\ pc[c] \in Working
      BY <2>5 DEF Crash, budget
    <3>2. PaysInOrder("crashed", scope[c], 0, Address[c])
      BY <2>0 DEF PaysInOrder, Points, Ended
    <3> QED BY <2>k, <3>1, <3>2, PayQuietly DEF PayGoes, Ended, Working
  <2>6. ASSUME NEW q \in Asks[c], Ask(c, q) PROVE PayInv'
    <3>1. PICK p : /\ pc' = [pc EXCEPT ![c] = p] /\ UNCHANGED <<scope, polls, used, mortal>>
                   /\ pc[c] = "idle" /\ p \in {"ranking", "probe", "refused"}
      BY <2>6 DEF Ask, budget
    <3>2. PaysInOrder(p, scope[c], polls[c], Address[c])
      BY <2>0, <3>1 DEF PaysInOrder, Points, Busy, Ended
    <3> QED BY <2>k, <3>1, <3>2, PayQuietly DEF PayGoes, Ended
  <2>7. CASE Finally(c)
    BY <2>3, <2>4, <2>7 DEF Finally, Goto, budget
  <2>8. CASE ReadRanking(c)
    BY <2>3, <2>4, <2>8 DEF ReadRanking, Goto, budget
  <2>9. CASE ReadGlobal(c)
    <3>1. CASE Entry(c) = Nothing
      BY <2>4, <2>9, <3>1 DEF ReadGlobal, Goto, budget
    <3>2. CASE Entry(c) # Nothing
      BY <2>4, <2>9, <3>2 DEF ReadGlobal, Goto, budget
    <3> QED BY <3>1, <3>2
  <2>10. CASE Incr(c) \/ Expire(c)
    BY <2>10, PayIncr, PayExpire
  <2>11. CASE Probe(c)
    <3>1. CASE Marked(c)
      BY <2>1, <2>11, <3>1 DEF Probe, Goto, budget
    <3>2. CASE ~ Marked(c)
      BY <2>1, <2>11, <3>2 DEF Probe, Goto, budget
    <3> QED BY <3>1, <3>2
  <2>12. CASE SetLock(c)
    <3>1. CASE lock[Fingerprint(c)] = NoOne
      BY <2>1, <2>12, <3>1 DEF SetLock, Goto, budget
    <3>2. CASE lock[Fingerprint(c)] # NoOne
      BY <2>1, <2>12, <3>2 DEF SetLock, Goto, budget
    <3> QED BY <3>1, <3>2
  <2>13. CASE Recheck(c)
    <3>1. CASE Marked(c)
      BY <2>1, <2>13, <3>1 DEF Recheck, Goto, budget
    <3>2. CASE ~ Marked(c)
      BY <2>1, <2>13, <3>2 DEF Recheck, Goto, budget
    <3> QED BY <3>1, <3>2
  <2>14. CASE Follow(c)
    <3>1. CASE TakesOver(c)
      BY <2>1, <2>14, <3>1 DEF Follow, Goto, budget
    <3>2. CASE ~ TakesOver(c)
      BY <2>1, <2>14, <3>2 DEF Follow, Goto, budget, TakesOver
    <3> QED BY <3>1, <3>2
  <2>15. CASE Store(c)
    BY <2>3, <2>15 DEF Store, Goto, budget
  <2>16. CASE Load(c)
    <3>1. CASE AllKnown(Tree[asked[c]])
      BY <2>3, <2>16, <3>1 DEF Load, Goto, budget
    <3>2. CASE ~ AllKnown(Tree[asked[c]])
      BY <2>3, <2>16, <3>2 DEF Load, Goto, budget
    <3> QED BY <3>1, <3>2
  <2>17. CASE CallerStep(c)
    BY <2>2, <2>7, <2>8, <2>9, <2>10, <2>11, <2>12, <2>13, <2>14, <2>15, <2>16, <2>17 DEF CallerStep
  <2>18. CASE \E q \in Asks[c] : Ask(c, q)
    BY <2>6, <2>18
  <2> QED BY <1>2, <2>5, <2>17, <2>18
<1>3. CASE \/ \E v \in Voters : Vote(v)
           \/ \E f \in Fingerprints : LockRunsOut(f)
           \/ ComputeAll \/ Publish \/ UNCHANGED searchVars
  BY <1>1, <1>3 DEF Vote, LockRunsOut, ComputeAll, Publish, searchVars, budget
<1> QED BY <1>2, <1>3, PayWindowEnds DEF SearchNext

(* The ballots a voter may have, the bound on them, and who may hold a lock. *)
HeldInv ==
  /\ \A v \in Voters : ballots[v] \in Late[v] \cup {Early[v]}
  /\ cast \in 0..MaxCast
  /\ lock \in [Fingerprints -> Callers \cup {NoOne}]

LEMMA HeldHolds ==
  ASSUME SearchAssumption, SearchShapes, HeldInv, [SearchNext]_searchVars
  PROVE  HeldInv'
<1>1. ASSUME UNCHANGED <<ballots, cast>>, lock' \in [Fingerprints -> Callers \cup {NoOne}]
      PROVE  HeldInv'
  BY <1>1 DEF HeldInv
<1>2. lock \in [Fingerprints -> Callers \cup {NoOne}]
  BY DEF HeldInv
<1>3. ASSUME NEW v \in Voters, Vote(v) PROVE HeldInv'
  <2>1. PICK b \in Late[v] : ballots' = [ballots EXCEPT ![v] = b]
    BY <1>3 DEF Vote
  <2>2. cast' = cast + 1 /\ cast < MaxCast /\ UNCHANGED lock
    BY <1>3 DEF Vote
  <2>3. \A w \in Voters : ballots'[w] \in Late[w] \cup {Early[w]}
    BY <2>1 DEF HeldInv, SearchShapes, Snapshots
  <2>4. cast' \in 0..MaxCast
    BY <2>2 DEF HeldInv, SearchAssumption
  <2> QED BY <1>2, <2>2, <2>3, <2>4 DEF HeldInv
<1>4. ASSUME NEW f \in Fingerprints, LockRunsOut(f) PROVE HeldInv'
  BY <1>1, <1>2, <1>4 DEF LockRunsOut, world
<1>5. ASSUME NEW c \in Callers, SetLock(c) \/ Finally(c) PROVE HeldInv'
  BY <1>1, <1>2, <1>5 DEF SetLock, Finally, Unlocked, world
<1>6. ASSUME NEW c \in Callers, \/ Probe(c) \/ Recheck(c) \/ Poll(c) \/ Follow(c) \/ Incr(c)
                                \/ Expire(c) \/ Load(c) \/ Store(c) \/ ReadRanking(c)
                                \/ ReadGlobal(c) \/ Crash(c) \/ (\E q \in Asks[c] : Ask(c, q))
      PROVE  HeldInv'
  BY <1>1, <1>2, <1>6 DEF Probe, Recheck, Poll, Follow, Incr, Expire, Load, Store, ReadRanking,
     ReadGlobal, Crash, Ask, world
<1>7. CASE \/ ComputeAll \/ Publish \/ UNCHANGED searchVars
           \/ \E s \in Counters : WindowEnds(s)
  BY <1>1, <1>2, <1>7 DEF ComputeAll, Publish, WindowEnds, searchVars, world
<1> QED BY <1>3, <1>4, <1>5, <1>6, <1>7 DEF SearchNext, CallerStep

(* service.py: a request pays once for its address and once for everyone, so *)
(* that no counter passes the number of requests; it polls no longer than a  *)
(* waiter may; locks are held by requests; what is cast, loaded and          *)
(* published stays within its bounds - for any requests, limits and clocks.  *)
THEOREM SearchTypes ==
  ASSUME QueryAssumption, SearchAssumption
  PROVE  SearchSpec => []SearchTypeOK
<1>1. SearchInit => SearchShapes /\ PayInv /\ HeldInv
  <2> SUFFICES ASSUME SearchInit PROVE PayInv /\ HeldInv
    BY SearchBegins
  <2>1. /\ pc = [c \in Callers |-> "idle"] /\ scope = [c \in Callers |-> Nothing]
        /\ polls = [c \in Callers |-> 0] /\ used = [s \in Counters |-> 0] /\ mortal = {}
        /\ ballots = Early /\ cast = 0 /\ lock = [f \in Fingerprints |-> NoOne]
    BY DEF SearchInit
  <2>2. \A c \in Callers : PaysInOrder(pc[c], scope[c], polls[c], Address[c]) /\ AboutToExpire(c)
    BY <2>1 DEF PaysInOrder, AboutToExpire, Points, SearchAssumption
  <2>3. \A s \in Counters : used[s] <= Cardinality({c \in Callers : Paid(c, s)})
    <3> SUFFICES ASSUME NEW s \in Counters
                 PROVE  0 <= Cardinality({c \in Callers : Paid(c, s)})
      BY <2>1
    <3>1. IsFiniteSet({c \in Callers : Paid(c, s)})
      BY FS_Subset DEF SearchAssumption
    <3> QED BY <3>1, FS_CardinalityType
  <2>4. PayInv
    BY <2>1, <2>2, <2>3 DEF PayInv, Over
  <2> QED BY <2>1, <2>4 DEF HeldInv, SearchAssumption
<1>2. SearchShapes /\ PayInv /\ HeldInv /\ [SearchNext]_searchVars
        => (SearchShapes /\ PayInv /\ HeldInv)'
  BY SearchShapesHold, PayHolds, HeldHolds
<1>3. SearchShapes /\ PayInv /\ HeldInv => SearchTypeOK
  <2> SUFFICES ASSUME SearchShapes, PayInv, HeldInv PROVE SearchTypeOK
    OBVIOUS
  <2>1. used \in [Counters -> 0..Cardinality(Callers)]
    <3>1. ASSUME NEW s \in Counters PROVE used[s] \in 0..Cardinality(Callers)
      <4> DEFINE P == {c \in Callers : Paid(c, s)}
      <4>1. P \subseteq Callers /\ IsFiniteSet(Callers)
        BY DEF SearchAssumption
      <4>2. used[s] \in Nat /\ used[s] <= Cardinality(P)
        BY DEF PayInv
      <4> HIDE DEF P
      <4>3. /\ Cardinality(P) <= Cardinality(Callers) /\ Cardinality(P) \in Nat
            /\ Cardinality(Callers) \in Nat
        BY <4>1, FS_Subset, FS_CardinalityType
      <4> QED BY <4>2, <4>3
    <3> QED BY <3>1 DEF PayInv
  <2>2. version \in [Callers -> Versions] /\ polls \in [Callers -> 0..MaxPolls]
    <3>1. \A c \in Callers : polls[c] \in 0..MaxPolls
      BY DEF PayInv, PaysInOrder
    <3> QED BY <3>1, CurrentIsAVersion DEF SearchShapes, PayInv, Over
  <2>3. loaded \in 0..MaxCast \cup {Nothing}
    BY DEF SearchShapes, HeldInv, SearchAssumption
  <2>4. mortal \subseteq {s \in Counters : used[s] > 0}
    BY DEF PayInv
  <2> QED BY <2>1, <2>2, <2>3, <2>4 DEF HeldInv, SearchTypeOK
<1> QED BY <1>1, <1>2, <1>3, PTL DEF SearchSpec
=============================================================================
