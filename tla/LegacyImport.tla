---------------------------- MODULE LegacyImport ----------------------------
(***************************************************************************)
(* The one-off import of the voters of the old site                        *)
(* (scripts/import_legacy_voters.py), its rollback                         *)
(* (scripts/rollback_legacy_user_import.py), and the site that stays on    *)
(* line meanwhile.  The operator runs one script at a time and may repeat  *)
(* it; the dump does not change between two runs.                          *)
(*                                                                         *)
(* Passwords, nicknames, times and the reports are left out; QQ stands for *)
(* both providers without an address (qq, thbwiki).                        *)
(***************************************************************************)
EXTENDS Integers, Sequences, FiniteSets

CONSTANTS
  Dump,       \* voters.bson: a sequence of [email, phone, qq, seen, born]
  Skipped,    \* documents with an invalid address, and test accounts
  None,       \* a field that is absent
  ChunkSize,
  Limits,     \* the values of --limit
  Batches,    \* batch ids
  Residents,  \* users who register on the site itself
  NoUser,
  MaxVisits   \* bound: events on the site in a behaviour

VARIABLES
  accounts,   \* the table user
  identity,   \* identity[s]: the owner of subject s, or NoUser (unique)
  mapping,    \* legacy_user_mapping: documents to [user, role, batch]
  referenced, \* users with an activity_log or voter_review row
  tokens,     \* users who hold a vote token
  voted,      \* users with a row in a raw_* table
  step,       \* where the script stands
  label,      \* its batch id
  limit,      \* its --limit
  mapped,     \* the documents it takes for mapped
  todo,       \* the winners it still has to process
  chunk,      \* those of the current chunk
  found,      \* the owners it has read for them
  refused,    \* winners it reports with two owners
  visits,     \* events on the site so far
  retired     \* (history) batches that were rolled back

script == <<step, label, limit, mapped, todo, chunk, found, refused>>
site == <<referenced, tokens, voted, visits>>
tables == <<accounts, identity, mapping>>
importVars == <<accounts, identity, mapping, referenced, tokens, voted, visits, step,
                label, limit, mapped, todo, chunk, found, refused, retired>>

Records == DOMAIN Dump
Fields == {"email", "phone", "qq"}
Subjects == {<<f, Dump[d][f]>> : f \in Fields, d \in Records} \ (Fields \X {None})
Users == Residents \cup (Records \X Batches)   \* a new account: <<winner, batch>>
Roles == {"primary", "duplicate", "conflict_existing"}

ASSUME ImportAssumption ==
  /\ Dump \in Seq({Dump[d] : d \in Records})
  /\ \A d \in Records : Dump[d].seen \in Int /\ Dump[d].born \in Int
  /\ Skipped \subseteq Records /\ Limits \subseteq Nat /\ ChunkSize \in Nat \ {0}
  /\ Residents \cap (Records \X Batches) = {}
  /\ NoUser \notin Users /\ MaxVisits \in Nat

-----------------------------------------------------------------------------
(* plan_import *)

GroupKey(d) ==
  IF Dump[d].email # None THEN <<"email", Dump[d].email>> ELSE <<"phone", Dump[d].phone>>

Planned(n) == {d \in Records : d <= n} \ Skipped
GroupOf(d, n) == {e \in Planned(n) : GroupKey(e) = GroupKey(d)}

(* _sort_key: the latest activity, then the oldest registration, then _id. *)
Prefers(d, e) ==
  \/ Dump[d].seen > Dump[e].seen
  \/ Dump[d].seen = Dump[e].seen /\ Dump[d].born < Dump[e].born
  \/ Dump[d].seen = Dump[e].seen /\ Dump[d].born = Dump[e].born /\ d < e

Winner(d, n) == CHOOSE w \in GroupOf(d, n) : \A e \in GroupOf(d, n) \ {w} : Prefers(w, e)
Losers(w, n) == GroupOf(w, n) \ {w}

Winners(n) == {Winner(d, n) : d \in Planned(n)}

(* The groups by e-mail in the order of the dump, then those by phone. *)
Precedes(v, w, n) ==
  LET First(x) == CHOOSE d \in GroupOf(x, n) : \A e \in GroupOf(x, n) : d <= e
  IN  \/ GroupKey(v)[1] = "email" /\ GroupKey(w)[1] = "phone"
      \/ GroupKey(v)[1] = GroupKey(w)[1] /\ First(v) < First(w)

(* _merge_missing: a field the winner lacks comes from the first loser     *)
(* that has it.                                                            *)
Merged(w, n, field) ==
  LET givers == {d \in Losers(w, n) : Dump[d][field] # None}
  IN  IF Dump[w][field] # None \/ givers = {} THEN Dump[w][field]
      ELSE Dump[CHOOSE d \in givers : \A e \in givers \ {d} : Prefers(d, e)][field]

(* _identity_rows *)
IdentityRows(w, n) ==
  ({<<"email", Dump[w].email>>} \cup {<<f, Merged(w, n, f)>> : f \in {"phone", "qq"}})
    \cap Subjects

-----------------------------------------------------------------------------
(* The script: StartImport, then a read and an insert per chunk, a chunk   *)
(* being the first of the winners that are left.                           *)

NoMapping == [user |-> NoUser, role |-> "none", batch |-> "none"]
IsMapped(d) == mapping[d] # NoMapping

ImportInit ==
  /\ accounts = {}
  /\ identity = [s \in Subjects |-> NoUser]
  /\ mapping = [d \in Records |-> NoMapping]
  /\ referenced = {} /\ tokens = {} /\ voted = {} /\ visits = 0
  /\ step = "idle" /\ label = "none" /\ limit = 0
  /\ mapped = {} /\ todo = {} /\ chunk = {} /\ refused = {} /\ retired = {}
  /\ found = [s \in Subjects |-> NoUser]

StartImport(b, n) ==
  /\ step = "idle" /\ b \notin retired
  /\ label' = b /\ limit' = n
  /\ mapped' = {d \in Records : IsMapped(d)}
  /\ todo' = Winners(n)
  /\ refused' = {}
  /\ step' = IF Winners(n) = {} THEN "report" ELSE "read"
  /\ UNCHANGED <<tables, site, chunk, found, retired>>

NextChunk ==
  {w \in todo : Cardinality({v \in todo : Precedes(v, w, limit)}) < ChunkSize}

(* _existing_identities: addresses and phones only. *)
ReadExisting ==
  /\ step = "read"
  /\ chunk' = NextChunk
  /\ found' = [s \in Subjects |->
                 IF s[1] # "qq" /\ \E w \in chunk' : s \in IdentityRows(w, limit)
                   THEN identity[s] ELSE NoUser]
  /\ step' = "insert"
  /\ UNCHANGED <<tables, site, label, limit, mapped, todo, refused, retired>>

(* _classify *)
OwnersOf(w) == {found[s] : s \in IdentityRows(w, limit)} \ {NoUser}

Fresh(w) == w \notin mapped
ToCreate == {w \in chunk : Fresh(w) /\ OwnersOf(w) = {}}
InConflict == {w \in chunk : Fresh(w) /\ Cardinality(OwnersOf(w)) = 1}
Multi == {w \in chunk : Fresh(w) /\ Cardinality(OwnersOf(w)) > 1}

NewUser(w) == <<w, label>>
NewRows == [w \in ToCreate |-> IdentityRows(w, limit)]

(* The unique index on (provider, subject_idx). *)
Insertable ==
  /\ \A w \in ToCreate : \A s \in NewRows[w] : identity[s] = NoUser
  /\ \A v, w \in ToCreate : v # w => NewRows[v] \cap NewRows[w] = {}

(* Mutant of RowFor: every record gets an account of its own. *)
RowAlone(d, w) ==
  IF w \in ToCreate
    THEN [user |-> NewUser(d), role |-> IF d = w THEN "primary" ELSE "duplicate", batch |-> label]
    ELSE [user |-> CHOOSE u \in OwnersOf(w) : TRUE, role |-> "conflict_existing", batch |-> label]

(* The mapping rows of a winner and of its losers. *)
RowFor(d, w) ==
  IF w \in ToCreate
    THEN [user |-> NewUser(w), role |-> IF d = w THEN "primary" ELSE "duplicate", batch |-> label]
    ELSE [user |-> CHOOSE u \in OwnersOf(w) : TRUE, role |-> "conflict_existing", batch |-> label]

(* Mutant of Handled: the records that lost in their group are forgotten. *)
HandledAlone == ToCreate \cup InConflict

Handled == {d \in Records \ mapped : \E w \in ToCreate \cup InConflict : d \in GroupOf(w, limit)}

InsertChunk ==
  /\ step = "insert" /\ Insertable
  /\ accounts' = accounts \cup {NewUser(w) : w \in ToCreate}
  /\ identity' = [s \in Subjects |->
                    IF \E w \in ToCreate : s \in NewRows[w]
                      THEN NewUser(CHOOSE w \in ToCreate : s \in NewRows[w]) ELSE identity[s]]
  /\ mapping' = [d \in Records |->
                   IF d \in Handled THEN RowFor(d, Winner(d, limit)) ELSE mapping[d]]
  /\ mapped' = mapped \cup Handled
  /\ refused' = refused \cup Multi
  /\ todo' = todo \ chunk /\ chunk' = {}
  /\ found' = [s \in Subjects |-> NoUser]
  /\ step' = IF todo' = {} THEN "report" ELSE "read"
  /\ UNCHANGED <<site, label, limit, retired>>

(* The memory of a script ends with it. *)
Exit ==
  /\ step' = "idle" /\ label' = "none" /\ limit' = 0
  /\ mapped' = {} /\ todo' = {} /\ chunk' = {} /\ refused' = {}
  /\ found' = [s \in Subjects |-> NoUser]

(* An insert that fails, or a crash: the chunk is rolled back, the chunks  *)
(* before it stay.                                                         *)
Abort ==
  /\ step \in {"read", "insert"}
  /\ Exit
  /\ UNCHANGED <<tables, site, retired>>

WriteReports ==
  /\ step = "report"
  /\ Exit
  /\ UNCHANGED <<tables, site, retired>>

-----------------------------------------------------------------------------
(* The rollback of a batch *)

(* Mutant of PrimaryOf: whatever the role. *)
MappedBy(b) == {mapping[d].user : d \in {d \in Records : mapping[d].batch = b}}

PrimaryOf(b) == {mapping[d].user : d \in {d \in Records : mapping[d].batch = b
                                                    /\ mapping[d].role = "primary"}}

(* Without --force it refuses accounts with votes, activity or reviews. *)
RollbackCheck(b, force) ==
  /\ step = "idle" /\ PrimaryOf(b) # {}
  /\ force \/ PrimaryOf(b) \cap (referenced \cup voted) = {}
  /\ label' = b
  /\ step' = IF force THEN "erase" ELSE "delete"
  /\ UNCHANGED <<tables, site, limit, mapped, todo, chunk, found, refused, retired>>

(* Identities, accounts and mappings in one transaction; a foreign key     *)
(* takes the mappings of other batches to a deleted account with it.       *)
RollbackDelete ==
  LET gone == PrimaryOf(label)
  IN  /\ step \in {"delete", "erase"}
      /\ accounts' = accounts \ gone
      /\ identity' = [s \in Subjects |-> IF identity[s] \in gone THEN NoUser ELSE identity[s]]
      /\ mapping' = [d \in Records |->
                       IF mapping[d].batch = label \/ mapping[d].user \in gone
                         THEN NoMapping ELSE mapping[d]]
      /\ retired' = retired \cup {label}
      /\ Exit
      /\ UNCHANGED site

RollbackCrash ==
  /\ step \in {"delete", "erase"}
  /\ Exit
  /\ UNCHANGED <<tables, site, retired>>

-----------------------------------------------------------------------------
(* The site (modelled in detail in Identity and VoteSubmit) *)

Visit == visits < MaxVisits /\ visits' = visits + 1

Register(u, s) ==
  /\ Visit
  /\ u \notin accounts /\ identity[s] = NoUser
  /\ accounts' = accounts \cup {u}
  /\ identity' = [identity EXCEPT ![s] = u]
  /\ referenced' = referenced \cup {u}
  /\ UNCHANGED <<mapping, tokens, voted, script, retired>>

(* A bind replaces the identity in the slot of its provider. *)
Bind(u, s) ==
  /\ Visit
  /\ u \in accounts /\ identity[s] = NoUser
  /\ identity' = [t \in Subjects |->
                    IF t = s THEN u
                    ELSE IF t[1] = s[1] /\ identity[t] = u THEN NoUser ELSE identity[t]]
  /\ referenced' = referenced \cup {u}
  /\ UNCHANGED <<accounts, mapping, tokens, voted, script, retired>>

(* A login by an identity writes to the activity log and yields a token. *)
Login(u) ==
  /\ Visit
  /\ u \in accounts \ tokens /\ \E s \in Subjects : identity[s] = u
  /\ referenced' = referenced \cup {u}
  /\ tokens' = tokens \cup {u}
  /\ UNCHANGED <<tables, voted, script, retired>>

(* The token alone decides: the account is not looked up. *)
Vote(u) ==
  /\ Visit
  /\ u \in tokens \ voted
  /\ voted' = voted \cup {u}
  /\ UNCHANGED <<tables, referenced, tokens, script, retired>>

ImportNext ==
  \/ \E b \in Batches, n \in Limits : StartImport(b, n)
  \/ ReadExisting \/ InsertChunk \/ Abort \/ WriteReports
  \/ \E b \in Batches, force \in BOOLEAN : RollbackCheck(b, force)
  \/ RollbackDelete \/ RollbackCrash
  \/ \E u \in Residents, s \in Subjects : Register(u, s)
  \/ \E u \in Users, s \in Subjects : Bind(u, s)
  \/ \E u \in Users : Login(u) \/ Vote(u)

ImportSpec == ImportInit /\ [][ImportNext]_importVars

-----------------------------------------------------------------------------
(* Properties *)

ImportTypeOK ==
  /\ accounts \subseteq Users
  /\ identity \in [Subjects -> Users \cup {NoUser}]
  /\ mapping \in [Records -> [user : Users, role : Roles, batch : Batches] \cup {NoMapping}]
  /\ referenced \cup tokens \cup voted \subseteq Users
  /\ step \in {"idle", "read", "insert", "report", "delete", "erase"}
  /\ mapped \subseteq Records /\ refused \subseteq Records

(* Whatever aborts, repetitions and rollbacks, a mapping leads to an       *)
(* account that exists, an identity has an owner that exists, and an       *)
(* imported account is the primary record of its winner.                   *)
NothingDangles ==
  /\ \A d \in Records : IsMapped(d) => mapping[d].user \in accounts
  /\ \A s \in Subjects : identity[s] \in accounts \cup {NoUser}
  /\ \A u \in accounts \ Residents :
       Cardinality({d \in Records : mapping[d].user = u /\ mapping[d].role = "primary"}) = 1

(* The records of one address lead to one account, and nothing dangles. *)
GroupsStayTogether ==
  /\ NothingDangles
  /\ \A d, e \in Records \ Skipped :
       IsMapped(d) /\ IsMapped(e) /\ GroupKey(d) = GroupKey(e) => mapping[d].user = mapping[e].user

(* An import that reaches its reports has mapped every document it planned *)
(* except the groups it reports with two owners.                           *)
FinishedAccounts ==
  step = "report" =>
    \A d \in Planned(limit) : IsMapped(d) \/ Winner(d, limit) \in refused

(* An account somebody registered on the site is never deleted.            *)
ResidentsStay == [][accounts \cap Residents \subseteq accounts']_importVars

(* A rollback without --force deletes no account that has voted.           *)
VotersAreNotDeleted ==
  [][step = "delete" /\ RollbackDelete => PrimaryOf(label) \cap voted = {}]_importVars

=============================================================================
