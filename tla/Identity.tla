------------------------------ MODULE Identity ------------------------------
(***************************************************************************)
(* Accounts and identities: UserService, IdentityService and the user DAOs *)
(* (apps/user).  A request is one HTTP call with an ORM session of its     *)
(* own.  The session loads the account and then its identity rows (two     *)
(* SELECTs), works on that copy, and commits; a commit flushes only the    *)
(* columns and rows the copy changed, by primary key, and save() reads     *)
(* the account back.  PostgreSQL runs at READ COMMITTED and keeps two      *)
(* unique keys: (provider, subject) and (user, provider).                  *)
(*                                                                         *)
(* Codes, OAuth and tokens are inputs: a request that passes them proves   *)
(* the subject or the account it names.                                    *)
(***************************************************************************)
CONSTANTS
  Accounts,       \* account ids; generate_user_id yields one not yet used
  Subjects,       \* normalised e-mail addresses, phone numbers, openids
  Provider,       \* Provider[s]: the kind of subject s
  Eligible,       \* vote_eligible_providers()
  Sso,            \* the subjects an SSO callback may leave in a LoginSession
  NoSubject,      \* no LoginSession
  Secrets,        \* passwords
  NoSecret,       \* no password
  Requests,       \* HTTP requests
  Import,         \* the origin of rows that no request has inserted
  Imported,       \* the identity rows at the start
  NoJob, NoCopy,  \* what a request without work, without a loaded account has
  RestoreDeleted  \* may an administrator unban an account that was deleted?

Identities == [user : Accounts, subject : Subjects, by : Requests \cup {Import}]

(* password_hash and legacy_salt # NULL *)
Passwords == [secret : Secrets \cup {NoSecret}, salted : BOOLEAN]
NoPassword == [secret |-> NoSecret, salted |-> FALSE]

Login == {"code", "password"}
Kinds == Login \cup {"bind", "remove", "setpw"}

(* Logins by code or password name an address or a number, never an openid; *)
(* hence a request inserts a subject at most once, and "by" names the row.   *)
Contacts == Subjects \ Sso

(* What a request asks for.  remove_voter may come without a password. *)
Job ==
  [kind : {"code"}, subject : Contacts, sso : Sso \cup {NoSubject}]
    \cup [kind : {"password"}, subject : Contacts, sso : Sso \cup {NoSubject},
          secret : Secrets]
    \cup [kind : {"bind"}, user : Accounts, subject : Subjects]
    \cup [kind : {"remove", "setpw"}, user : Accounts, secret : Secrets \cup {NoSecret}]

ASSUME IdentityAssumption ==
  /\ NoSubject \notin Subjects
  /\ Sso \subseteq Subjects
  /\ NoSecret \notin Secrets
  /\ Import \notin Requests
  /\ Imported \subseteq Identities
  /\ \A x \in Imported : x.by = Import
  /\ \A x, y \in Imported :
       \/ x.subject = y.subject
       \/ x.user = y.user /\ Provider[x.subject] = Provider[y.subject]
       => x = y
  /\ NoJob \notin Job
  /\ RestoreDeleted \in BOOLEAN

VARIABLES
  account,     \* account[u]: no row, or its removed flag
  password,    \* password[u]
  identities,  \* the rows of user_identity
  verified,    \* those with verified = TRUE
  pc, job,     \* where a request stands and what it asks for
  copy,        \* the account its ORM session has loaded
  then,        \* where it goes on when the rows are loaded
  left,        \* (history) accounts whose owner has deleted them
  proven,      \* (history) <<account, subject>> proved by a code or by OAuth
  entitled     \* (history) accounts that were given a vote token

vars == <<account, password, identities, verified, pc, job, copy, then,
          left, proven, entitled>>
store == <<account, password, identities, verified, left, proven>>

Copy == [user : Accounts, password : Passwords,
         rows : SUBSET Identities, verified : SUBSET Identities]

Loading == {"owner", "auth", "ids", "refresh"}
Working == {"register", "rehash", "touch", "merge", "lookup", "promote",
            "insert", "drop", "setpw", "sign"}
Ended == {"done", "rejected", "banned", "conflict", "integrity", "failed"}

-----------------------------------------------------------------------------
Init ==
  /\ account \in [Accounts -> {"none", "active", "removed"}]
  /\ \A u \in Accounts :
       account[u] = "none" <=> \A x \in Imported : x.user # u
  /\ password \in [Accounts -> Passwords]
  /\ \A u \in Accounts :
       \/ password[u] = NoPassword
       \/ account[u] # "none" /\ password[u].secret # NoSecret
  /\ identities = Imported
  /\ verified \in SUBSET Imported
  /\ pc = [r \in Requests |-> "idle"]
  /\ job = [r \in Requests |-> NoJob]
  /\ copy = [r \in Requests |-> NoCopy]
  /\ then = [r \in Requests |-> "idle"]
  /\ left = {}
  /\ proven = {<<x.user, x.subject>> : x \in verified}
  /\ entitled = {}

(* The user's identity for the kind of subject s, in the loaded copy. *)
Slot(r, s) == {x \in copy[r].rows : Provider[x.subject] = Provider[s]}

(* The subject that bind() is called with. *)
Target(r) == IF job[r].kind \in Login THEN job[r].sso ELSE job[r].subject

(* The request ends, by whichever way, and its session is closed. *)
End(r, how) ==
  /\ pc' = [pc EXCEPT ![r] = how]
  /\ job' = [job EXCEPT ![r] = NoJob]
  /\ copy' = [copy EXCEPT ![r] = NoCopy]
  /\ then' = [then EXCEPT ![r] = "idle"]

Goto(r, where) == pc' = [pc EXCEPT ![r] = where] /\ UNCHANGED <<job, copy, then>>

(* bind() returns without a commit, or raises: a login takes no notice. *)
BindEnds(r, how) ==
  IF job[r].kind \in Login THEN Goto(r, "sign") ELSE End(r, how)

(* The first SELECT of an account load; LoadIdentities is the second. *)
Load(r, u, where) ==
  /\ copy' = [copy EXCEPT ![r] = [user |-> u, password |-> password[u],
                                  rows |-> {}, verified |-> {}]]
  /\ pc' = [pc EXCEPT ![r] = "ids"]
  /\ then' = [then EXCEPT ![r] = where]
  /\ UNCHANGED job

(* save(): after the commit the account is read back, then work goes on. *)
Saved(r, where) ==
  /\ pc' = [pc EXCEPT ![r] = "refresh"]
  /\ then' = [then EXCEPT ![r] = where]
  /\ UNCHANGED <<job, copy>>

(* bind() has committed: the last thing an explicit bind does. *)
BindSaved(r) ==
  IF job[r].kind \in Login THEN Saved(r, "sign") ELSE End(r, "done")

(* Mutant of Clash: no unique key on (provider, subject). *)
ClashInSlot(rows, u, s) ==
  \E x \in rows : x.user = u /\ Provider[x.subject] = Provider[s]

(* Would a row for user u and subject s break a unique key among rows? *)
Clash(rows, u, s) ==
  \E x \in rows : \/ x.subject = s
                  \/ x.user = u /\ Provider[x.subject] = Provider[s]

-----------------------------------------------------------------------------
Start(r, j) ==
  /\ pc[r] = "idle"
  /\ pc' = [pc EXCEPT ![r] = IF j.kind \in Login THEN "owner" ELSE "auth"]
  /\ job' = [job EXCEPT ![r] = j]
  /\ UNCHANGED <<store, copy, then, entitled>>

LoadIdentities(r) ==
  /\ pc[r] = "ids"
  /\ copy' = [copy EXCEPT
       ![r].rows = {x \in identities : x.user = copy[r].user},
       ![r].verified = {x \in verified : x.user = copy[r].user}]
  /\ pc' = [pc EXCEPT ![r] = then[r]]
  /\ UNCHANGED <<store, job, then, entitled>>

Refresh(r) ==
  /\ pc[r] = "refresh"
  /\ Load(r, copy[r].user, then[r])
  /\ UNCHANGED <<store, entitled>>

(* _login_by_identity: the owner of a proved subject, whom resolve() turns    *)
(* away when banned, or a new account.                                       *)
ResolveByCode(r) ==
  /\ pc[r] = "owner" /\ job[r].kind = "code"
  /\ \/ /\ \A x \in identities : x.subject # job[r].subject
        /\ Goto(r, "register")
     \/ \E x \in identities :
          /\ x.subject = job[r].subject
          /\ IF account[x.user] = "removed"
               THEN End(r, "banned")
               ELSE Load(r, x.user, "touch")
  /\ UNCHANGED <<store, entitled>>

(* find_owner(), then the password, then the ban. *)
ResolveByPassword(r) ==
  /\ pc[r] = "owner" /\ job[r].kind = "password"
  /\ \/ /\ \A x \in identities : x.subject # job[r].subject
        /\ End(r, "rejected")
     \/ \E x \in identities : LET p == password[x.user] IN
          /\ x.subject = job[r].subject
          /\ IF p.secret = NoSecret \/ p.secret # job[r].secret
               THEN End(r, "rejected")
             ELSE IF account[x.user] = "removed"
               THEN End(r, "banned")
             ELSE Load(r, x.user, IF p.salted THEN "rehash" ELSE "touch")
  /\ UNCHANGED <<store, entitled>>

(* _authenticate, _require_session_token: the account must not be removed. *)
Authenticate(r) ==
  /\ pc[r] = "auth"
  /\ IF account[job[r].user] = "active"
       THEN Load(r, job[r].user, CASE job[r].kind = "bind"   -> "lookup"
                                   [] job[r].kind = "remove" -> "drop"
                                   [] job[r].kind = "setpw"  -> "setpw")
       ELSE End(r, "rejected")
  /\ UNCHANGED <<store, entitled>>

(* register(): account and first identity in one transaction; the loser of   *)
(* two registrations of a subject ends in an IntegrityError.                 *)
Register(r) ==
  /\ pc[r] = "register"
  /\ IF \E x \in identities : x.subject = job[r].subject
       THEN End(r, "integrity") /\ UNCHANGED store
       ELSE \E u \in Accounts :
              LET x == [user |-> u, subject |-> job[r].subject, by |-> r] IN
              /\ account[u] = "none"
              /\ account' = [account EXCEPT ![u] = "active"]
              /\ identities' = identities \cup {x}
              /\ verified' = verified \cup {x}
              /\ proven' = proven \cup {<<u, job[r].subject>>}
              /\ copy' = [copy EXCEPT ![r] = [user |-> u, password |-> NoPassword,
                                              rows |-> {x}, verified |-> {x}]]
              /\ pc' = [pc EXCEPT ![r] = "refresh"]
              /\ then' = [then EXCEPT ![r] = "merge"]
              /\ UNCHANGED <<job, password, left>>
  /\ UNCHANGED entitled

(* A legacy hash is replaced, and its salt cleared, at the first login. *)
Rehash(r) ==
  /\ pc[r] = "rehash"
  /\ password' = [password EXCEPT ![copy[r].user] =
                    [secret |-> copy[r].password.secret, salted |-> FALSE]]
  /\ Saved(r, "touch")
  /\ UNCHANGED <<account, identities, verified, left, proven, entitled>>

(* touch_login(): last_login_at, and verified when a code proved the subject *)
(* - but it is the identity in the provider's slot that is updated.  A row   *)
(* that is gone by now is a StaleDataError.                                  *)
Touch(r) ==
  /\ pc[r] = "touch"
  /\ IF Slot(r, job[r].subject) = {}
       THEN Goto(r, "merge") /\ UNCHANGED <<verified, proven>>
     ELSE IF ~ Slot(r, job[r].subject) \subseteq identities
       THEN End(r, "failed") /\ UNCHANGED <<verified, proven>>
     ELSE /\ Saved(r, "merge")
          /\ IF job[r].kind = "code"
               THEN /\ verified' = verified \cup Slot(r, job[r].subject)
                    /\ proven' = proven \cup {<<copy[r].user, job[r].subject>>}
               ELSE UNCHANGED <<verified, proven>>
  /\ UNCHANGED <<account, password, identities, left, entitled>>

(* Mutant of Merge: the openid of the session replaces the bound one. *)
MergeReplaces(r) ==
  /\ pc[r] = "merge"
  /\ Goto(r, IF job[r].sso = NoSubject THEN "sign" ELSE "lookup")
  /\ UNCHANGED <<store, entitled>>

(* _merge_sso_session: a slot that holds another subject is left alone. *)
Merge(r) ==
  /\ pc[r] = "merge"
  /\ Goto(r, IF \/ job[r].sso = NoSubject
                \/ \E x \in Slot(r, job[r].sso) : x.subject # job[r].sso
               THEN "sign" ELSE "lookup")
  /\ UNCHANGED <<store, entitled>>

(* bind(): who holds the subject?  A login skips what is taken, an explicit  *)
(* bind is answered 409.                                                     *)
Lookup(r) ==
  /\ pc[r] = "lookup"
  /\ \/ /\ \A x \in identities : x.subject # Target(r)
        /\ Goto(r, "insert")
     \/ \E x \in identities :
          /\ x.subject = Target(r)
          /\ IF x.user # copy[r].user THEN BindEnds(r, "conflict")
             ELSE IF x \in (IF x \in copy[r].rows THEN copy[r].verified ELSE verified)
               THEN BindEnds(r, "done")
             ELSE Goto(r, "promote")
  /\ UNCHANGED <<store, entitled>>

(* ... it is the user's own, not verified yet (an imported row): now it is. *)
Promote(r) ==
  LET x == [user |-> copy[r].user, subject |-> Target(r), by |-> Import] IN
  /\ pc[r] = "promote"
  /\ IF x \in identities
       THEN /\ verified' = verified \cup {x}
            /\ proven' = proven \cup {<<x.user, x.subject>>}
            /\ BindSaved(r)
       ELSE End(r, "failed") /\ UNCHANGED <<verified, proven>>
  /\ UNCHANGED <<account, password, identities, left, entitled>>

(* Mutant of Insert: the DELETE is committed before the INSERT. *)
InsertAfterCommit(r) ==
  LET u == copy[r].user
      new == [user |-> u, subject |-> Target(r), by |-> r]
      kept == identities \ Slot(r, Target(r)) IN
  /\ pc[r] = "insert"
  /\ IF Clash(kept, u, Target(r))
       THEN /\ End(r, "integrity") /\ UNCHANGED proven
            /\ identities' = kept /\ verified' = verified \cap kept
       ELSE /\ identities' = kept \cup {new}
            /\ verified' = (verified \cap kept) \cup {new}
            /\ proven' = proven \cup {<<u, Target(r)>>}
            /\ BindSaved(r)
  /\ UNCHANGED <<account, password, left, entitled>>

(* ... nobody's: DELETE the identity in the provider's slot (a row that is   *)
(* gone already is ignored) and INSERT the new one, in one transaction.      *)
Insert(r) ==
  LET u == copy[r].user
      new == [user |-> u, subject |-> Target(r), by |-> r]
      kept == identities \ Slot(r, Target(r)) IN
  /\ pc[r] = "insert"
  /\ IF Clash(kept, u, Target(r))
       THEN End(r, "integrity") /\ UNCHANGED <<identities, verified, proven>>
       ELSE /\ identities' = kept \cup {new}
            /\ verified' = (verified \cap kept) \cup {new}
            /\ proven' = proven \cup {<<u, Target(r)>>}
            /\ BindSaved(r)
  /\ UNCHANGED <<account, password, left, entitled>>

(* Mutant of Sign: an identity that nobody has verified will do. *)
SignUnverified(r) ==
  /\ pc[r] = "sign"
  /\ entitled' = IF \E x \in copy[r].rows : Provider[x.subject] \in Eligible
                   THEN entitled \cup {copy[r].user} ELSE entitled
  /\ End(r, "done")
  /\ UNCHANGED store

(* The answer of a login; the vote token goes to a verified identity. *)
Sign(r) ==
  /\ pc[r] = "sign"
  /\ entitled' = IF \E x \in copy[r].verified : Provider[x.subject] \in Eligible
                   THEN entitled \cup {copy[r].user} ELSE entitled
  /\ End(r, "done")
  /\ UNCHANGED store

(* remove_voter(): the password is checked only when both sides have one.    *)
(* The flush deletes the rows of the copy, and clears the password if the    *)
(* copy has one: a column that does not change is not written.               *)
Drop(r) ==
  LET u == copy[r].user IN
  /\ pc[r] = "drop"
  /\ IF /\ copy[r].password.secret # NoSecret
        /\ job[r].secret \notin {NoSecret, copy[r].password.secret}
       THEN End(r, "rejected") /\ UNCHANGED <<account, password, identities, verified, left>>
       ELSE /\ account' = [account EXCEPT ![u] = "removed"]
            /\ password' = IF copy[r].password.secret = NoSecret THEN password
                           ELSE [password EXCEPT ![u] = NoPassword]
            /\ identities' = identities \ copy[r].rows
            /\ verified' = verified \ copy[r].rows
            /\ left' = left \cup {u}
            /\ End(r, "done")
  /\ UNCHANGED <<proven, entitled>>

(* update_password() *)
SetPassword(r) ==
  /\ pc[r] = "setpw"
  /\ IF copy[r].password.secret \notin {NoSecret, job[r].secret}
       THEN End(r, "rejected") /\ UNCHANGED password
       ELSE /\ \E new \in Secrets :
                 password' = [password EXCEPT ![copy[r].user] =
                                [secret |-> new, salted |-> FALSE]]
            /\ End(r, "done")
  /\ UNCHANGED <<account, identities, verified, left, proven, entitled>>

(* A lost connection, a rejected code, a dead worker: nothing is committed. *)
Fail(r) ==
  /\ pc[r] \in Loading \cup Working
  /\ End(r, "failed")
  /\ UNCHANGED <<store, entitled>>

(* UserDAO.set_removed *)
Ban(u) ==
  /\ account[u] = "active"
  /\ account' = [account EXCEPT ![u] = "removed"]
  /\ UNCHANGED <<password, identities, verified, pc, job, copy, then, left, proven, entitled>>

Unban(u) ==
  /\ account[u] = "removed"
  /\ u \in left => RestoreDeleted
  /\ account' = [account EXCEPT ![u] = "active"]
  /\ UNCHANGED <<password, identities, verified, pc, job, copy, then, left, proven, entitled>>

Step(r) ==
  \/ LoadIdentities(r) \/ Refresh(r)
  \/ ResolveByCode(r) \/ ResolveByPassword(r) \/ Authenticate(r)
  \/ Register(r) \/ Rehash(r) \/ Touch(r) \/ Merge(r)
  \/ Lookup(r) \/ Promote(r) \/ Insert(r) \/ Sign(r)
  \/ Drop(r) \/ SetPassword(r)

Next ==
  \/ \E r \in Requests : (\E j \in Job : Start(r, j)) \/ Step(r) \/ Fail(r)
  \/ \E u \in Accounts : Ban(u) \/ Unban(u)

Spec == Init /\ [][Next]_vars

-----------------------------------------------------------------------------
TypeOK ==
  /\ account \in [Accounts -> {"none", "active", "removed"}]
  /\ password \in [Accounts -> Passwords]
  /\ identities \subseteq Identities
  /\ verified \subseteq identities
  /\ pc \in [Requests -> Loading \cup Working \cup Ended \cup {"idle"}]
  /\ job \in [Requests -> Job \cup {NoJob}]
  /\ copy \in [Requests -> Copy \cup {NoCopy}]
  /\ then \in [Requests -> Working \cup {"idle"}]
  /\ left \subseteq Accounts
  /\ proven \subseteq Accounts \X Subjects
  /\ entitled \subseteq Accounts

(* bind() replaces and never just drops: an account whose owner has not      *)
(* deleted it always has an identity to log in with, banned or not, however  *)
(* many sessions rebind it and wherever one of them dies.                    *)
HasIdentity ==
  \A u \in Accounts \ left :
    account[u] # "none" => \E x \in identities : x.user = u

(* "Owned by another account -> 409": a subject never passes from one        *)
(* account to another in one step; its owner must have let go of it first.   *)
NoHandover ==
  [][\A x \in identities, y \in identities' :
       x.subject = y.subject => x.user = y.user]_vars

(* _merge_sso_session, "the SSO attach is a courtesy": a login never removes *)
(* an identity, its own account's or another's.                              *)
LoginKeepsIdentities ==
  [][\A r \in Requests :
       job[r] # NoJob /\ job[r].kind \in Login /\ pc'[r] # pc[r]
       => identities \subseteq identities']_vars

(* _maybe_sign_vote_token: a vote token goes only to an account that has     *)
(* proved a subject of an eligible provider - a password proves none.        *)
VoteTokenProven ==
  \A u \in entitled :
    \E s \in Subjects : Provider[s] \in Eligible /\ <<u, s>> \in proven

(* remove_voter, "drop every identity row and the credential so nothing can  *)
(* re-identify or re-authenticate this account".                             *)
Tombstone ==
  \A u \in left :
    account[u] = "removed" =>
      password[u].secret = NoSecret /\ \A x \in identities : x.user # u

(* "No path brings an active account to zero identities." *)
ActiveHasIdentity ==
  \A u \in Accounts : account[u] = "active" => \E x \in identities : x.user = u
=============================================================================
