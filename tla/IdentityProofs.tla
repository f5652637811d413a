--------------------------- MODULE IdentityProofs ---------------------------
(***************************************************************************)
(* Proofs about Identity, for any number of accounts, subjects, providers  *)
(* and requests, deletions and bans included.                              *)
(***************************************************************************)
EXTENDS Identity, TLAPS

(* Where a request that asks for j may stand. *)
Binding == {"lookup", "promote", "insert"}
Allowed(j) ==
  IF j.kind \in Login
    THEN {"register", "rehash", "touch", "merge", "sign"} \cup
         (IF j.sso = NoSubject THEN {} ELSE Binding)
  ELSE IF j.kind = "bind" THEN Binding
  ELSE IF j.kind = "remove" THEN {"drop"} ELSE {"setpw"}

(* A session has loaded one account, and identities of that account only. *)
Loaded(r) ==
  /\ copy[r] \in Copy
  /\ \A x \in copy[r].rows : x.user = copy[r].user

(* What the values of pc, job, copy and then have to do with each other. *)
Shape ==
  \A r \in Requests :
    /\ pc[r] \in Loading \cup Working => job[r] \in Job
    /\ pc[r] = "owner" => job[r].kind \in Login
    /\ pc[r] = "auth" => job[r].kind \notin Login
    /\ pc[r] \in Working => pc[r] \in Allowed(job[r])
    /\ pc[r] \in {"ids", "refresh"} => then[r] \in Allowed(job[r]) \ {"register"}
    /\ pc[r] \in (Working \ {"register"}) \cup {"ids", "refresh"} => Loaded(r)

-----------------------------------------------------------------------------
(* The fields a request has. *)
LEMMA JobFields ==
  ASSUME NEW j \in Job
  PROVE  /\ j.kind \in Kinds
         /\ j.kind \in Login => j.subject \in Subjects /\ j.sso \in Subjects \cup {NoSubject}
         /\ j.kind = "bind" => j.subject \in Subjects
         /\ j.kind \notin Login => j.user \in Accounts
  BY IdentityAssumption DEF Job, Kinds, Login, Contacts

(* What bind() is called with is a subject. *)
LEMMA TargetIsSubject ==
  ASSUME Shape, NEW r \in Requests, pc[r] \in Binding
  PROVE  Target(r) \in Subjects
<1>1. job[r] \in Job /\ pc[r] \in Allowed(job[r])
  BY DEF Shape, Binding, Working
<1>2. CASE job[r].kind \in Login
  BY <1>1, <1>2, JobFields DEF Allowed, Target, Binding
<1>3. CASE job[r].kind \notin Login
  BY <1>1, <1>3, JobFields DEF Allowed, Target, Binding
<1> QED BY <1>2, <1>3

(* The ways a request moves keep what the types say of one request. *)
WorkOK ==
  /\ pc \in [Requests -> Loading \cup Working \cup Ended \cup {"idle"}]
  /\ job \in [Requests -> Job \cup {NoJob}]
  /\ copy \in [Requests -> Copy \cup {NoCopy}]
  /\ then \in [Requests -> Working \cup {"idle"}]

LEMMA EndKeeps ==
  ASSUME WorkOK, Shape, NEW r \in Requests, NEW how \in Ended, End(r, how)
  PROVE  WorkOK' /\ Shape'
<1>1. WorkOK'
  BY DEF WorkOK, End
<1>2. \A q \in Requests : q # r =>
        pc'[q] = pc[q] /\ job'[q] = job[q] /\ copy'[q] = copy[q] /\ then'[q] = then[q]
  BY DEF WorkOK, End
<1>3. pc'[r] \in Ended
  BY DEF WorkOK, End
<1>4. \A q \in Requests : q # r => (Loaded(q) => Loaded(q)')
  BY <1>2 DEF Loaded
<1> QED
  BY <1>1, <1>2, <1>3, <1>4 DEF Shape, Ended, Loading, Working

LEMMA GotoKeeps ==
  ASSUME WorkOK, Shape, NEW r \in Requests, NEW where \in Allowed(job[r]),
         pc[r] \in Loading \cup Working,
         where # "register" => Loaded(r), Goto(r, where)
  PROVE  WorkOK' /\ Shape'
<1>1. where \in Working
  BY DEF Allowed, Binding, Working
<1>2. WorkOK'
  BY <1>1 DEF WorkOK, Goto
<1>3. \A q \in Requests : q # r => pc'[q] = pc[q]
  BY DEF WorkOK, Goto
<1>4. pc'[r] = where /\ job' = job /\ copy' = copy /\ then' = then
  BY DEF WorkOK, Goto
<1>5. \A q \in Requests : Loaded(q) => Loaded(q)'
  BY <1>4 DEF Loaded
<1>6. job[r] \in Job
  BY DEF Shape
<1> QED BY <1>1, <1>2, <1>3, <1>4, <1>5, <1>6 DEF Shape, Working

LEMMA LoadKeeps ==
  ASSUME WorkOK, Shape, NEW r \in Requests, NEW where \in Allowed(job[r]) \ {"register"},
         pc[r] \in Loading, NEW u \in Accounts, password[u] \in Passwords, Load(r, u, where)
  PROVE  WorkOK' /\ Shape'
<1> DEFINE c == [user |-> u, password |-> password[u], rows |-> {}, verified |-> {}]
<1>1. c \in Copy
  BY DEF Copy
<1>2. where \in Working
  BY DEF Allowed, Binding, Working
<1>3. WorkOK'
  BY <1>1, <1>2 DEF WorkOK, Load, Loading
<1>4. \A q \in Requests : q # r => pc'[q] = pc[q] /\ copy'[q] = copy[q] /\ then'[q] = then[q]
  BY DEF WorkOK, Load
<1>5. pc'[r] = "ids" /\ copy'[r] = c /\ then'[r] = where /\ job' = job
  BY DEF WorkOK, Load
<1>6. Loaded(r)' /\ \A q \in Requests : q # r => (Loaded(q) => Loaded(q)')
  BY <1>1, <1>4, <1>5 DEF Loaded
<1>7. job[r] \in Job
  BY DEF Shape
<1> QED BY <1>3, <1>4, <1>5, <1>6, <1>7 DEF Shape, Working, Loading

LEMMA SavedKeeps ==
  ASSUME WorkOK, Shape, NEW r \in Requests, NEW where \in Allowed(job[r]) \ {"register"},
         pc[r] \in Working, Loaded(r), Saved(r, where)
  PROVE  WorkOK' /\ Shape'
<1>1. where \in Working
  BY DEF Allowed, Binding, Working
<1>2. WorkOK'
  BY <1>1 DEF WorkOK, Saved, Loading
<1>3. \A q \in Requests : q # r => pc'[q] = pc[q] /\ then'[q] = then[q]
  BY DEF WorkOK, Saved
<1>4. pc'[r] = "refresh" /\ then'[r] = where /\ job' = job /\ copy' = copy
  BY DEF WorkOK, Saved
<1>5. \A q \in Requests : Loaded(q) => Loaded(q)'
  BY <1>4 DEF Loaded
<1>6. job[r] \in Job
  BY DEF Shape
<1> QED BY <1>2, <1>3, <1>4, <1>5, <1>6 DEF Shape, Working, Loading

(* The rest of TypeOK. *)
StoreOK ==
  /\ account \in [Accounts -> {"none", "active", "removed"}]
  /\ password \in [Accounts -> Passwords]
  /\ identities \subseteq Identities
  /\ verified \subseteq identities
  /\ left \subseteq Accounts
  /\ proven \subseteq Accounts \X Subjects
  /\ entitled \subseteq Accounts

LEMMA TypeParts == TypeOK <=> StoreOK /\ WorkOK
  BY DEF TypeOK, StoreOK, WorkOK

LEMMA StoreUnchanged ==
  ASSUME StoreOK, UNCHANGED <<store, entitled>>
  PROVE  StoreOK'
  BY DEF StoreOK, store

(* What bind() changes when it ends without a commit, or with one. *)
LEMMA BindEndsKeeps ==
  ASSUME WorkOK, Shape, NEW r \in Requests, pc[r] \in Binding, Loaded(r),
         NEW how \in Ended, BindEnds(r, how)
  PROVE  WorkOK' /\ Shape'
<1>1. job[r] \in Job
  BY DEF Shape, Binding, Working
<1>2. CASE job[r].kind \in Login
  <2>1. Goto(r, "sign") /\ "sign" \in Allowed(job[r])
    BY <1>2 DEF BindEnds, Allowed
  <2> QED BY <2>1, GotoKeeps DEF Binding, Working
<1>3. CASE job[r].kind \notin Login
  BY <1>3, EndKeeps DEF BindEnds
<1> QED BY <1>2, <1>3

LEMMA BindSavedKeeps ==
  ASSUME WorkOK, Shape, NEW r \in Requests, pc[r] \in Binding, Loaded(r), BindSaved(r)
  PROVE  WorkOK' /\ Shape'
<1>1. CASE job[r].kind \in Login
  <2>1. Saved(r, "sign") /\ "sign" \in Allowed(job[r]) \ {"register"}
    BY <1>1 DEF BindSaved, Allowed
  <2> QED BY <2>1, SavedKeeps DEF Binding, Working
<1>2. CASE job[r].kind \notin Login
  <2>1. End(r, "done") /\ "done" \in Ended
    BY <1>2 DEF BindSaved, Ended
  <2> QED BY <2>1, EndKeeps
<1> QED BY <1>1, <1>2

(* An account loaded in the "working" states, and what stands there. *)
LEMMA AtWork ==
  ASSUME WorkOK, StoreOK, Shape, NEW r \in Requests, pc[r] \in Working
  PROVE  /\ job[r] \in Job /\ pc[r] \in Allowed(job[r])
         /\ pc[r] # "register" => /\ Loaded(r)
                                   /\ copy[r].user \in Accounts
                                   /\ copy[r].password \in Passwords
                                   /\ copy[r].rows \subseteq Identities
  BY DEF Shape, Loaded, Copy

(* Every step keeps the types and the shape of the requests. *)
LEMMA TypedStep ==
  ASSUME TypeOK, Shape, [Next]_vars
  PROVE  TypeOK' /\ Shape'
<1> USE TypeParts
<1>0. StoreOK /\ WorkOK
  OBVIOUS
<1> SUFFICES StoreOK' /\ WorkOK' /\ Shape'
  BY DEF TypeOK, StoreOK, WorkOK
<1>1. CASE UNCHANGED vars
  <2>1. StoreOK' /\ WorkOK'
    BY <1>0, <1>1 DEF StoreOK, WorkOK, vars
  <2>2. Shape'
    BY <1>1 DEF Shape, Loaded, vars
  <2> QED BY <2>1, <2>2
<1>2. ASSUME NEW r \in Requests, NEW j \in Job, Start(r, j)
      PROVE  StoreOK' /\ WorkOK' /\ Shape'
  <2>1. StoreOK'
    BY <1>0, <1>2, StoreUnchanged DEF Start
  <2>2. WorkOK'
    BY <1>0, <1>2 DEF WorkOK, Start, Loading
  <2>3. \A q \in Requests : q # r => pc'[q] = pc[q] /\ job'[q] = job[q]
    BY <1>0, <1>2 DEF WorkOK, Start
  <2>4. job'[r] = j /\ pc'[r] = IF j.kind \in Login THEN "owner" ELSE "auth"
    BY <1>0, <1>2 DEF WorkOK, Start
  <2>5. copy' = copy /\ then' = then /\ \A q \in Requests : Loaded(q) => Loaded(q)'
    BY <1>2 DEF Start, Loaded
  <2>6. Shape'
    BY <2>3, <2>4, <2>5 DEF Shape, Working
  <2> QED BY <2>1, <2>2, <2>6
<1>3. ASSUME NEW r \in Requests, LoadIdentities(r)
      PROVE  StoreOK' /\ WorkOK' /\ Shape'
  <2>1. StoreOK'
    BY <1>0, <1>3, StoreUnchanged DEF LoadIdentities
  <2>2. Loaded(r) /\ then[r] \in Allowed(job[r]) \ {"register"} /\ job[r] \in Job
    BY <1>3 DEF LoadIdentities, Shape, Loading
  <2>3. then[r] \in Working
    BY <2>2 DEF Allowed, Binding, Working
  <2>4. copy'[r] = [copy[r] EXCEPT !.rows = {x \in identities : x.user = copy[r].user},
                                   !.verified = {x \in verified : x.user = copy[r].user}]
    BY <1>0, <1>3 DEF LoadIdentities, WorkOK
  <2>5. Loaded(r)'
    <3> DEFINE rows == {x \in identities : x.user = copy[r].user}
               seen == {x \in verified : x.user = copy[r].user}
    <3>1. rows \in SUBSET Identities /\ seen \in SUBSET Identities
      BY <1>0 DEF StoreOK
    <3>2. copy[r] \in Copy
      BY <2>2 DEF Loaded
    <3> HIDE DEF rows, seen
    <3>3. copy'[r] = [copy[r] EXCEPT !.rows = rows, !.verified = seen]
      BY <2>4 DEF rows, seen
    <3>4. /\ copy'[r] \in Copy
          /\ copy'[r].rows = rows /\ copy'[r].user = copy[r].user
      BY <3>1, <3>2, <3>3 DEF Copy
    <3>5. \A x \in rows : x.user = copy[r].user
      BY DEF rows
    <3> QED BY <3>4, <3>5 DEF Loaded, Copy
  <2>6. pc'[r] = then[r] /\ job' = job /\ then' = then
    BY <1>0, <1>3 DEF LoadIdentities, WorkOK
  <2>7. \A q \in Requests : q # r => pc'[q] = pc[q] /\ copy'[q] = copy[q]
    BY <1>0, <1>3 DEF LoadIdentities, WorkOK
  <2>8. \A q \in Requests : q # r => (Loaded(q) => Loaded(q)')
    BY <2>7 DEF Loaded
  <2>9. WorkOK'
    <3>1. copy'[r] \in Copy
      BY <2>5 DEF Loaded
    <3> QED BY <1>0, <1>3, <2>3, <2>6, <2>7, <3>1 DEF WorkOK, LoadIdentities
  <2>10. Shape'
    BY <2>2, <2>3, <2>5, <2>6, <2>7, <2>8 DEF Shape, Working
  <2> QED BY <2>1, <2>9, <2>10
<1>4. ASSUME NEW r \in Requests, Refresh(r)
      PROVE  StoreOK' /\ WorkOK' /\ Shape'
  <2>1. StoreOK'
    BY <1>0, <1>4, StoreUnchanged DEF Refresh
  <2>2. Loaded(r) /\ then[r] \in Allowed(job[r]) \ {"register"}
    BY <1>4 DEF Refresh, Shape
  <2>3. copy[r].user \in Accounts /\ password[copy[r].user] \in Passwords
    BY <1>0, <2>2 DEF Loaded, Copy, StoreOK
  <2> QED BY <1>0, <1>4, <2>1, <2>2, <2>3, LoadKeeps DEF Refresh, Loading
<1>5. ASSUME NEW r \in Requests, ResolveByCode(r)
      PROVE  StoreOK' /\ WorkOK' /\ Shape'
  <2>1. StoreOK'
    BY <1>0, <1>5, StoreUnchanged DEF ResolveByCode
  <2>2. {"register", "touch"} \subseteq Allowed(job[r]) /\ pc[r] \in Loading
    BY <1>5 DEF ResolveByCode, Allowed, Login, Loading
  <2>3. CASE Goto(r, "register")
    BY <1>0, <2>1, <2>2, <2>3, GotoKeeps
  <2>4. CASE End(r, "banned")
    BY <1>0, <2>1, <2>4, EndKeeps DEF Ended
  <2>5. ASSUME NEW x \in identities, Load(r, x.user, "touch")
        PROVE  WorkOK' /\ Shape'
    <3>1. x.user \in Accounts /\ password[x.user] \in Passwords
      BY <1>0 DEF StoreOK, Identities
    <3> QED BY <1>0, <2>2, <2>5, <3>1, LoadKeeps
  <2> QED BY <1>5, <2>1, <2>3, <2>4, <2>5 DEF ResolveByCode
<1>6. ASSUME NEW r \in Requests, ResolveByPassword(r)
      PROVE  StoreOK' /\ WorkOK' /\ Shape'
  <2>1. StoreOK'
    BY <1>0, <1>6, StoreUnchanged DEF ResolveByPassword
  <2>2. {"rehash", "touch"} \subseteq Allowed(job[r]) /\ pc[r] \in Loading
    BY <1>6 DEF ResolveByPassword, Allowed, Login, Loading
  <2>3. CASE End(r, "rejected") \/ End(r, "banned")
    BY <1>0, <2>1, <2>3, EndKeeps DEF Ended
  <2>4. ASSUME NEW x \in identities, NEW w \in {"rehash", "touch"}, Load(r, x.user, w)
        PROVE  WorkOK' /\ Shape'
    <3>1. x.user \in Accounts /\ password[x.user] \in Passwords
      BY <1>0 DEF StoreOK, Identities
    <3> QED BY <1>0, <2>2, <2>4, <3>1, LoadKeeps
  <2> QED BY <1>6, <2>1, <2>3, <2>4 DEF ResolveByPassword
<1>7. ASSUME NEW r \in Requests, Authenticate(r)
      PROVE  StoreOK' /\ WorkOK' /\ Shape'
  <2>1. StoreOK'
    BY <1>0, <1>7, StoreUnchanged DEF Authenticate
  <2>2. pc[r] = "auth" /\ pc[r] \in Loading /\ job[r] \in Job /\ job[r].kind \notin Login
    BY <1>7 DEF Authenticate, Shape, Loading
  <2>3. job[r].user \in Accounts /\ password[job[r].user] \in Passwords
        /\ job[r].kind \in {"bind", "remove", "setpw"}
    BY <1>0, <2>2, JobFields DEF StoreOK, Kinds
  <2>4. CASE End(r, "rejected")
    BY <1>0, <2>1, <2>4, EndKeeps DEF Ended
  <2>5. CASE job[r].kind = "bind" /\ Load(r, job[r].user, "lookup")
    <3>1. "lookup" \in Allowed(job[r]) \ {"register"}
      BY <2>2, <2>5 DEF Allowed, Binding
    <3> QED BY <1>0, <2>1, <2>2, <2>3, <2>5, <3>1, LoadKeeps
  <2>6. CASE job[r].kind = "remove" /\ Load(r, job[r].user, "drop")
    <3>1. "drop" \in Allowed(job[r]) \ {"register"}
      BY <2>2, <2>6 DEF Allowed
    <3> QED BY <1>0, <2>1, <2>2, <2>3, <2>6, <3>1, LoadKeeps
  <2>7. CASE job[r].kind = "setpw" /\ Load(r, job[r].user, "setpw")
    <3>1. "setpw" \in Allowed(job[r]) \ {"register"}
      BY <2>2, <2>7 DEF Allowed
    <3> QED BY <1>0, <2>1, <2>2, <2>3, <2>7, <3>1, LoadKeeps
  <2> QED BY <1>7, <2>3, <2>4, <2>5, <2>6, <2>7 DEF Authenticate
<1>8. ASSUME NEW r \in Requests, Register(r)
      PROVE  StoreOK' /\ WorkOK' /\ Shape'
  <2>1. pc[r] = "register" /\ pc[r] \in Working /\ job[r] \in Job
    BY <1>8, AtWork, <1>0 DEF Register, Working
  <2>2. job[r].kind \in Login /\ job[r].subject \in Subjects
    BY <2>1, <1>0, AtWork, JobFields DEF Allowed, Binding
  <2>3. CASE End(r, "integrity") /\ UNCHANGED store
    <3>1. StoreOK'
      BY <1>0, <1>8, <2>3, StoreUnchanged DEF Register
    <3> QED BY <1>0, <2>3, <3>1, EndKeeps DEF Ended
  <2>4. CASE ~ \E x \in identities : x.subject = job[r].subject
    <3>1. PICK u \in Accounts :
            LET x == [user |-> u, subject |-> job[r].subject, by |-> r] IN
            /\ account' = [account EXCEPT ![u] = "active"]
            /\ identities' = identities \cup {x}
            /\ verified' = verified \cup {x}
            /\ proven' = proven \cup {<<u, job[r].subject>>}
            /\ copy' = [copy EXCEPT ![r] = [user |-> u, password |-> NoPassword,
                                            rows |-> {x}, verified |-> {x}]]
            /\ pc' = [pc EXCEPT ![r] = "refresh"]
            /\ then' = [then EXCEPT ![r] = "merge"]
            /\ UNCHANGED <<job, password, left>>
      BY <1>8, <2>4 DEF Register
    <3> DEFINE x == [user |-> u, subject |-> job[r].subject, by |-> r]
               c == [user |-> u, password |-> NoPassword, rows |-> {x}, verified |-> {x}]
    <3>2. x \in Identities /\ c \in Copy
      BY <2>2 DEF Identities, Copy, NoPassword, Passwords
    <3>3. StoreOK'
      BY <1>0, <1>8, <2>2, <3>1, <3>2 DEF StoreOK, Register
    <3>4. WorkOK'
      BY <1>0, <3>1, <3>2 DEF WorkOK, Loading, Working
    <3>5. \A q \in Requests : q # r =>
            pc'[q] = pc[q] /\ copy'[q] = copy[q] /\ then'[q] = then[q]
      BY <1>0, <3>1 DEF WorkOK
    <3>6. pc'[r] = "refresh" /\ then'[r] = "merge" /\ copy'[r] = c /\ job' = job
      BY <1>0, <3>1 DEF WorkOK
    <3>7. Loaded(r)' /\ \A q \in Requests : q # r => (Loaded(q) => Loaded(q)')
      BY <3>2, <3>5, <3>6 DEF Loaded
    <3>8. "merge" \in Allowed(job[r]) \ {"register"}
      BY <2>2 DEF Allowed
    <3>9. Shape'
      BY <2>1, <3>5, <3>6, <3>7, <3>8 DEF Shape, Working, Loading
    <3> QED BY <3>3, <3>4, <3>9
  <2> QED BY <1>8, <2>3, <2>4 DEF Register
<1>9. ASSUME NEW r \in Requests, Rehash(r)
      PROVE  StoreOK' /\ WorkOK' /\ Shape'
  <2>1. pc[r] = "rehash" /\ pc[r] \in Working
    BY <1>9 DEF Rehash, Working
  <2>2. Loaded(r) /\ copy[r].user \in Accounts /\ copy[r].password \in Passwords
    BY <1>0, <2>1, AtWork
  <2>3. "touch" \in Allowed(job[r]) \ {"register"}
    BY <1>0, <2>1, AtWork DEF Allowed, Binding
  <2>4. StoreOK'
    BY <1>0, <1>9, <2>2 DEF StoreOK, Rehash, Passwords
  <2> QED BY <1>0, <1>9, <2>1, <2>2, <2>3, <2>4, SavedKeeps DEF Rehash
<1>10. ASSUME NEW r \in Requests, Touch(r)
       PROVE  StoreOK' /\ WorkOK' /\ Shape'
  <2>1. pc[r] = "touch" /\ pc[r] \in Working
    BY <1>10 DEF Touch, Working
  <2>2. Loaded(r) /\ copy[r].user \in Accounts /\ job[r] \in Job
    BY <1>0, <2>1, AtWork
  <2>3. "merge" \in Allowed(job[r]) \ {"register"} /\ job[r].kind \in Login
    BY <1>0, <2>1, AtWork DEF Allowed, Binding
  <2>4. job[r].subject \in Subjects
    BY <2>2, <2>3, JobFields
  <2>5. CASE Slot(r, job[r].subject) = {}
    <3>1. StoreOK'
      BY <1>0, <1>10, <2>5 DEF StoreOK, Touch
    <3> QED BY <1>0, <1>10, <2>1, <2>2, <2>3, <2>5, <3>1, GotoKeeps DEF Touch
  <2>6. CASE ~ Slot(r, job[r].subject) \subseteq identities
    <3>1. StoreOK' /\ End(r, "failed")
      BY <1>0, <1>10, <2>6 DEF StoreOK, Touch
    <3> QED BY <1>0, <3>1, EndKeeps DEF Ended
  <2>7. CASE /\ Slot(r, job[r].subject) # {}
             /\ Slot(r, job[r].subject) \subseteq identities
    <3>1. Saved(r, "merge") /\ UNCHANGED <<account, password, identities, left, entitled>>
      BY <1>10, <2>7 DEF Touch
    <3>2. \/ UNCHANGED <<verified, proven>>
          \/ /\ verified' = verified \cup Slot(r, job[r].subject)
             /\ proven' = proven \cup {<<copy[r].user, job[r].subject>>}
      BY <1>10, <2>7 DEF Touch
    <3>3. StoreOK'
      BY <1>0, <2>2, <2>4, <2>7, <3>1, <3>2 DEF StoreOK
    <3> QED BY <1>0, <2>1, <2>2, <2>3, <3>1, <3>3, SavedKeeps
  <2> QED BY <2>5, <2>6, <2>7
<1>11. ASSUME NEW r \in Requests, Merge(r)
       PROVE  StoreOK' /\ WorkOK' /\ Shape'
  <2>1. pc[r] = "merge" /\ pc[r] \in Working
    BY <1>11 DEF Merge, Working
  <2>2. Loaded(r) /\ job[r].kind \in Login
    BY <1>0, <2>1, AtWork DEF Allowed, Binding
  <2>3. StoreOK'
    BY <1>0, <1>11, StoreUnchanged DEF Merge
  <2>4. PICK w \in {"sign", "lookup"} :
          Goto(r, w) /\ (job[r].sso = NoSubject => w = "sign")
    BY <1>11 DEF Merge
  <2>5. w \in Allowed(job[r])
    BY <2>2, <2>4 DEF Allowed, Binding
  <2> QED BY <1>0, <2>1, <2>2, <2>3, <2>4, <2>5, GotoKeeps
<1>12. ASSUME NEW r \in Requests, Lookup(r)
       PROVE  StoreOK' /\ WorkOK' /\ Shape'
  <2>1. pc[r] = "lookup" /\ pc[r] \in Working /\ pc[r] \in Binding
    BY <1>12 DEF Lookup, Working, Binding
  <2>2. Loaded(r) /\ Binding \subseteq Allowed(job[r])
    BY <1>0, <2>1, AtWork DEF Allowed, Binding
  <2>3. StoreOK'
    BY <1>0, <1>12, StoreUnchanged DEF Lookup
  <2>4. \/ \E w \in Binding : Goto(r, w)
        \/ \E how \in Ended : BindEnds(r, how)
    BY <1>12 DEF Lookup, Binding, Ended
  <2>5. ASSUME NEW w \in Binding, Goto(r, w) PROVE WorkOK' /\ Shape'
    BY <1>0, <2>1, <2>2, <2>5, GotoKeeps
  <2>6. ASSUME NEW how \in Ended, BindEnds(r, how) PROVE WorkOK' /\ Shape'
    BY <1>0, <2>1, <2>2, <2>6, BindEndsKeeps
  <2> QED BY <2>3, <2>4, <2>5, <2>6
<1>13. ASSUME NEW r \in Requests, Promote(r)
       PROVE  StoreOK' /\ WorkOK' /\ Shape'
  <2> DEFINE x == [user |-> copy[r].user, subject |-> Target(r), by |-> Import]
  <2>1. pc[r] \in Working /\ pc[r] \in Binding
    BY <1>13 DEF Promote, Working, Binding
  <2>2. Loaded(r) /\ copy[r].user \in Accounts /\ Target(r) \in Subjects
    BY <1>0, <2>1, AtWork, TargetIsSubject DEF Binding
  <2>3. CASE x \in identities
    <3>1. StoreOK'
      BY <1>0, <1>13, <2>2, <2>3 DEF StoreOK, Promote
    <3> QED BY <1>0, <1>13, <2>1, <2>2, <2>3, <3>1, BindSavedKeeps DEF Promote
  <2>4. CASE x \notin identities
    <3>1. StoreOK' /\ End(r, "failed")
      BY <1>0, <1>13, <2>4 DEF StoreOK, Promote
    <3> QED BY <1>0, <3>1, EndKeeps DEF Ended
  <2> QED BY <2>3, <2>4
<1>14. ASSUME NEW r \in Requests, Insert(r)
       PROVE  StoreOK' /\ WorkOK' /\ Shape'
  <2> DEFINE u == copy[r].user
             new == [user |-> u, subject |-> Target(r), by |-> r]
             kept == identities \ Slot(r, Target(r))
  <2>1. pc[r] \in Working /\ pc[r] \in Binding
    BY <1>14 DEF Insert, Working, Binding
  <2>2. Loaded(r) /\ u \in Accounts /\ Target(r) \in Subjects
    BY <1>0, <2>1, AtWork, TargetIsSubject DEF Binding
  <2>3. new \in Identities
    BY <2>2 DEF Identities
  <2>4. CASE Clash(kept, u, Target(r))
    <3>1. StoreOK' /\ End(r, "integrity")
      BY <1>0, <1>14, <2>4 DEF StoreOK, Insert
    <3> QED BY <1>0, <3>1, EndKeeps DEF Ended
  <2>5. CASE ~ Clash(kept, u, Target(r))
    <3>1. /\ identities' = kept \cup {new}
          /\ verified' = (verified \cap kept) \cup {new}
          /\ proven' = proven \cup {<<u, Target(r)>>}
          /\ BindSaved(r)
          /\ UNCHANGED <<account, password, left, entitled>>
      BY <1>14, <2>5 DEF Insert
    <3>2. StoreOK'
      BY <1>0, <2>2, <2>3, <3>1 DEF StoreOK
    <3> QED BY <1>0, <2>1, <2>2, <3>1, <3>2, BindSavedKeeps
  <2> QED BY <2>4, <2>5
<1>15. ASSUME NEW r \in Requests, Sign(r)
       PROVE  StoreOK' /\ WorkOK' /\ Shape'
  <2>1. copy[r].user \in Accounts
    BY <1>0, <1>15, AtWork DEF Sign, Working
  <2>2. StoreOK' /\ End(r, "done")
    BY <1>0, <1>15, <2>1 DEF StoreOK, Sign, store
  <2> QED BY <1>0, <2>2, EndKeeps DEF Ended
<1>16. ASSUME NEW r \in Requests, Drop(r)
       PROVE  StoreOK' /\ WorkOK' /\ Shape'
  <2>1. copy[r].user \in Accounts
    BY <1>0, <1>16, AtWork DEF Drop, Working
  <2>2. End(r, "rejected") \/ End(r, "done")
    BY <1>16 DEF Drop
  <2>3. StoreOK'
    <3>1. CASE UNCHANGED <<account, password, identities, verified, left>>
      BY <1>0, <1>16, <3>1 DEF StoreOK, Drop
    <3>2. CASE /\ account' = [account EXCEPT ![copy[r].user] = "removed"]
               /\ password' = password \/ password' = [password EXCEPT ![copy[r].user] = NoPassword]
               /\ identities' = identities \ copy[r].rows
               /\ verified' = verified \ copy[r].rows
               /\ left' = left \cup {copy[r].user}
      <4>1. NoPassword \in Passwords
        BY DEF NoPassword, Passwords
      <4>2. password' \in [Accounts -> Passwords]
        BY <1>0, <2>1, <3>2, <4>1 DEF StoreOK
      <4>3. account' \in [Accounts -> {"none", "active", "removed"}]
        BY <1>0, <2>1, <3>2 DEF StoreOK
      <4>4. UNCHANGED <<proven, entitled>>
        BY <1>16 DEF Drop
      <4> QED BY <1>0, <2>1, <3>2, <4>2, <4>3, <4>4 DEF StoreOK
    <3> QED BY <1>16, <3>1, <3>2 DEF Drop
  <2> QED BY <1>0, <2>2, <2>3, EndKeeps DEF Ended
<1>17. ASSUME NEW r \in Requests, SetPassword(r)
       PROVE  StoreOK' /\ WorkOK' /\ Shape'
  <2>1. copy[r].user \in Accounts
    BY <1>0, <1>17, AtWork DEF SetPassword, Working
  <2>2. End(r, "rejected") \/ End(r, "done")
    BY <1>17 DEF SetPassword
  <2>3. StoreOK'
    <3>1. UNCHANGED <<account, identities, verified, left, proven, entitled>>
      BY <1>17 DEF SetPassword
    <3>2. \A new \in Secrets : [secret |-> new, salted |-> FALSE] \in Passwords
      BY DEF Passwords
    <3>3. \/ UNCHANGED password
          \/ \E new \in Secrets : password' = [password EXCEPT ![copy[r].user] =
                                               [secret |-> new, salted |-> FALSE]]
      BY <1>17 DEF SetPassword
    <3>4. password' \in [Accounts -> Passwords]
      BY <1>0, <2>1, <3>2, <3>3 DEF StoreOK
    <3> QED BY <1>0, <3>1, <3>4 DEF StoreOK
  <2> QED BY <1>0, <2>2, <2>3, EndKeeps DEF Ended
<1>18. ASSUME NEW r \in Requests, Fail(r)
       PROVE  StoreOK' /\ WorkOK' /\ Shape'
  <2>1. StoreOK' /\ End(r, "failed")
    BY <1>0, <1>18, StoreUnchanged DEF Fail
  <2> QED BY <1>0, <2>1, EndKeeps DEF Ended
<1>19. ASSUME NEW u \in Accounts, Ban(u) \/ Unban(u)
       PROVE  StoreOK' /\ WorkOK' /\ Shape'
  <2>1. StoreOK' /\ WorkOK'
    BY <1>0, <1>19 DEF StoreOK, WorkOK, Ban, Unban
  <2>2. UNCHANGED <<pc, job, copy, then>>
    BY <1>19 DEF Ban, Unban
  <2>3. Shape'
    BY <2>2 DEF Shape, Loaded
  <2> QED BY <2>1, <2>3
<1> QED
  BY <1>1, <1>2, <1>3, <1>4, <1>5, <1>6, <1>7, <1>8, <1>9, <1>10, <1>11, <1>12,
     <1>13, <1>14, <1>15, <1>16, <1>17, <1>18, <1>19 DEF Next, Step

(* Type correctness, together with the shape of the requests. *)
LEMMA TypedInit == Init => TypeOK /\ Shape
<1> SUFFICES ASSUME Init PROVE TypeOK /\ Shape
  OBVIOUS
<1>1. TypeOK
  <2>1. verified \subseteq identities /\ identities \subseteq Identities
    BY IdentityAssumption DEF Init
  <2>2. proven \subseteq Accounts \X Subjects
    <3>1. \A x \in verified : x.user \in Accounts /\ x.subject \in Subjects
      BY <2>1 DEF Identities
    <3> QED BY <3>1 DEF Init
  <2> QED BY <2>1, <2>2 DEF Init, TypeOK
<1>2. Shape
  BY DEF Init, Shape, Loading, Working
<1> QED BY <1>1, <1>2

THEOREM TypesAndShape == Spec => [](TypeOK /\ Shape)
<1>1. TypeOK /\ Shape /\ [Next]_vars => (TypeOK /\ Shape)'
  BY TypedStep
<1> QED BY TypedInit, <1>1, PTL DEF Spec

(* Type correctness of accounts, identities and requests. *)
THEOREM IdentityTypes == Spec => []TypeOK
BY TypesAndShape, PTL

-----------------------------------------------------------------------------
(* Most steps leave the accounts, their identities and deletions alone. *)
LEMMA QuietSteps ==
  ASSUME NEW r \in Requests,
         \/ \E j \in Job : Start(r, j)
         \/ LoadIdentities(r) \/ Refresh(r) \/ ResolveByCode(r) \/ ResolveByPassword(r)
         \/ Authenticate(r) \/ Rehash(r) \/ Touch(r) \/ Merge(r) \/ Lookup(r)
         \/ Promote(r) \/ Sign(r) \/ SetPassword(r) \/ Fail(r)
  PROVE  UNCHANGED <<account, identities, left>>
  BY DEF Start, LoadIdentities, Refresh, ResolveByCode, ResolveByPassword,
         Authenticate, Rehash, Touch, Merge, Lookup, Promote, Sign, SetPassword,
         Fail, store

(* What the other ones do to them. *)
LEMMA LoudSteps ==
  ASSUME TypeOK, Shape, [Next]_vars
  PROVE  \/ UNCHANGED <<account, identities, left>>
         \/ \E u \in Accounts : Ban(u) \/ Unban(u)
         \/ \E r \in Requests : Drop(r)
         \/ \E u \in Accounts, x \in Identities :
              /\ x.user = u /\ (\A y \in identities : y.subject # x.subject)
              /\ account' = [account EXCEPT ![u] = "active"]
              /\ identities' = identities \cup {x} /\ left' = left
         \/ \E x \in Identities, gone \in SUBSET Identities :
              /\ \A y \in gone : y.user = x.user
              /\ \A y \in identities \ gone : y.subject # x.subject
              /\ identities' = (identities \ gone) \cup {x}
              /\ account' = account /\ left' = left
<1>0. StoreOK /\ WorkOK
  BY TypeParts
<1>1. CASE UNCHANGED vars
  BY <1>1 DEF vars
<1>2. ASSUME NEW r \in Requests, Register(r), ~ UNCHANGED <<account, identities, left>>
      PROVE  \E u \in Accounts, x \in Identities :
               /\ x.user = u /\ (\A y \in identities : y.subject # x.subject)
               /\ account' = [account EXCEPT ![u] = "active"]
               /\ identities' = identities \cup {x} /\ left' = left
  <2>1. ~ \E x \in identities : x.subject = job[r].subject
    BY <1>2 DEF Register, store
  <2>2. PICK u \in Accounts :
          LET x == [user |-> u, subject |-> job[r].subject, by |-> r] IN
          /\ account' = [account EXCEPT ![u] = "active"]
          /\ identities' = identities \cup {x}
          /\ left' = left
    BY <1>2, <2>1 DEF Register
  <2>3. job[r].subject \in Subjects
    BY <1>0, <1>2, AtWork, JobFields DEF Register, Working, Allowed, Binding
  <2> DEFINE x == [user |-> u, subject |-> job[r].subject, by |-> r]
  <2>4. x \in Identities
    BY <2>3 DEF Identities
  <2> QED BY <2>1, <2>2, <2>4
<1>3. ASSUME NEW r \in Requests, Insert(r), ~ UNCHANGED <<account, identities, left>>
      PROVE  \E x \in Identities, gone \in SUBSET Identities :
               /\ \A y \in gone : y.user = x.user
               /\ \A y \in identities \ gone : y.subject # x.subject
               /\ identities' = (identities \ gone) \cup {x}
               /\ account' = account /\ left' = left
  <2> DEFINE x == [user |-> copy[r].user, subject |-> Target(r), by |-> r]
             gone == Slot(r, Target(r))
  <2>1. ~ Clash(identities \ gone, x.user, Target(r)) /\ identities' = (identities \ gone) \cup {x}
    BY <1>3 DEF Insert
  <2>2. Loaded(r) /\ copy[r].user \in Accounts /\ copy[r].rows \subseteq Identities
        /\ Target(r) \in Subjects
    BY <1>0, <1>3, AtWork, TargetIsSubject DEF Insert, Working, Binding
  <2>3. x \in Identities /\ gone \in SUBSET Identities /\ \A y \in gone : y.user = x.user
    BY <2>2 DEF Identities, Slot, Loaded
  <2>4. \A y \in identities \ gone : y.subject # x.subject
    BY <2>1 DEF Clash
  <2>5. account' = account /\ left' = left
    BY <1>3 DEF Insert
  <2> HIDE DEF x, gone
  <2> QED BY <2>1, <2>3, <2>4, <2>5
<1> QED BY <1>1, <1>2, <1>3, QuietSteps DEF Next, Step

-----------------------------------------------------------------------------
(* An account keeps an identity until its owner deletes it: the rows that a  *)
(* bind deletes make room, in the same transaction, for one it inserts.      *)
THEOREM AlwaysHasIdentity == Spec => []HasIdentity
<1>1. Init => HasIdentity
  BY DEF Init, HasIdentity
<1>2. TypeOK /\ Shape /\ HasIdentity /\ [Next]_vars => HasIdentity'
  <2> SUFFICES ASSUME TypeOK, Shape, HasIdentity, [Next]_vars,
                      NEW u \in Accounts, u \notin left', account'[u] # "none"
               PROVE  \E x \in identities' : x.user = u
    BY DEF HasIdentity
  <2>0. StoreOK /\ WorkOK
    BY TypeParts
  <2>1. CASE UNCHANGED <<account, identities, left>>
    BY <2>1 DEF HasIdentity
  <2>2. ASSUME NEW b \in Accounts, Ban(b) \/ Unban(b)
        PROVE  \E x \in identities' : x.user = u
    <3>1. account[u] # "none" /\ left' = left /\ identities' = identities
      BY <2>0, <2>2 DEF StoreOK, Ban, Unban
    <3> QED BY <3>1 DEF HasIdentity
  <2>3. ASSUME NEW r \in Requests, Drop(r)
        PROVE  \E x \in identities' : x.user = u
    <3>1. CASE UNCHANGED <<account, password, identities, verified, left>>
      BY <3>1 DEF HasIdentity
    <3>2. CASE /\ account' = [account EXCEPT ![copy[r].user] = "removed"]
               /\ identities' = identities \ copy[r].rows
               /\ left' = left \cup {copy[r].user}
      <4>1. u # copy[r].user /\ u \notin left /\ account[u] # "none"
        BY <2>0, <3>2 DEF StoreOK
      <4>2. PICK x \in identities : x.user = u
        BY <4>1 DEF HasIdentity
      <4>3. \A y \in copy[r].rows : y.user = copy[r].user
        BY <2>0, <2>3, AtWork DEF Drop, Working, Loaded
      <4> QED BY <3>2, <4>1, <4>2, <4>3
    <3> QED BY <2>3, <3>1, <3>2 DEF Drop
  <2>4. ASSUME NEW v \in Accounts, NEW x \in Identities, x.user = v,
               account' = [account EXCEPT ![v] = "active"],
               identities' = identities \cup {x}, left' = left
        PROVE  \E y \in identities' : y.user = u
    <3>1. CASE u = v
      BY <2>4, <3>1
    <3>2. CASE u # v
      BY <2>0, <2>4, <3>2 DEF StoreOK, HasIdentity
    <3> QED BY <3>1, <3>2
  <2>5. ASSUME NEW x \in Identities, NEW gone \in SUBSET Identities,
               \A y \in gone : y.user = x.user,
               identities' = (identities \ gone) \cup {x},
               account' = account, left' = left
        PROVE  \E y \in identities' : y.user = u
    <3>1. PICK y \in identities : y.user = u
      BY <2>5 DEF HasIdentity
    <3>2. CASE y \in gone
      BY <2>5, <3>1, <3>2
    <3>3. CASE y \notin gone
      BY <2>5, <3>1, <3>3
    <3> QED BY <3>2, <3>3
  <2> QED BY LoudSteps, <2>1, <2>2, <2>3, <2>4, <2>5
<1> QED BY <1>1, <1>2, TypesAndShape, PTL DEF Spec

(* No two rows hold the same subject. *)
OneOwner == \A x, y \in identities : x.subject = y.subject => x = y

(* No step gives the subject of one account to another. *)
THEOREM SubjectsAreNotHandedOver == Spec => NoHandover
<1> DEFINE Kept == \A x \in identities, y \in identities' :
                     x.subject = y.subject => x.user = y.user
<1>1. Init => OneOwner
  BY IdentityAssumption DEF Init, OneOwner
<1>2. TypeOK /\ Shape /\ OneOwner /\ [Next]_vars => OneOwner' /\ Kept
  <2> SUFFICES ASSUME TypeOK, Shape, OneOwner, [Next]_vars
               PROVE  OneOwner' /\ Kept
    OBVIOUS
  <2>1. CASE identities' \subseteq identities
    BY <2>1 DEF OneOwner
  <2>2. ASSUME NEW b \in Accounts, Ban(b) \/ Unban(b) PROVE identities' = identities
    BY <2>2 DEF Ban, Unban
  <2>3. ASSUME NEW r \in Requests, Drop(r) PROVE identities' \subseteq identities
    BY <2>3 DEF Drop
  <2>4. ASSUME NEW x \in Identities, \A y \in identities : y.subject # x.subject,
               identities' = identities \cup {x}
        PROVE  OneOwner' /\ Kept
    BY <2>4 DEF OneOwner
  <2>5. ASSUME NEW x \in Identities, NEW gone \in SUBSET Identities,
               \A y \in gone : y.user = x.user,
               \A y \in identities \ gone : y.subject # x.subject,
               identities' = (identities \ gone) \cup {x}
        PROVE  OneOwner' /\ Kept
    BY <2>5 DEF OneOwner
  <2> QED BY LoudSteps, <2>1, <2>2, <2>3, <2>4, <2>5
<1> QED BY <1>1, <1>2, TypesAndShape, PTL DEF Spec, NoHandover

-----------------------------------------------------------------------------
(* By these facts account u has proved some subject of kind p. *)
Proved(facts, u, p) == \E s \in Subjects : Provider[s] = p /\ <<u, s>> \in facts

(* Every verified identity, and every copy of one, has been proved - if not  *)
(* its subject, then one of the same kind that held the slot before it.      *)
VerifiedProved == \A x \in verified : Proved(proven, x.user, Provider[x.subject])
CopiesProved ==
  \A r \in Requests :
    pc[r] \in (Working \ {"register"}) \cup {"ids", "refresh"} =>
      \A x \in copy[r].verified : Proved(proven, copy[r].user, Provider[x.subject])
Proofs == VerifiedProved /\ CopiesProved /\ VoteTokenProven

(* What is proved stays proved. *)
LEMMA ProvedStays ==
  ASSUME proven \subseteq proven', NEW u, NEW p, Proved(proven, u, p)
  PROVE  Proved(proven', u, p)
  BY DEF Proved

(* The steps of a request either leave its copy, or drop it, or load one. *)
LEMMA CopySteps ==
  ASSUME TypeOK, Shape, Proofs, NEW r \in Requests, proven \subseteq proven',
         \A q \in Requests : q # r => pc'[q] = pc[q] /\ copy'[q] = copy[q],
         \/ pc'[r] \in Ended \cup {"owner", "auth", "register"}
         \/ copy'[r].verified = {}
         \/ /\ copy'[r] = copy[r]
            /\ pc[r] \in (Working \ {"register"}) \cup {"ids", "refresh"}
  PROVE  CopiesProved'
<1> SUFFICES ASSUME NEW q \in Requests,
                    pc'[q] \in (Working \ {"register"}) \cup {"ids", "refresh"},
                    NEW x \in copy'[q].verified
             PROVE  Proved(proven', copy'[q].user, Provider[x.subject])
  BY DEF CopiesProved
<1>1. Proved(proven, copy[q].user, Provider[x.subject]) /\ copy'[q] = copy[q]
  BY DEF Proofs, CopiesProved, Ended, Working
<1> QED BY <1>1, ProvedStays

(* Every vote token rests on a proof. *)
THEOREM VoteTokensAreProven == Spec => []VoteTokenProven
<1>1. Init => Proofs
  <2> SUFFICES ASSUME Init PROVE Proofs
    OBVIOUS
  <2>1. \A x \in verified : x.subject \in Subjects /\ <<x.user, x.subject>> \in proven
    BY IdentityAssumption DEF Init, Identities
  <2> QED BY <2>1 DEF Init, Proofs, VerifiedProved, CopiesProved, VoteTokenProven,
                      Proved, Working
<1>2. TypeOK /\ Shape /\ Proofs /\ [Next]_vars => Proofs'
  <2> SUFFICES ASSUME TypeOK, Shape, Proofs, [Next]_vars PROVE Proofs'
    OBVIOUS
  <2>0. StoreOK /\ WorkOK
    BY TypeParts
  <2>1. CASE UNCHANGED vars
    BY <2>1 DEF vars, Proofs, VerifiedProved, CopiesProved, VoteTokenProven, Proved
  <2>2. ASSUME NEW u \in Accounts, Ban(u) \/ Unban(u) PROVE Proofs'
    BY <2>2 DEF Ban, Unban, Proofs, VerifiedProved, CopiesProved, VoteTokenProven, Proved
  <2>3. ASSUME NEW r \in Requests, UNCHANGED <<verified, proven, entitled>>,
               CopiesProved'
        PROVE  Proofs'
    BY <2>3 DEF Proofs, VerifiedProved, VoteTokenProven, Proved
  <2>4. ASSUME NEW r \in Requests,
               \/ \E j \in Job : Start(r, j)
               \/ Refresh(r) \/ ResolveByCode(r) \/ ResolveByPassword(r)
               \/ Authenticate(r) \/ Rehash(r) \/ Merge(r) \/ Lookup(r)
               \/ SetPassword(r) \/ Fail(r)
        PROVE  Proofs'
    <3>1. UNCHANGED <<verified, proven, entitled>>
      BY <2>4 DEF Start, Refresh, ResolveByCode, ResolveByPassword, Authenticate,
                  Rehash, Merge, Lookup, SetPassword, Fail, store
    <3>2. \A q \in Requests : q # r => pc'[q] = pc[q] /\ copy'[q] = copy[q]
      BY <2>0, <2>4 DEF WorkOK, Start, Refresh, ResolveByCode, ResolveByPassword,
           Authenticate, Rehash, Merge, Lookup, SetPassword, Fail,
           End, Goto, Load, Saved, BindEnds
    <3>3. \/ pc'[r] \in Ended \cup {"owner", "auth", "register"}
          \/ copy'[r].verified = {}
          \/ /\ copy'[r] = copy[r]
             /\ pc[r] \in (Working \ {"register"}) \cup {"ids", "refresh"}
      BY <2>0, <2>4 DEF WorkOK, Start, Refresh, ResolveByCode, ResolveByPassword,
           Authenticate, Rehash, Merge, Lookup, SetPassword, Fail,
           End, Goto, Load, Saved, BindEnds, Ended, Working
    <3> QED BY <2>3, <3>1, <3>2, <3>3, CopySteps
  <2>5. ASSUME NEW r \in Requests, LoadIdentities(r) PROVE Proofs'
    <3>1. \A q \in Requests : q # r => pc'[q] = pc[q] /\ copy'[q] = copy[q]
      BY <2>0, <2>5 DEF WorkOK, LoadIdentities
    <3>2. Loaded(r)
      BY <2>5 DEF LoadIdentities, Shape
    <3>3. /\ copy'[r].user = copy[r].user
          /\ copy'[r].verified = {x \in verified : x.user = copy[r].user}
      BY <2>0, <2>5, <3>2 DEF LoadIdentities, WorkOK, Loaded, Copy
    <3>4. UNCHANGED <<verified, proven, entitled>>
      BY <2>5 DEF LoadIdentities, store
    <3>5. CopiesProved'
      BY <3>1, <3>3, <3>4 DEF Proofs, CopiesProved, VerifiedProved, Proved
    <3> QED BY <2>3, <3>4, <3>5
  <2>6. ASSUME NEW r \in Requests, Register(r) PROVE Proofs'
    <3>1. \A q \in Requests : q # r => pc'[q] = pc[q] /\ copy'[q] = copy[q]
      BY <2>0, <2>6 DEF WorkOK, Register, End
    <3>2. CASE End(r, "integrity") /\ UNCHANGED store
      <4>1. pc'[r] \in Ended /\ UNCHANGED <<verified, proven, entitled>>
        BY <2>0, <2>6, <3>2 DEF WorkOK, End, Ended, Register, store
      <4> QED BY <2>3, <3>1, <4>1, CopySteps
    <3>3. CASE ~ \E x \in identities : x.subject = job[r].subject
      <4>1. PICK u \in Accounts :
              LET x == [user |-> u, subject |-> job[r].subject, by |-> r] IN
              /\ verified' = verified \cup {x}
              /\ proven' = proven \cup {<<u, job[r].subject>>}
              /\ copy' = [copy EXCEPT ![r] = [user |-> u, password |-> NoPassword,
                                              rows |-> {x}, verified |-> {x}]]
        BY <2>6, <3>3 DEF Register
      <4>2. job[r].subject \in Subjects
        BY <2>0, <2>6, AtWork, JobFields DEF Register, Working, Allowed, Binding
      <4>3. Proved(proven', u, Provider[job[r].subject])
        BY <4>1, <4>2 DEF Proved
      <4>4. VerifiedProved'
        BY <4>1, <4>3, ProvedStays DEF Proofs, VerifiedProved
      <4>5. copy'[r] = [user |-> u, password |-> NoPassword,
               rows |-> {[user |-> u, subject |-> job[r].subject, by |-> r]},
               verified |-> {[user |-> u, subject |-> job[r].subject, by |-> r]}]
        BY <2>0, <4>1 DEF WorkOK
      <4>6. \A q \in Requests : q # r =>
              (pc'[q] \in (Working \ {"register"}) \cup {"ids", "refresh"} =>
                \A x \in copy'[q].verified : Proved(proven', copy'[q].user, Provider[x.subject]))
        BY <3>1, <4>1, ProvedStays DEF Proofs, CopiesProved
      <4>7. CopiesProved'
        BY <4>3, <4>5, <4>6 DEF CopiesProved
      <4>8. VoteTokenProven'
        BY <2>6, <4>1 DEF Register, Proofs, VoteTokenProven
      <4> QED BY <4>4, <4>7, <4>8 DEF Proofs
    <3> QED BY <2>6, <3>2, <3>3 DEF Register
  <2>7. ASSUME NEW r \in Requests, Touch(r) \/ Promote(r) \/ Insert(r) PROVE Proofs'
    <3>1. \A q \in Requests : q # r => pc'[q] = pc[q] /\ copy'[q] = copy[q]
      BY <2>0, <2>7 DEF WorkOK, Touch, Promote, Insert, End, Goto, Saved, BindSaved
    <3>2. entitled' = entitled /\ proven \subseteq proven'
      BY <2>7 DEF Touch, Promote, Insert
    <3>3. \/ pc'[r] \in Ended
          \/ /\ copy'[r] = copy[r]
             /\ pc[r] \in (Working \ {"register"}) \cup {"ids", "refresh"}
      BY <2>0, <2>7 DEF WorkOK, Touch, Promote, Insert, End, Goto, Saved, BindSaved,
           Ended, Working
    <3>4. CopiesProved'
      BY <3>1, <3>2, <3>3, CopySteps
    <3>5. \A u, p : Proved(proven, u, p) => Proved(proven', u, p)
      BY <3>2, ProvedStays
    <3>6. Loaded(r) /\ copy[r].user \in Accounts /\ job[r] \in Job
      BY <2>0, <2>7, AtWork DEF Touch, Promote, Insert, Working
    <3>7. VerifiedProved'
      <4>1. CASE verified' \subseteq verified
        BY <3>5, <4>1 DEF Proofs, VerifiedProved
      <4>2. CASE Touch(r)
        <5>1. job[r].subject \in Subjects
          BY <2>0, <3>6, <4>2, AtWork, JobFields DEF Touch, Working, Allowed, Binding
        <5>2. CASE /\ verified' = verified \cup Slot(r, job[r].subject)
                   /\ proven' = proven \cup {<<copy[r].user, job[r].subject>>}
          <6>1. Proved(proven', copy[r].user, Provider[job[r].subject])
            BY <5>1, <5>2 DEF Proved
          <6>2. \A x \in Slot(r, job[r].subject) :
                  x.user = copy[r].user /\ Provider[x.subject] = Provider[job[r].subject]
            BY <3>6 DEF Slot, Loaded
          <6> QED BY <3>5, <5>2, <6>1, <6>2 DEF Proofs, VerifiedProved
        <5> QED BY <4>1, <4>2, <5>2 DEF Touch
      <4>3. CASE (Promote(r) \/ Insert(r)) /\ ~ verified' \subseteq verified
        <5>1. Target(r) \in Subjects
          BY <4>3, TargetIsSubject DEF Promote, Insert, Binding
        <5>2. \E by : verified' \subseteq verified \cup
                         {[user |-> copy[r].user, subject |-> Target(r), by |-> by]}
          BY <4>3 DEF Promote, Insert
        <5>3. <<copy[r].user, Target(r)>> \in proven'
          BY <4>3 DEF Promote, Insert
        <5>4. Proved(proven', copy[r].user, Provider[Target(r)])
          BY <5>1, <5>3 DEF Proved
        <5> QED BY <3>5, <5>2, <5>4 DEF Proofs, VerifiedProved
      <4> QED BY <2>7, <4>1, <4>2, <4>3
    <3>8. VoteTokenProven'
      BY <3>2 DEF Proofs, VoteTokenProven
    <3> QED BY <3>4, <3>7, <3>8 DEF Proofs
  <2>8. ASSUME NEW r \in Requests, Sign(r) PROVE Proofs'
    <3>1. \A q \in Requests : q # r => pc'[q] = pc[q] /\ copy'[q] = copy[q]
      BY <2>0, <2>8 DEF WorkOK, Sign, End
    <3>2. pc'[r] \in Ended /\ UNCHANGED <<verified, proven>>
      BY <2>0, <2>8 DEF WorkOK, Sign, End, Ended, store
    <3>3. CopiesProved'
      BY <3>1, <3>2, CopySteps
    <3>4. \A x \in copy[r].verified : Proved(proven, copy[r].user, Provider[x.subject])
      BY <2>8 DEF Sign, Proofs, CopiesProved, Working
    <3>5. VoteTokenProven'
      BY <2>8, <3>2, <3>4 DEF Sign, Proofs, VoteTokenProven, Proved
    <3>6. VerifiedProved'
      BY <3>2 DEF Proofs, VerifiedProved, Proved
    <3> QED BY <3>3, <3>5, <3>6 DEF Proofs
  <2>9. ASSUME NEW r \in Requests, Drop(r) PROVE Proofs'
    <3>1. \A q \in Requests : q # r => pc'[q] = pc[q] /\ copy'[q] = copy[q]
      BY <2>0, <2>9 DEF WorkOK, Drop, End
    <3>2. pc'[r] \in Ended /\ UNCHANGED <<proven, entitled>> /\ verified' \subseteq verified
      BY <2>0, <2>9 DEF WorkOK, Drop, End, Ended
    <3>3. CopiesProved'
      BY <3>1, <3>2, CopySteps
    <3> QED BY <3>2, <3>3 DEF Proofs, VerifiedProved, VoteTokenProven, Proved
  <2> QED
    BY <2>1, <2>2, <2>4, <2>5, <2>6, <2>7, <2>8, <2>9 DEF Next, Step
<1> QED BY <1>1, <1>2, TypesAndShape, PTL DEF Spec, Proofs

-----------------------------------------------------------------------------
(* Logins never remove an identity: where bind() makes room, there is none. *)

HasCopy(r) == pc[r] \in (Working \ {"register"}) \cup {"ids", "refresh"}

(* Request q may still insert a row for subject s. *)
MayInsert(q, s) ==
  \/ pc[q] = "idle"
  \/ pc[q] \in {"owner", "register"} /\ job[q].kind \in Login /\ job[q].subject = s
  \/ /\ \/ pc[q] \in {"owner", "register", "rehash", "touch", "merge", "lookup", "insert"}
        \/ pc[q] \in {"ids", "refresh"} /\ then[q] # "sign"
     /\ job[q].kind \in Login /\ job[q].sso = s
  \/ /\ pc[q] \in {"auth", "ids", "refresh", "lookup", "insert"}
     /\ job[q].kind = "bind" /\ job[q].subject = s

(* A row is inserted once: whoever inserted it will not do it again. *)
Spent(x) == x.by \in Requests => ~ MayInsert(x.by, x.subject)
RowsSpent ==
  /\ \A x \in identities : Spent(x)
  /\ \A r \in Requests : HasCopy(r) => \A x \in copy[r].rows : Spent(x)

(* A login loads its account before it merges, or at the end. *)
LoginReturns ==
  \A r \in Requests :
    pc[r] \in {"ids", "refresh"} /\ job[r].kind \in Login =>
      then[r] \in {"rehash", "touch", "merge", "sign"}

(* The slot that a login binds to holds at most the subject itself, and     *)
(* nobody has that subject when it inserts.                                 *)
OwnSlot ==
  \A r \in Requests :
    pc[r] \in {"lookup", "insert"} /\ job[r].kind \in Login =>
      \A x \in Slot(r, job[r].sso) :
        /\ x.subject = job[r].sso
        /\ pc[r] = "insert" => x \notin identities

Courtesy == RowsSpent /\ LoginReturns /\ OwnSlot

(* A step of r touches no other request. *)
Alone(r) ==
  \A q \in Requests : q # r =>
    pc'[q] = pc[q] /\ job'[q] = job[q] /\ copy'[q] = copy[q] /\ then'[q] = then[q]

Acts(r) == (\E j \in Job : Start(r, j)) \/ Step(r) \/ Fail(r)

LEMMA ActsAlone ==
  ASSUME WorkOK, NEW r \in Requests, Acts(r) PROVE Alone(r)
<1> USE DEF WorkOK, Alone, End, Goto, Load, Saved, BindEnds, BindSaved
<1>1. CASE (\E j \in Job : Start(r, j)) \/ LoadIdentities(r) \/ Refresh(r) \/ Fail(r)
  BY <1>1 DEF Start, LoadIdentities, Refresh, Fail
<1>2. CASE ResolveByCode(r) \/ ResolveByPassword(r) \/ Authenticate(r)
  BY <1>2 DEF ResolveByCode, ResolveByPassword, Authenticate
<1>3. CASE Register(r) \/ Rehash(r) \/ Touch(r) \/ Merge(r)
  BY <1>3 DEF Register, Rehash, Touch, Merge
<1>4. CASE Lookup(r) \/ Promote(r) \/ Insert(r)
  BY <1>4 DEF Lookup, Promote, Insert
<1>5. CASE Sign(r) \/ Drop(r) \/ SetPassword(r)
  BY <1>5 DEF Sign, Drop, SetPassword
<1> QED BY <1>1, <1>2, <1>3, <1>4, <1>5 DEF Acts, Step

(* How a request moves on: none of these ways opens a second insertion, nor *)
(* leads a login from a load into bind().                                   *)
LEMMA RequestMoves ==
  ASSUME WorkOK, Shape, LoginReturns, NEW r \in Requests, Acts(r)
  PROVE  /\ pc[r] # "idle" => job'[r] = job[r] \/ pc'[r] \in Ended
         /\ pc'[r] # "idle"
         /\ \A s : MayInsert(r, s)' => MayInsert(r, s)
         /\ pc'[r] \in {"ids", "refresh"} /\ job'[r].kind \in Login =>
              then'[r] \in {"rehash", "touch", "merge", "sign"}
         /\ pc'[r] \in {"lookup", "insert"} /\ job'[r].kind \in Login =>
              Merge(r) \/ Lookup(r)
<1> USE DEF WorkOK, MayInsert, Ended
<1>1. CASE \E j \in Job : Start(r, j)
  BY <1>1 DEF Start
<1>2. CASE LoadIdentities(r)
  <2>1. /\ pc[r] = "ids" /\ pc'[r] = then[r] /\ job' = job /\ then' = then
        /\ then[r] \in Working
    BY <1>2 DEF LoadIdentities, Shape, Allowed, Binding, Working
  <2> QED BY <2>1 DEF LoginReturns, Working
<1>3. CASE Refresh(r)
  BY <1>3 DEF Refresh, Load, LoginReturns
<1>4. CASE ResolveByCode(r) \/ ResolveByPassword(r)
  <2>1. pc[r] = "owner" /\ job[r].kind \in Login
    BY <1>4 DEF ResolveByCode, ResolveByPassword, Login
  <2>2. \/ pc'[r] = "register" /\ job' = job
        \/ pc'[r] \in {"banned", "rejected"}
        \/ pc'[r] = "ids" /\ job' = job /\ then'[r] \in {"touch", "rehash"}
    BY <1>4 DEF ResolveByCode, ResolveByPassword, End, Goto, Load
  <2> QED BY <2>1, <2>2
<1>5. CASE Authenticate(r)
  <2>1. pc[r] = "auth" /\ job[r].kind \notin Login
    BY <1>5 DEF Authenticate, Shape
  <2>2. \/ pc'[r] = "rejected"
        \/ pc'[r] = "ids" /\ job' = job
    BY <1>5 DEF Authenticate, End, Load
  <2> QED BY <2>1, <2>2 DEF Login
<1>6. CASE Register(r) \/ Rehash(r) \/ Touch(r) \/ Merge(r)
  <2>1. job[r].kind \in Login /\ pc[r] \in {"register", "rehash", "touch", "merge"}
    BY <1>6, AtWork DEF Register, Rehash, Touch, Merge, Allowed, Binding, Working, Shape
  <2>2. \/ pc'[r] \in {"integrity", "failed"}
        \/ job' = job /\ pc'[r] = "refresh" /\ then'[r] \in {"merge", "touch"}
        \/ job' = job /\ pc'[r] = "merge"
        \/ job' = job /\ pc'[r] = "sign"
        \/ job' = job /\ pc'[r] = "lookup" /\ Merge(r)
    BY <1>6 DEF Register, Rehash, Touch, Merge, End, Goto, Saved
  <2>3. \A s : MayInsert(r, s)' => MayInsert(r, s)
    BY <2>1, <2>2 DEF Login
  <2>4. CASE pc'[r] \in {"integrity", "failed"}
    BY <2>3, <2>4
  <2>5. CASE job' = job /\ pc'[r] = "refresh" /\ then'[r] \in {"merge", "touch"}
    BY <2>1, <2>3, <2>5
  <2>6. CASE job' = job /\ pc'[r] \in {"merge", "sign"}
    BY <2>1, <2>3, <2>6
  <2>7. CASE job' = job /\ pc'[r] = "lookup" /\ Merge(r)
    BY <2>1, <2>3, <2>7
  <2> QED BY <2>2, <2>4, <2>5, <2>6, <2>7
<1>7. CASE Lookup(r)
  <2>1. \/ pc'[r] \in {"conflict", "done"}
        \/ job' = job /\ pc'[r] \in {"insert", "promote", "sign"}
    BY <1>7 DEF Lookup, End, Goto, BindEnds
  <2> QED BY <1>7, <2>1 DEF Lookup
<1>8. CASE Promote(r) \/ Insert(r)
  <2>1. \/ pc'[r] \in {"failed", "integrity", "done"}
        \/ job' = job /\ pc'[r] = "refresh" /\ then'[r] = "sign" /\ job[r].kind \in Login
    BY <1>8 DEF Promote, Insert, End, Saved, BindSaved
  <2> QED BY <1>8, <2>1 DEF Promote, Insert, Login
<1>9. CASE Sign(r) \/ Drop(r) \/ SetPassword(r) \/ Fail(r)
  <2>1. pc'[r] \in {"done", "rejected", "failed"}
    BY <1>9 DEF Sign, Drop, SetPassword, Fail, End
  <2> QED BY <2>1
<1> QED BY <1>1, <1>2, <1>3, <1>4, <1>5, <1>6, <1>7, <1>8, <1>9 DEF Acts, Step

(* A row that appears was inserted by a request that could, and now cannot. *)
LEMMA InsertedOnce ==
  ASSUME WorkOK, Shape, NEW r \in Requests, Acts(r), NEW x \in identities' \ identities
  PROVE  x.by = r /\ MayInsert(r, x.subject) /\ ~ MayInsert(r, x.subject)'
<1>1. CASE Register(r)
  <2>1. x = [user |-> x.user, subject |-> job[r].subject, by |-> r]
    BY <1>1 DEF Register, store
  <2>2. /\ pc[r] = "register" /\ pc'[r] = "refresh" /\ then'[r] = "merge" /\ job' = job
        /\ job[r].kind \in Login /\ job[r] \in Job
    BY <1>1, AtWork DEF Register, store, WorkOK, Shape, Working, Allowed, Binding
  <2>3. job[r].sso # job[r].subject
    BY <2>2, IdentityAssumption DEF Job, Contacts, Login
  <2> QED BY <2>1, <2>2, <2>3 DEF MayInsert, Login
<1>2. CASE Insert(r)
  <2>1. x = [user |-> copy[r].user, subject |-> Target(r), by |-> r]
    BY <1>2 DEF Insert
  <2>2. pc[r] = "insert" /\ job[r] \in Job /\ pc[r] \in Allowed(job[r])
    BY <1>2 DEF Insert, Shape, Working
  <2>3. job[r].kind \in Login \/ job[r].kind = "bind"
    BY <2>2 DEF Allowed
  <2>4. \/ pc'[r] \in {"integrity", "done"}
        \/ job' = job /\ pc'[r] = "refresh" /\ then'[r] = "sign" /\ job[r].kind \in Login
    BY <1>2 DEF Insert, End, Saved, BindSaved, WorkOK
  <2> QED BY <2>1, <2>2, <2>3, <2>4 DEF MayInsert, Target, Login
<1>3. CASE ~ Register(r) /\ ~ Insert(r)
  BY <1>3, QuietSteps DEF Acts, Step, Drop
<1> QED BY <1>1, <1>2, <1>3

(* What a session has loaded, it had before or finds in the table. *)
LEMMA CopiedRows ==
  ASSUME WorkOK, Shape, NEW r \in Requests, Acts(r), HasCopy(r)', NEW x \in copy'[r].rows
  PROVE  (HasCopy(r) /\ x \in copy[r].rows) \/ x \in identities'
<1> USE DEF WorkOK, HasCopy, Working
<1>1. CASE \E j \in Job : Start(r, j)
  BY <1>1 DEF Start
<1>2. CASE LoadIdentities(r)
  <2>1. copy'[r].rows = {y \in identities : y.user = copy[r].user}
    <3>1. copy[r] \in Copy
      BY <1>2 DEF LoadIdentities, Shape, Loaded
    <3> QED BY <1>2, <3>1 DEF LoadIdentities, Copy
  <2> QED BY <1>2, <2>1 DEF LoadIdentities, store
<1>3. CASE Refresh(r) \/ ResolveByCode(r) \/ ResolveByPassword(r) \/ Authenticate(r)
  <2>1. pc'[r] \in Ended \cup {"register"} \/ copy'[r].rows = {}
    BY <1>3 DEF Refresh, ResolveByCode, ResolveByPassword, Authenticate, End, Goto, Load, Ended
  <2> QED BY <2>1 DEF Ended
<1>4. CASE Register(r)
  BY <1>4 DEF Register, End
<1>5. CASE Rehash(r) \/ Touch(r) \/ Merge(r) \/ Lookup(r) \/ Promote(r) \/ Insert(r)
  <2>1. HasCopy(r) /\ (pc'[r] \in Ended \/ copy' = copy)
    BY <1>5 DEF Rehash, Touch, Merge, Lookup, Promote, Insert, End, Goto, Saved, BindEnds,
       BindSaved, Ended
  <2> QED BY <2>1 DEF Ended
<1>6. CASE Sign(r) \/ Drop(r) \/ SetPassword(r) \/ Fail(r)
  <2>1. pc'[r] \in Ended
    BY <1>6 DEF Sign, Drop, SetPassword, Fail, End, Ended
  <2> QED BY <2>1 DEF Ended
<1> QED BY <1>1, <1>2, <1>3, <1>4, <1>5, <1>6 DEF Acts, Step

LEMMA SpentStays ==
  ASSUME WorkOK, Shape, LoginReturns, NEW r \in Requests, Acts(r), NEW x, Spent(x)
  PROVE  Spent(x)'
<1>1. \A q \in Requests : \A s : MayInsert(q, s)' => MayInsert(q, s)
  <2> TAKE q \in Requests
  <2> TAKE s
  <2>1. CASE q = r
    BY <2>1, RequestMoves
  <2>2. CASE q # r
    BY <2>2, ActsAlone DEF Alone, MayInsert
  <2> QED BY <2>1, <2>2
<1> QED BY <1>1 DEF Spent

LEMMA CourtesyActs ==
  ASSUME WorkOK, Shape, Courtesy, NEW r \in Requests, Acts(r) PROVE Courtesy'
<1>1. \A x \in identities' : Spent(x)'
  <2> TAKE x \in identities'
  <2>1. CASE x \in identities
    BY <2>1, SpentStays DEF Courtesy, RowsSpent
  <2>2. CASE x \notin identities
    BY <2>2, InsertedOnce DEF Spent
  <2> QED BY <2>1, <2>2
<1>2. ASSUME NEW q \in Requests, HasCopy(q)', NEW x \in copy'[q].rows PROVE Spent(x)'
  <2>1. (HasCopy(q) /\ x \in copy[q].rows) \/ x \in identities'
    <3>1. CASE q = r
      BY <1>2, <3>1, CopiedRows
    <3>2. CASE q # r
      BY <1>2, <3>2, ActsAlone DEF Alone, HasCopy
    <3> QED BY <3>1, <3>2
  <2> QED BY <1>1, <2>1, SpentStays DEF Courtesy, RowsSpent
<1>3. LoginReturns'
  <2> SUFFICES ASSUME NEW q \in Requests, pc'[q] \in {"ids", "refresh"}, job'[q].kind \in Login
               PROVE  then'[q] \in {"rehash", "touch", "merge", "sign"}
    BY DEF LoginReturns
  <2>1. CASE q = r
    BY <2>1, RequestMoves DEF Courtesy
  <2>2. CASE q # r
    BY <2>2, ActsAlone DEF Alone, Courtesy, LoginReturns
  <2> QED BY <2>1, <2>2
<1>4. OwnSlot'
  <2> SUFFICES ASSUME NEW q \in Requests, pc'[q] \in {"lookup", "insert"},
                      job'[q].kind \in Login, NEW x \in Slot(q, job[q].sso)'
               PROVE  x.subject = job'[q].sso /\ (pc'[q] = "insert" => x \notin identities')
    BY DEF OwnSlot
  <2>1. CASE q # r
    <3>1. /\ pc'[q] = pc[q] /\ job'[q] = job[q] /\ x \in Slot(q, job[q].sso)
      BY <2>1, ActsAlone DEF Alone, Slot
    <3>2. x.subject = job[q].sso /\ (pc[q] = "insert" => x \notin identities)
      BY <3>1 DEF Courtesy, OwnSlot
    <3>3. HasCopy(q) /\ x \in copy[q].rows /\ Spent(x)
      BY <3>1 DEF HasCopy, Working, Slot, Courtesy, RowsSpent
    <3>4. x \in identities' => x \in identities
      BY <3>3, InsertedOnce DEF Spent
    <3> QED BY <3>1, <3>2, <3>4
  <2>2. CASE q = r
    <3>1. Merge(r) \/ Lookup(r)
      BY <2>2, RequestMoves DEF Courtesy
    <3>2. CASE Merge(r)
      BY <2>2, <3>2 DEF Merge, Goto, WorkOK, Slot
    <3>3. CASE Lookup(r)
      <4>1. /\ pc[r] = "lookup" /\ pc'[r] \in {"insert", "promote", "sign"} \cup Ended
            /\ pc'[r] = "insert" => /\ \A y \in identities : y.subject # Target(r)
                                    /\ UNCHANGED <<job, copy, identities>>
        BY <3>3 DEF Lookup, BindEnds, Goto, End, WorkOK, Ended, store
      <4>2. pc'[r] = "insert" /\ UNCHANGED <<job, copy, identities>>
        BY <2>2, <4>1 DEF Ended
      <4>3. x \in Slot(r, job[r].sso) /\ job[r].kind \in Login
        BY <2>2, <4>2 DEF Slot
      <4>4. x.subject = job[r].sso
        BY <4>1, <4>3 DEF Courtesy, OwnSlot
      <4> QED BY <2>2, <4>1, <4>2, <4>3, <4>4 DEF Target
    <3> QED BY <3>1, <3>2, <3>3
  <2> QED BY <2>1, <2>2
<1> QED BY <1>1, <1>2, <1>3, <1>4 DEF Courtesy, RowsSpent

(* _merge_sso_session: signing in never costs an identity. *)
THEOREM LoginsKeepIdentities == Spec => LoginKeepsIdentities
<1> DEFINE Kept == \A r \in Requests :
             job[r] # NoJob /\ job[r].kind \in Login /\ pc'[r] # pc[r]
             => identities \subseteq identities'
<1>1. Init => Courtesy
  BY IdentityAssumption DEF Init, Courtesy, RowsSpent, Spent, HasCopy, Working, LoginReturns,
     OwnSlot
<1>2. TypeOK /\ Shape /\ Courtesy /\ [Next]_vars => Courtesy' /\ Kept
  <2> SUFFICES ASSUME TypeOK, Shape, Courtesy, [Next]_vars PROVE Courtesy' /\ Kept
    OBVIOUS
  <2>0. WorkOK
    BY TypeParts
  <2>1. CASE UNCHANGED vars \/ \E u \in Accounts : Ban(u) \/ Unban(u)
    <3>1. UNCHANGED <<identities, pc, job, copy, then>>
      BY <2>1 DEF vars, Ban, Unban
    <3> QED BY <3>1 DEF Courtesy, RowsSpent, Spent, MayInsert, HasCopy, LoginReturns, OwnSlot,
                        Slot
  <2>2. ASSUME NEW r \in Requests, Acts(r) PROVE Courtesy' /\ Kept
    <3>1. Courtesy'
      BY <2>0, <2>2, CourtesyActs
    <3>2. Kept
      <4> SUFFICES ASSUME job[r].kind \in Login PROVE identities \subseteq identities'
        BY <2>0, <2>2, ActsAlone DEF Alone
      <4>1. ~ Drop(r)
        BY <2>0, AtWork DEF Drop, Working, Allowed, Binding, Shape
      <4>2. CASE Register(r)
        BY <4>2 DEF Register, store
      <4>3. CASE Insert(r)
        <5>1. \A x \in Slot(r, job[r].sso) : x \notin identities
          BY <4>3 DEF Insert, Courtesy, OwnSlot
        <5>2. Target(r) = job[r].sso
          BY DEF Target
        <5> QED BY <4>3, <5>1, <5>2 DEF Insert
      <4> QED BY <2>2, <4>1, <4>2, <4>3, QuietSteps DEF Acts, Step
    <3> QED BY <3>1, <3>2
  <2> QED BY <2>1, <2>2 DEF Next, Acts
<1> QED BY <1>1, <1>2, TypesAndShape, PTL DEF Spec, LoginKeepsIdentities
====
