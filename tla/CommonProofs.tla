---------------------------- MODULE CommonProofs ----------------------------
(***************************************************************************)
(* Proofs about what src/common gives to every other part: the e-mail      *)
(* codes, and the settings with the engine that is built from them.        *)
(*                                                                         *)
(* EmailCode, for any sends, budget and number of crashes: what consume()  *)
(* promises is proved for one client that calls it again and again         *)
(* (OneClient); what send() promises, for sends that do not outlive their  *)
(* guard (SlowMail = FALSE).                                               *)
(*                                                                         *)
(* LiveConfig, for any documents, reloads, requests and engines: what is   *)
(* in use follows the settings.                                            *)
(***************************************************************************)
EXTENDS EmailCode, LiveConfig, FiniteSetTheorems, WellFoundedInduction, TLAPS

OneClient == \A c, d \in Consumers : c = d

(* Send k has gone past StoreCode, or never will. *)
Past(k) == sender[k] \notin {"idle", "store"}

(* Whatever refers to a code refers to one whose send has stored it. *)
Provenance ==
  /\ code # NoSend => Past(code)
  /\ \A c \in Consumers : consumer[c] \in Consuming => Past(seen[c])
  /\ \A k \in Sends : accepted[k] > 0 \/ k \in burned \/ k \in fresh => Past(k)
  /\ \A k \in fresh : sender[k] # "reset"
  /\ \A k \in Sends : wrong[k] > 0 => k \in fresh

(* A code that was accepted is gone, and no call is still about to accept it. *)
Spent ==
  \A k \in Sends :
    /\ accepted[k] <= 1
    /\ accepted[k] = 1 => code # k
    /\ \A c \in Consumers :
         /\ accepted[k] = 1 /\ consumer[c] \in Consuming => seen[c] # k
         /\ consumer[c] = "clear" => code # seen[c]

(* A code that was burned is gone, and no call still works on it. *)
Dead ==
  \A k \in burned :
    /\ code # k
    /\ \A c \in Consumers :
         consumer[c] \in {"take", "clear", "count", "burn"} => seen[c] # k

(* The send at work owns the guard, and the code key once it has stored. *)
Turn ==
  \A s \in Sends :
    /\ sender[s] \in Sending => guard = s
    /\ sender[s] \in {"reset", "mail", "rollback"} => code \in {s, NoSend}

(* The counter is at least the mismatches of the stored code, and nobody can *)
(* count one more than the budget allows.                                    *)
Budget ==
  /\ GuessBudget
  /\ code \in fresh => wrong[code] <= attempts
  /\ \A c \in Consumers :
       /\ consumer[c] \in {"clear", "forget"} /\ code \in fresh => wrong[code] = 0
       /\ \A k \in Sends :
            /\ consumer[c] # "burn" /\ code = k => wrong[k] < MaxWrong + crashes
            /\ consumer[c] = "count" /\ seen[c] = k => wrong[k] < MaxWrong + crashes

-----------------------------------------------------------------------------
(* Type correctness, with any number of clients and slow sends. *)
THEOREM EmailTypes == Spec => []TypeOK
<1> USE EmailAssumption
<1>1. Init => TypeOK
  BY DEF Init, TypeOK, Sending, SendEnd, Consuming
<1>2. TypeOK /\ [Next]_vars => TypeOK'
  <2> SUFFICES ASSUME TypeOK, [Next]_vars PROVE TypeOK'
    OBVIOUS
  <2> USE DEF TypeOK, keys, login, Sending, SendEnd, Consuming, SendGoes, ConsumeGoes
  <2>1. ASSUME NEW s \in Sends, Send(s) PROVE TypeOK'
    BY <2>1 DEF Send, TakeGuard, StoreCode, ResetAttempts, Mail, Rollback, CrashSend
  <2>2. ASSUME NEW c \in Consumers, Consume(c) PROVE TypeOK'
    <3>1. CASE Fetch(c)
      BY <3>1 DEF Fetch
    <3>2. CASE Take(c) \/ Burn(c) \/ Forget(c) \/ CrashConsume(c)
      BY <3>2 DEF Take, Burn, Forget, CrashConsume
    <3>3. CASE Clear(c)
      BY <3>3 DEF Clear
    <3>4. CASE Count(c)
      BY <3>4 DEF Count
    <3> QED BY <2>2, <3>1, <3>2, <3>3, <3>4 DEF Consume
  <2>3. CASE ExpireGuard \/ ExpireCode \/ ExpireAttempts
    BY <2>3 DEF ExpireGuard, ExpireCode, ExpireAttempts
  <2>4. CASE UNCHANGED vars
    BY <2>4 DEF vars
  <2> QED BY <2>1, <2>2, <2>3, <2>4 DEF Next
<1> QED BY <1>1, <1>2, PTL DEF Spec

(* No step makes a reference to a code that has not been stored. *)
LEMMA ProvenanceStep ==
  ASSUME TypeOK, Provenance, [Next]_vars
  PROVE  Provenance'
<1> USE EmailAssumption
    DEF TypeOK, Provenance, Past, keys, login, Sending, SendEnd, Consuming,
        SendGoes, ConsumeGoes
<1>1. ASSUME NEW s \in Sends, Send(s) PROVE Provenance'
  <2>1. CASE TakeGuard(s)
    BY <2>1 DEF TakeGuard
  <2>2. CASE StoreCode(s)
    BY <2>2 DEF StoreCode
  <2>3. CASE ResetAttempts(s)
    BY <2>3 DEF ResetAttempts
  <2>4. CASE Mail(s)
    BY <2>4 DEF Mail
  <2>5. CASE Rollback(s)
    BY <2>5 DEF Rollback
  <2>6. CASE CrashSend(s)
    BY <2>6 DEF CrashSend
  <2> QED BY <1>1, <2>1, <2>2, <2>3, <2>4, <2>5, <2>6 DEF Send
<1>2. ASSUME NEW c \in Consumers, Consume(c) PROVE Provenance'
  <2>1. CASE Fetch(c)
    BY <2>1 DEF Fetch
  <2>2. CASE Take(c) \/ Forget(c) \/ CrashConsume(c)
    BY <2>2 DEF Take, Forget, CrashConsume
  <2>3. CASE Clear(c)
    BY <2>3 DEF Clear
  <2>4. CASE Count(c)
    BY <2>4 DEF Count
  <2>5. CASE Burn(c)
    BY <2>5 DEF Burn
  <2> QED BY <1>2, <2>1, <2>2, <2>3, <2>4, <2>5 DEF Consume
<1>3. CASE ExpireGuard \/ ExpireCode \/ ExpireAttempts
  BY <1>3 DEF ExpireGuard, ExpireCode, ExpireAttempts
<1>4. CASE UNCHANGED vars
  BY <1>4 DEF vars
<1> QED BY <1>1, <1>2, <1>3, <1>4 DEF Next

(* With one client, an acceptance is the last thing that happens to a code. *)
LEMMA SpentStep ==
  ASSUME OneClient, TypeOK, Provenance, Spent, [Next]_vars
  PROVE  Spent'
<1> USE EmailAssumption
    DEF TypeOK, Provenance, Spent, Past, keys, login, Sending, SendEnd, Consuming,
        SendGoes, ConsumeGoes
<1>1. ASSUME NEW s \in Sends, Send(s) PROVE Spent'
  <2>1. CASE StoreCode(s)
    BY <2>1 DEF StoreCode
  <2>2. CASE Rollback(s)
    BY <2>2 DEF Rollback
  <2>3. CASE TakeGuard(s) \/ ResetAttempts(s) \/ Mail(s) \/ CrashSend(s)
    BY <2>3 DEF TakeGuard, ResetAttempts, Mail, CrashSend
  <2> QED BY <1>1, <2>1, <2>2, <2>3 DEF Send
<1>2. ASSUME NEW c \in Consumers, Consume(c) PROVE Spent'
  <2> \A d \in Consumers : d = c
    BY DEF OneClient
  <2>1. CASE Fetch(c)
    BY <2>1 DEF Fetch
  <2>2. CASE Take(c) \/ Burn(c)
    BY <2>2 DEF Take, Burn
  <2>3. CASE Clear(c)
    BY <2>3 DEF Clear
  <2>4. CASE Count(c) \/ Forget(c) \/ CrashConsume(c)
    BY <2>4 DEF Count, Forget, CrashConsume
  <2> QED BY <1>2, <2>1, <2>2, <2>3, <2>4 DEF Consume
<1>3. CASE ExpireGuard \/ ExpireCode \/ ExpireAttempts
  BY <1>3 DEF ExpireGuard, ExpireCode, ExpireAttempts
<1>4. CASE UNCHANGED vars
  BY <1>4 DEF vars
<1> QED BY <1>1, <1>2, <1>3, <1>4 DEF Next

(* With one client, a burned code stays dead. *)
LEMMA DeadStep ==
  ASSUME OneClient, TypeOK, Provenance, Dead, [Next]_vars
  PROVE  Dead'
<1> USE EmailAssumption
    DEF TypeOK, Provenance, Dead, Past, keys, login, Sending, SendEnd, Consuming,
        SendGoes, ConsumeGoes
<1>1. ASSUME NEW s \in Sends, Send(s) PROVE Dead'
  <2>1. CASE StoreCode(s)
    BY <2>1 DEF StoreCode
  <2>2. CASE Rollback(s)
    BY <2>2 DEF Rollback
  <2>3. CASE TakeGuard(s) \/ ResetAttempts(s) \/ Mail(s) \/ CrashSend(s)
    BY <2>3 DEF TakeGuard, ResetAttempts, Mail, CrashSend
  <2> QED BY <1>1, <2>1, <2>2, <2>3 DEF Send
<1>2. ASSUME NEW c \in Consumers, Consume(c) PROVE Dead'
  <2> \A d \in Consumers : d = c
    BY DEF OneClient
  <2>1. CASE Fetch(c)
    BY <2>1 DEF Fetch
  <2>2. CASE Take(c) \/ Clear(c) \/ Forget(c) \/ CrashConsume(c)
    BY <2>2 DEF Take, Clear, Forget, CrashConsume
  <2>3. CASE Burn(c)
    BY <2>3 DEF Burn
  <2>4. CASE Count(c)
    BY <2>4 DEF Count
  <2> QED BY <1>2, <2>1, <2>2, <2>3, <2>4 DEF Consume
<1>3. CASE ExpireGuard \/ ExpireCode \/ ExpireAttempts
  BY <1>3 DEF ExpireGuard, ExpireCode, ExpireAttempts
<1>4. CASE UNCHANGED vars
  BY <1>4 DEF vars
<1> QED BY <1>1, <1>2, <1>3, <1>4 DEF Next

(* Sends that do not outlive the guard take turns. *)
LEMMA TurnStep ==
  ASSUME SlowMail = FALSE, TypeOK, Turn, [Next]_vars
  PROVE  Turn'
<1> USE EmailAssumption
    DEF TypeOK, Turn, keys, login, Sending, SendEnd, SendGoes
<1>1. ASSUME NEW s \in Sends, Send(s) PROVE Turn'
  BY <1>1 DEF Send, TakeGuard, StoreCode, ResetAttempts, Mail, Rollback, CrashSend
<1>2. ASSUME NEW c \in Consumers, Consume(c) PROVE Turn'
  BY <1>2 DEF Consume, Fetch, Take, Clear, Count, Burn, Forget, CrashConsume
<1>3. CASE ExpireGuard \/ ExpireCode \/ ExpireAttempts
  BY <1>3 DEF ExpireGuard, ExpireCode, ExpireAttempts
<1>4. CASE UNCHANGED vars
  BY <1>4 DEF vars
<1> QED BY <1>1, <1>2, <1>3, <1>4 DEF Next

(* The counter keeps up with the mismatches, across resets and crashes. *)
LEMMA BudgetStep ==
  ASSUME OneClient, TypeOK, Provenance, Turn, Budget, [Next]_vars
  PROVE  Budget'
<1> USE EmailAssumption
    DEF TypeOK, Provenance, Budget, GuessBudget, Past, keys, login, Sending, SendEnd, Consuming,
        SendGoes, ConsumeGoes
<1>1. ASSUME NEW s \in Sends, Send(s) PROVE Budget'
  <2>1. CASE StoreCode(s)
    BY <2>1 DEF StoreCode
  <2>2. CASE ResetAttempts(s)
    BY <2>2 DEF ResetAttempts, Turn
  <2>3. CASE Rollback(s)
    BY <2>3 DEF Rollback
  <2>4. CASE TakeGuard(s) \/ Mail(s) \/ CrashSend(s)
    BY <2>4 DEF TakeGuard, Mail, CrashSend
  <2> QED BY <1>1, <2>1, <2>2, <2>3, <2>4 DEF Send
<1>2. ASSUME NEW c \in Consumers, Consume(c) PROVE Budget'
  <2> \A d \in Consumers : d = c
    BY DEF OneClient
  <2>1. CASE Fetch(c)
    BY <2>1 DEF Fetch
  <2>2. CASE Take(c) \/ Burn(c)
    BY <2>2 DEF Take, Burn
  <2>3. CASE Clear(c) \/ Forget(c)
    BY <2>3 DEF Clear, Forget
  <2>4. CASE Count(c)
    BY <2>4 DEF Count
  <2>5. CASE CrashConsume(c)
    BY <2>5 DEF CrashConsume
  <2> QED BY <1>2, <2>1, <2>2, <2>3, <2>4, <2>5 DEF Consume
<1>3. CASE ExpireGuard \/ ExpireCode \/ ExpireAttempts
  BY <1>3 DEF ExpireGuard, ExpireCode, ExpireAttempts
<1>4. CASE UNCHANGED vars
  BY <1>4 DEF vars
<1> QED BY <1>1, <1>2, <1>3, <1>4 DEF Next

-----------------------------------------------------------------------------
(* What consume() and send() promise, for every instance. *)

(* The references are sound in every reachable state. *)
LEMMA ProvenanceHolds == Spec => []Provenance
<1>1. Init => Provenance
  BY DEF Init, Provenance, Consuming
<1> QED BY <1>1, EmailTypes, ProvenanceStep, PTL DEF Spec

(* consume(): a code is accepted at most once. *)
THEOREM CodesAreOneShot == OneClient /\ Spec => []OneShot
<1> SUFFICES ASSUME OneClient PROVE Spec => []OneShot
  OBVIOUS
<1>1. Init => Spent
  <2> SUFFICES ASSUME Init PROVE Spent
    OBVIOUS
  <2>1. ASSUME NEW k \in Sends PROVE accepted[k] <= 1 /\ accepted[k] # 1
    <3>1. accepted[k] = 0
      BY DEF Init
    <3> QED BY <3>1
  <2>2. ASSUME NEW c \in Consumers PROVE consumer[c] # "clear"
    <3>1. consumer[c] = "idle"
      BY DEF Init
    <3> QED BY <3>1
  <2> QED BY <2>1, <2>2 DEF Spent
<1>2. Spent => OneShot
  BY DEF Spent, OneShot
<1>3. TypeOK /\ Provenance /\ Spent /\ [Next]_vars => Spent'
  BY SpentStep
<1> QED BY <1>1, <1>2, <1>3, EmailTypes, ProvenanceHolds, PTL DEF Spec

(* consume(): a code that a mismatch invalidated is never accepted again. *)
THEOREM BurnedStaysDead == OneClient /\ Spec => BurnedIsDead
<1> SUFFICES ASSUME OneClient PROVE Spec => BurnedIsDead
  OBVIOUS
<1>1. Init => Dead
  BY DEF Init, Dead
<1>2. TypeOK /\ Provenance /\ Dead /\ [Next]_vars => Dead'
  BY DeadStep
<1>3. TypeOK /\ Dead /\ [Next]_vars =>
        [\A k \in Sends : accepted'[k] # accepted[k] => k \notin burned]_vars
  <2> SUFFICES ASSUME TypeOK, Dead, Next, NEW k \in Sends, accepted'[k] # accepted[k]
               PROVE  k \notin burned
    OBVIOUS
  <2>1. PICK c \in Consumers : Clear(c)
    BY DEF Next, Send, TakeGuard, StoreCode, ResetAttempts, Mail, Rollback, CrashSend,
           Consume, Fetch, Take, Count, Burn, Forget, CrashConsume,
           ExpireGuard, ExpireCode, ExpireAttempts, login
  <2>2. seen[c] = k
    BY <2>1 DEF Clear, TypeOK
  <2> QED BY <2>1, <2>2 DEF Clear, Dead
<1> QED BY <1>1, <1>2, <1>3, EmailTypes, ProvenanceHolds, PTL DEF Spec, BurnedIsDead

(* Sends that do not outlive their guard take turns. *)
LEMMA TurnHolds == SlowMail = FALSE /\ Spec => []Turn
<1> SUFFICES ASSUME SlowMail = FALSE PROVE Spec => []Turn
  OBVIOUS
<1>1. Init => Turn
  BY DEF Init, Turn, Sending
<1>2. TypeOK /\ Turn /\ [Next]_vars => Turn'
  BY TurnStep
<1> QED BY <1>1, <1>2, EmailTypes, PTL DEF Spec

(* send(): the rollback of a failed send removes no other send's code. *)
THEOREM RollbackRemovesOwn == SlowMail = FALSE /\ Spec => RollbackOwnCode
<1> SUFFICES ASSUME SlowMail = FALSE PROVE Spec => RollbackOwnCode
  OBVIOUS
<1>1. Turn /\ [Next]_vars => [\A s \in Sends : Rollback(s) => code \in {s, NoSend}]_vars
  BY DEF Turn, Rollback
<1> QED BY <1>1, TurnHolds, PTL DEF Spec, RollbackOwnCode

(* consume(): the budget of wrong guesses bounds what is counted. *)
THEOREM BudgetHolds == OneClient /\ SlowMail = FALSE /\ Spec => []GuessBudget
<1> SUFFICES ASSUME OneClient, SlowMail = FALSE PROVE Spec => []GuessBudget
  OBVIOUS
<1>1. Init => Budget
  BY EmailAssumption DEF Init, Budget, GuessBudget
<1>2. TypeOK /\ Provenance /\ Turn /\ Budget /\ [Next]_vars => Budget'
  BY BudgetStep
<1>3. Budget => GuessBudget
  BY DEF Budget
<1> QED BY <1>1, <1>2, <1>3, EmailTypes, ProvenanceHolds, TurnHolds, PTL DEF Spec

-----------------------------------------------------------------------------
(* LiveConfig *)

(* Engines that were made have an address, and a session maker goes with   *)
(* the engine in use.                                                      *)
Pools ==
  /\ ConfigTypeOK
  /\ maker = current
  /\ phase # "down" => settings \in Environments
  /\ \A r \in Reloads : reload[r] # NotReloading =>
       /\ reload[r].old \in Engines /\ url[reload[r].old] # NoUrl
       /\ reload[r].url # NoUrl

(* Where the process stands in its start: an engine is made before the     *)
(* first request, and missing later only while a reload will make one.     *)
Started ==
  /\ phase \in {"down", "imported"} => current = NoEngine
  /\ phase \in {"connected", "watching"} => current # NoEngine
  /\ phase # "serving" => Reloading = {}
  /\ phase = "serving" /\ Reloading = {} => current # NoEngine

(* Unless reloads with different addresses overlapped, the engine in use   *)
(* and those that will be have the address of the settings.                *)
Followed ==
  ~mixed => /\ current # NoEngine => url[current] = settings["db"]
            /\ \A r \in Reloading : reload[r].url = settings["db"]

Following == Pools /\ Started /\ Followed

LEMMA FirstUnmade ==
  ASSUME LiveConfigAssumption, Unmade # {}
  PROVE  Min(Unmade) \in Unmade
<1> DEFINE S == Unmade
<1>1. S \subseteq Nat
  BY DEF Unmade, LiveConfigAssumption
<1>2. PICK n \in S : TRUE
  OBVIOUS
<1> DEFINE below == {i \in S : i <= n}
           T == {0..i : i \in below}
           less == StrictSubsetOrdering(0..n)
<1>3. PICK R \in T : \A Q \in T : <<Q, R>> \notin less
  <2>1. IsWellFoundedOn(less, FiniteSubsetsOf(0..n))
    BY <1>1, FS_Interval, FS_StrictSubsetOrderingWellFounded
  <2>2. T \subseteq FiniteSubsetsOf(0..n) /\ T # {}
    <3>1. \A i \in below : 0..i \subseteq 0..n /\ IsFiniteSet(0..i)
      BY <1>1, FS_Interval
    <3>2. n \in below
      BY <1>1, <1>2
    <3> QED BY <3>1, <3>2 DEF FiniteSubsetsOf
  <2> HIDE DEF T, less
  <2> QED BY <2>1, <2>2, WFMin
<1>4. PICK m \in below : R = 0..m
  OBVIOUS
<1>5. \E x \in S : \A y \in S : x <= y
  <2> SUFFICES ASSUME NEW y \in S, y < m PROVE FALSE
    BY <1>1, <1>4
  <2>1. y \in below /\ 0..y \in T
    BY <1>1, <1>4
  <2>2. 0..y \subseteq 0..m /\ m \in 0..m /\ m \notin 0..y /\ 0..y \subseteq 0..n /\ 0..m \subseteq 0..n
    BY <1>1, <1>4
  <2>3. <<0..y, 0..m>> \in less
    BY <2>2 DEF StrictSubsetOrdering
  <2> QED BY <1>3, <1>4, <2>1, <2>3
<1> HIDE DEF S
<1>6. (CHOOSE x \in S : \A y \in S : x <= y) \in S
  BY <1>5
<1> QED BY <1>6 DEF S, Min

LEMMA EngineMade ==
  ASSUME LiveConfigAssumption, Pools, NEW address \in Values \cup {Default},
         CreateEngine(address)
  PROVE  \E e \in Engines :
           /\ url[e] = NoUrl /\ e # NoEngine
           /\ url' = [url EXCEPT ![e] = address] /\ url' \in [Engines -> Addresses]
           /\ current' = e /\ maker' = e
           /\ \A d \in Engines : url[d] # NoUrl => url'[d] = url[d]
           /\ url'[e] = address
<1> DEFINE e == Min(Unmade)
<1>1. e \in Unmade
  BY FirstUnmade DEF CreateEngine
<1>2. url' = [url EXCEPT ![e] = address] /\ current' = e /\ maker' = e
  BY DEF CreateEngine
<1>3. e \in Engines /\ url[e] = NoUrl /\ e # 0
  BY <1>1 DEF Unmade, LiveConfigAssumption
<1> HIDE DEF e
<1> QED
  BY <1>2, <1>3 DEF Pools, ConfigTypeOK, Addresses, NoEngine

(* An engine with its session maker, made for the settings if there was none. *)
LEMMA SessionMakerMade ==
  ASSUME LiveConfigAssumption, Pools, phase # "down", GetSessionMaker
  PROVE  /\ current' \in Engines /\ current' # NoEngine /\ maker' = current'
         /\ url' \in [Engines -> Addresses] /\ url'[current'] # NoUrl
         /\ \A d \in Engines : url[d] # NoUrl => url'[d] = url[d]
         /\ current # NoEngine => url' = url /\ current' = current
         /\ current = NoEngine => url'[current'] = settings["db"]
<1>1. CASE current = NoEngine
  <2>1. CreateEngine(settings["db"])
    BY <1>1 DEF GetSessionMaker
  <2>2. settings["db"] \in Values \cup {Default}
    BY DEF Pools, Environments, Keys
  <2> QED BY <1>1, <2>1, <2>2, EngineMade DEF LiveConfigAssumption
<1>2. CASE current # NoEngine
  <2>1. UNCHANGED <<url, current, maker>>
    BY <1>2 DEF GetSessionMaker, Pools
  <2> QED BY <1>2, <2>1 DEF Pools, ConfigTypeOK
<1> QED BY <1>1, <1>2

(* Environments stay environments. *)
LEMMA Applied ==
  ASSUME LiveConfigAssumption, NEW document \in Documents, NEW env \in Environments
  PROVE  Apply(document, env) \in Environments
BY DEF Apply, Documents, Environments, Keys

LEMMA FollowingInit ==
  ASSUME LiveConfigAssumption, ConfigInit PROVE Following
<1> USE DEF ConfigInit
<1>1. ConfigTypeOK
  <2>1. environ \in Environments
    BY DEF Image, Environments
  <2>2. reload \in [Reloads -> [old : Engines \cup {NoEngine}, url : Addresses]]
    BY DEF NotReloading, Addresses
  <2>3. {current, maker} \subseteq {e \in Engines : url[e] # NoUrl} \cup {NoEngine}
    OBVIOUS
  <2>4. edits \in 0..MaxEdits /\ outages \in 0..MaxOutages /\ starts \in 0..MaxStarts
    BY DEF LiveConfigAssumption
  <2> QED BY <2>1, <2>2, <2>3, <2>4 DEF ConfigTypeOK, Addresses
<1> QED
  BY <1>1 DEF Following, Pools, Started, Followed, Reloading, NotReloading

LEMMA FollowingStep ==
  ASSUME LiveConfigAssumption, Following, [ConfigNext]_(configVars) PROVE Following'
<1> USE DEF Following, centre, pools, process, NoEngine
<1>t. ConfigTypeOK
  BY DEF Pools
<1>1. CASE Boot
  <2>1. LoadedConfig \in Documents
    BY <1>t DEF LoadedConfig, ConfigTypeOK, LiveConfigAssumption
  <2>2. Image \in Environments
    BY DEF Image, Environments
  <2>3. environ' \in Environments /\ settings' = environ'
    BY <1>1, <2>1, <2>2, Applied DEF Boot
  <2>4. Pools'
    BY <1>1, <2>3 DEF Boot, Pools, ConfigTypeOK, LiveConfigAssumption
  <2> QED BY <1>1, <2>4 DEF Boot, Started, Followed, Reloading
<1>2. CASE VerifyDatabase
  <2>1. Pools'
    BY <1>2, <1>t, SessionMakerMade DEF VerifyDatabase, Pools, ConfigTypeOK
  <2>2. current' # NoEngine /\ url'[current'] = settings["db"]
    BY <1>2, SessionMakerMade DEF VerifyDatabase, Started
  <2> QED BY <1>2, <2>1, <2>2 DEF VerifyDatabase, Started, Followed, Reloading
<1>3. CASE StartWatcher
  BY <1>3 DEF StartWatcher, Pools, ConfigTypeOK, Started, Followed, Reloading
<1>4. CASE RegisterService
  BY <1>4 DEF RegisterService, Register, Pools, ConfigTypeOK, Started, Followed,
     Reloading
<1>5. CASE Stop
  <2>1. ConfigTypeOK'
    BY <1>5, <1>t DEF Stop, StopListener, CloseRedis, ConfigTypeOK,
       LiveConfigAssumption, Image, Environments, NoSettings,
       Addresses, NotReloading, Keys
  <2> QED
    BY <1>5, <2>1 DEF Stop, Pools, Started, Followed, Reloading
<1>6. CASE WatchLoop \/ ConfigChanged
  <2>1. nacos \in Documents /\ environ \in Environments /\ hot \subseteq Keys
    BY <1>t DEF ConfigTypeOK
  <2>2. DOMAIN nacos \subseteq Keys
    BY <2>1 DEF Documents
  <2>3. environ' \in Environments /\ hot' \subseteq Keys
    BY <1>6, <2>1, <2>2, Applied DEF WatchLoop, ConfigChanged, InitClient,
       ApplyDocument
  <2>4. pushed' \in Documents
    BY <1>6, <1>t DEF WatchLoop, ConfigChanged, InitClient, ConfigTypeOK
  <2>5. listener' \in {"none", "starting", "listening", "dead"}
    BY <1>6, <1>t DEF WatchLoop, ConfigChanged, ConfigTypeOK
  <2>6. UNCHANGED <<centre, registered, phase, settings, pools, client, session,
                    reload, mixed, starts>>
    BY <1>6 DEF WatchLoop, ConfigChanged
  <2>7. ConfigTypeOK'
    BY <1>t, <2>3, <2>4, <2>5, <2>6 DEF ConfigTypeOK
  <2> QED BY <2>6, <2>7 DEF Pools, Started, Followed, Reloading
<1>7. ASSUME NEW q \in Requests, BeginRequest(q) PROVE Following'
  <2>1. Pools'
    BY <1>7, <1>t, SessionMakerMade DEF BeginRequest, Pools, ConfigTypeOK
  <2>2. /\ current' # NoEngine
        /\ current = NoEngine => url'[current'] = settings["db"]
        /\ current # NoEngine => url' = url /\ current' = current
    BY <1>7, SessionMakerMade DEF BeginRequest
  <2> QED BY <1>7, <2>1, <2>2 DEF BeginRequest, Started, Followed, Reloading
<1>8. ASSUME NEW q \in Requests, EndRequest(q) PROVE Following'
  BY <1>8 DEF EndRequest, Pools, ConfigTypeOK, Started, Followed, Reloading
<1>9. CASE GetRedis
  <2>1. client' \in Addresses
    BY <1>9 DEF GetRedis, Pools, Environments, Keys, Addresses
  <2>2. ConfigTypeOK'
    BY <1>9, <1>t, <2>1 DEF GetRedis, ConfigTypeOK
  <2> QED BY <1>9, <2>2 DEF GetRedis, Pools, Started, Followed, Reloading
<1>10. ASSUME NEW r \in Reloads, ReloadBegin(r) PROVE Following'
  <2>1. /\ environ \in Environments /\ settings' = environ
        /\ environ["db"] \in Values \cup {Default}
    BY <1>10, <1>t DEF ReloadBegin, ReloadWith, ConfigTypeOK, Environments, Keys
  <2>2. /\ reload' = [reload EXCEPT ![r] = [old |-> current, url |-> environ["db"]]]
        /\ current # NoEngine /\ current' = NoEngine /\ maker' = NoEngine
        /\ mixed' = (mixed \/ Mixes) /\ phase = "serving"
        /\ UNCHANGED <<centre, registered, phase, environ, hot, listener, pushed, url,
                       closed, client, session, starts>>
    BY <1>10 DEF ReloadBegin, ReloadWith
  <2>3. current \in Engines /\ url[current] # NoUrl
    BY <1>t, <2>2 DEF ConfigTypeOK
  <2>4. environ["db"] \in Addresses /\ environ["db"] # NoUrl
    BY <2>1 DEF Addresses, LiveConfigAssumption
  <2>5. reload' \in [Reloads -> [old : Engines \cup {NoEngine}, url : Addresses]]
    BY <1>t, <2>2, <2>3, <2>4 DEF ConfigTypeOK
  <2>6. mixed' \in BOOLEAN
    BY <1>t, <2>2 DEF ConfigTypeOK
  <2>7. ConfigTypeOK'
    BY <1>t, <2>1, <2>2, <2>5, <2>6 DEF ConfigTypeOK
  <2>8. Pools'
    BY <2>1, <2>2, <2>3, <2>4, <2>5, <2>7, <1>t DEF Pools, ConfigTypeOK
  <2>9. Started'
    BY <2>2, <2>5, <1>t, <2>4 DEF Started, Reloading, ConfigTypeOK, NotReloading
  <2>10. Followed'
    <3> SUFFICES ASSUME ~mixed', NEW x \in Reloading' PROVE reload'[x].url = settings'["db"]
      BY <2>2 DEF Followed
    <3>1. reload[x].url \in {NoUrl, settings'["db"]}
      BY <2>2 DEF Mixes, Reloading
    <3>2. CASE x = r
      BY <3>2, <2>1, <2>2, <1>t DEF ConfigTypeOK, Reloading
    <3>3. CASE x # r
      <4>1. reload'[x] = reload[x] /\ reload[x] # NotReloading
        BY <3>3, <2>2, <1>t DEF ConfigTypeOK, Reloading
      <4> QED BY <3>1, <4>1 DEF Pools, Reloading
    <3> QED BY <3>2, <3>3
  <2> QED BY <2>8, <2>9, <2>10
<1>11. ASSUME NEW r \in Reloads, ReloadAtOnce(r) PROVE Following'
  <2>1. /\ environ \in Environments /\ settings' = environ
        /\ environ["db"] \in Values \cup {Default}
    BY <1>11, <1>t DEF ReloadAtOnce, ConfigTypeOK, Environments, Keys
  <2>2. /\ mixed' = (mixed \/ Mixes) /\ phase = "serving" /\ CreateEngine(environ["db"])
        /\ UNCHANGED <<centre, registered, phase, environ, hot, listener, pushed, closed,
                       client, session, reload, starts>>
    BY <1>11, <2>1 DEF ReloadAtOnce
  <2>3. PICK e \in Engines :
           /\ url[e] = NoUrl /\ e # NoEngine
           /\ url' \in [Engines -> Addresses]
           /\ current' = e /\ maker' = e
           /\ \A d \in Engines : url[d] # NoUrl => url'[d] = url[d]
           /\ url'[e] = environ["db"]
    BY <2>1, <2>2, EngineMade
  <2>4. environ["db"] # NoUrl
    BY <2>1 DEF LiveConfigAssumption
  <2>5. mixed' \in BOOLEAN
    BY <1>t, <2>2 DEF ConfigTypeOK
  <2>6. ConfigTypeOK'
    BY <1>t, <2>1, <2>2, <2>3, <2>4, <2>5 DEF ConfigTypeOK
  <2>7. Pools'
    BY <2>1, <2>2, <2>3, <2>6 DEF Pools
  <2>8. Followed'
    BY <2>1, <2>2, <2>3 DEF Followed, Mixes, Reloading, Pools
  <2> QED BY <2>2, <2>3, <2>7, <2>8 DEF Started
<1>12. ASSUME NEW r \in Reloads, ReloadEnd(r) PROVE Following'
  <2>1. /\ reload[r] # NotReloading /\ CreateEngine(reload[r].url)
        /\ closed' = closed \cup {reload[r].old}
        /\ reload' = [reload EXCEPT ![r] = NotReloading]
        /\ UNCHANGED <<centre, registered, process, client, session, mixed, starts>>
    BY <1>12 DEF ReloadEnd
  <2>2. /\ reload[r].url \in Values \cup {Default}
        /\ reload[r].url # NoUrl
        /\ reload[r].old \in Engines /\ url[reload[r].old] # NoUrl
    BY <2>1, <1>t DEF Pools, ConfigTypeOK, Addresses
  <2>3. PICK e \in Engines :
           /\ url[e] = NoUrl /\ e # NoEngine
           /\ url' \in [Engines -> Addresses]
           /\ current' = e /\ maker' = e
           /\ \A d \in Engines : url[d] # NoUrl => url'[d] = url[d]
           /\ url'[e] = reload[r].url
    BY <2>1, <2>2, EngineMade
  <2>4. reload' \in [Reloads -> [old : Engines \cup {NoEngine}, url : Addresses]]
    BY <2>1, <1>t DEF ConfigTypeOK, NotReloading, Addresses
  <2>5. closed' \subseteq {d \in Engines : url'[d] # NoUrl}
    BY <2>1, <2>2, <2>3, <1>t DEF ConfigTypeOK
  <2>6. ConfigTypeOK'
    BY <1>t, <2>1, <2>2, <2>3, <2>4, <2>5 DEF ConfigTypeOK
  <2>7. Pools'
    <3>1. \A x \in Reloads : reload'[x] # NotReloading => reload'[x] = reload[x]
      BY <2>1, <1>t DEF ConfigTypeOK
    <3> QED BY <2>1, <2>3, <2>6, <3>1 DEF Pools
  <2>8. phase = "serving"
    BY <2>1 DEF Started, Reloading
  <2>9. Followed'
    BY <2>1, <2>3, <1>t DEF Followed, Reloading, ConfigTypeOK
  <2> QED BY <2>1, <2>3, <2>7, <2>8, <2>9 DEF Started
<1>13. CASE Edit \/ Outage \/ ExpireInstance
  <2>1. ConfigTypeOK'
    <3>1. nacos' \in Documents /\ reachable' \in BOOLEAN /\ registered' \in BOOLEAN
      BY <1>13, <1>t DEF Edit, Outage, ExpireInstance, ConfigTypeOK
    <3>2. edits' \in 0..MaxEdits /\ outages' \in 0..MaxOutages
      BY <1>13, <1>t DEF Edit, Outage, ExpireInstance, ConfigTypeOK,
         LiveConfigAssumption
    <3>3. UNCHANGED <<process, pools, client, session, reload, mixed, starts>>
      BY <1>13 DEF Edit, Outage, ExpireInstance
    <3> QED BY <1>t, <3>1, <3>2, <3>3 DEF ConfigTypeOK
  <2> QED
    BY <1>13, <2>1 DEF Edit, Outage, ExpireInstance, Pools, Started, Followed,
       Reloading
<1>14. CASE UNCHANGED configVars
  BY <1>14 DEF configVars, Pools, ConfigTypeOK, Started, Followed, Reloading
<1> QED
  BY <1>1, <1>2, <1>3, <1>4, <1>5, <1>6, <1>7, <1>8, <1>9, <1>10, <1>11, <1>12, <1>13, <1>14
  DEF ConfigNext

(* Type correctness of the configuration. *)
THEOREM ConfigTypes ==
  ASSUME LiveConfigAssumption PROVE ConfigSpec => []ConfigTypeOK
<1>1. Following => ConfigTypeOK
  BY DEF Following, Pools
<1> QED BY <1>1, FollowingInit, FollowingStep, PTL DEF ConfigSpec

(* reload_engine, _get_session_maker: once no reload is under way, the      *)
(* engine in use has the address of the settings.                          *)
THEOREM SettingsAreFollowed ==
  ASSUME LiveConfigAssumption PROVE ConfigSpec => []EngineFollowsSettings
<1>1. Following => EngineFollowsSettings
  BY DEF Following, Pools, Started, Followed, EngineFollowsSettings, Serving
<1> QED BY <1>1, FollowingInit, FollowingStep, PTL DEF ConfigSpec
=============================================================================
