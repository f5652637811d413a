------------------------------ MODULE EmailCode ------------------------------
(***************************************************************************)
(* EmailCodeService (common/verification/email_code.py) for one address:   *)
(* the guard, code and attempts keys in Redis, the sends that write them   *)
(* and the logins that consume them.  Every Redis call is a step.          *)
(*                                                                         *)
(* Lifetimes (120 s guard, 3600 s code and attempts) are not counted: a    *)
(* key may expire at any moment that the order of the lifetimes allows.    *)
(* SlowMail says whether a send may outlive its guard.                     *)
(***************************************************************************)
EXTENDS Naturals

CONSTANTS
  Sends,        \* calls of send(); the code a send generates is named after it
  NoSend,       \* the guard or the code key does not exist
  Consumers,    \* callers of consume(), each one call after another
  MaxWrong,     \* MAX_WRONG_ATTEMPTS
  MaxCrashes,   \* bound on the consume() calls that die half-way
  SlowMail      \* may the guard expire while its send is still running?

ASSUME EmailAssumption ==
  /\ NoSend \notin Sends
  /\ MaxWrong \in Nat \ {0}
  /\ MaxCrashes \in Nat
  /\ SlowMail \in BOOLEAN

VARIABLES
  guard,     \* the send that set email-verify-guard-{email}
  code,      \* email-verify-{email}
  attempts,  \* email-verify-attempts-{email}; 0 stands for no key
  sender,    \* sender[s]: where send s stands
  consumer,  \* consumer[c]: where the current consume() of c stands
  seen,      \* seen[c]: the code c compared the submission with
  fresh,     \* (history) the codes whose guess budget has been reset
  wrong,     \* (history) wrong[k]: mismatches counted against k since then
  accepted,  \* (history) accepted[k]: successful consumptions of k
  burned,    \* (history) codes invalidated by a mismatch
  crashes    \* (history) consume() calls that died half-way

vars == <<guard, code, attempts, sender, consumer, seen,
          fresh, wrong, accepted, burned, crashes>>
keys == <<guard, code, attempts>>
login == <<consumer, seen, wrong, accepted, burned, crashes>>

Sending == {"store", "reset", "mail", "rollback"}
SendEnd == {"refused", "sent", "failed", "crashed"}
Consuming == {"take", "clear", "count", "burn", "forget"}

Init ==
  /\ guard = NoSend
  /\ code = NoSend
  /\ attempts = 0
  /\ sender = [s \in Sends |-> "idle"]
  /\ consumer = [c \in Consumers |-> "idle"]
  /\ seen = [c \in Consumers |-> NoSend]
  /\ fresh = {}
  /\ wrong = [k \in Sends |-> 0]
  /\ accepted = [k \in Sends |-> 0]
  /\ burned = {}
  /\ crashes = 0

-----------------------------------------------------------------------------
(* send() *)

SendGoes(s, where) == sender' = [sender EXCEPT ![s] = where]

(* Mutants of TakeGuard: SET without NX; of ExpireGuard: SET without EX. *)
TakeGuardAnyway(s) ==
  /\ sender[s] = "idle"
  /\ guard' = s /\ SendGoes(s, "store")
  /\ UNCHANGED <<code, attempts, fresh, login>>

GuardForever == FALSE

(* SET guard NX EX: the loser of two sends gets REQUEST_TOO_FREQUENT. *)
TakeGuard(s) ==
  /\ sender[s] = "idle"
  /\ \/ guard = NoSend /\ guard' = s /\ SendGoes(s, "store")
     \/ guard # NoSend /\ SendGoes(s, "refused") /\ UNCHANGED guard
  /\ UNCHANGED <<code, attempts, fresh, login>>

StoreCode(s) ==
  /\ sender[s] = "store"
  /\ code' = s
  /\ SendGoes(s, "reset")
  /\ UNCHANGED <<guard, attempts, fresh, login>>

ResetAttempts(s) ==
  /\ sender[s] = "reset"
  /\ attempts' = 0
  /\ fresh' = fresh \cup {s}
  /\ SendGoes(s, "mail")
  /\ UNCHANGED <<guard, code, login>>

(* The SMTP dialogue succeeds or raises. *)
Mail(s) ==
  /\ sender[s] = "mail"
  /\ \/ SendGoes(s, "sent")
     \/ SendGoes(s, "rollback")
  /\ UNCHANGED <<keys, fresh, login>>

(* DELETE of the code key, whoever's code it holds; an error is swallowed. *)
Rollback(s) ==
  /\ sender[s] = "rollback"
  /\ code' \in {NoSend, code}
  /\ SendGoes(s, "failed")
  /\ UNCHANGED <<guard, attempts, fresh, login>>

(* The worker dies, or a Redis call raises outside the try block. *)
CrashSend(s) ==
  /\ sender[s] \in Sending
  /\ SendGoes(s, "crashed")
  /\ UNCHANGED <<keys, fresh, login>>

Send(s) == \/ TakeGuard(s) \/ StoreCode(s) \/ ResetAttempts(s)
           \/ Mail(s) \/ Rollback(s) \/ CrashSend(s)

-----------------------------------------------------------------------------
(* consume() *)

ConsumeGoes(c, where) == consumer' = [consumer EXCEPT ![c] = where]

(* GET; an absent code is rejected on the spot and changes nothing.  The     *)
(* submission matches ("take") or not ("count").                             *)
Fetch(c) ==
  /\ consumer[c] = "idle"
  /\ code # NoSend
  /\ seen' = [seen EXCEPT ![c] = code]
  /\ \/ ConsumeGoes(c, "take")
     \/ ConsumeGoes(c, "count")
  /\ UNCHANGED <<keys, sender, fresh, wrong, accepted, burned, crashes>>

(* Mutant of Take: the code is left to its lifetime. *)
TakeNothing(c) ==
  /\ consumer[c] = "take"
  /\ ConsumeGoes(c, "clear")
  /\ UNCHANGED <<keys, sender, seen, fresh, wrong, accepted, burned, crashes>>

(* A match: DELETE code, DELETE attempts, return. *)
Take(c) ==
  /\ consumer[c] = "take"
  /\ code' = NoSend
  /\ ConsumeGoes(c, "clear")
  /\ UNCHANGED <<guard, attempts, sender, seen, fresh, wrong, accepted, burned, crashes>>

Clear(c) ==
  /\ consumer[c] = "clear"
  /\ attempts' = 0
  /\ accepted' = [accepted EXCEPT ![seen[c]] = @ + 1]
  /\ ConsumeGoes(c, "idle")
  /\ UNCHANGED <<guard, code, sender, seen, fresh, wrong, burned, crashes>>

(* A mismatch: INCR; from MAX_WRONG_ATTEMPTS on, the code is invalidated. *)
Count(c) ==
  /\ consumer[c] = "count"
  /\ attempts' = attempts + 1
  /\ wrong' = [wrong EXCEPT ![seen[c]] = IF seen[c] \in fresh THEN @ + 1 ELSE @]
  /\ ConsumeGoes(c, IF attempts + 1 >= MaxWrong THEN "burn" ELSE "idle")
  /\ UNCHANGED <<guard, code, sender, seen, fresh, accepted, burned, crashes>>

(* Mutant of Burn: only the counter goes. *)
BurnCounter(c) ==
  /\ consumer[c] = "burn"
  /\ burned' = burned \cup {seen[c]}
  /\ ConsumeGoes(c, "forget")
  /\ UNCHANGED <<keys, sender, seen, fresh, wrong, accepted, crashes>>

Burn(c) ==
  /\ consumer[c] = "burn"
  /\ code' = NoSend
  /\ burned' = burned \cup {seen[c]}
  /\ ConsumeGoes(c, "forget")
  /\ UNCHANGED <<guard, attempts, sender, seen, fresh, wrong, accepted, crashes>>

Forget(c) ==
  /\ consumer[c] = "forget"
  /\ attempts' = 0
  /\ ConsumeGoes(c, "idle")
  /\ UNCHANGED <<guard, code, sender, seen, fresh, wrong, accepted, burned, crashes>>

(* The call dies (worker or Redis connection lost); the client may try again. *)
CrashConsume(c) ==
  /\ consumer[c] \in Consuming
  /\ crashes < MaxCrashes
  /\ crashes' = crashes + 1
  /\ ConsumeGoes(c, "idle")
  /\ UNCHANGED <<keys, sender, seen, fresh, wrong, accepted, burned>>

Consume(c) == \/ Fetch(c) \/ Take(c) \/ Clear(c) \/ Count(c)
              \/ Burn(c) \/ Forget(c) \/ CrashConsume(c)

-----------------------------------------------------------------------------
(* Expiry.  A code outlives its send; a counter starts later than the code   *)
(* it counts for and so outlives it, unless it is left from an earlier code. *)

ExpireGuard ==
  /\ guard # NoSend
  /\ SlowMail \/ sender[guard] \notin Sending
  /\ guard' = NoSend
  /\ UNCHANGED <<code, attempts, sender, fresh, login>>

ExpireCode ==
  /\ code # NoSend
  /\ sender[code] \notin Sending
  /\ code' = NoSend
  /\ UNCHANGED <<guard, attempts, sender, fresh, login>>

ExpireAttempts ==
  /\ attempts > 0
  /\ code \notin fresh
  /\ attempts' = 0
  /\ UNCHANGED <<guard, code, sender, fresh, login>>

Next ==
  \/ \E s \in Sends : Send(s)
  \/ \E c \in Consumers : Consume(c)
  \/ ExpireGuard \/ ExpireCode \/ ExpireAttempts

Spec == Init /\ [][Next]_vars

(* Redis expires keys, and a send that is not killed comes to its end. *)
FairSpec ==
  /\ Spec
  /\ WF_vars(ExpireGuard)
  /\ \A s \in Sends : WF_vars(Send(s))

-----------------------------------------------------------------------------
TypeOK ==
  /\ guard \in Sends \cup {NoSend}
  /\ code \in Sends \cup {NoSend}
  /\ attempts \in Nat
  /\ sender \in [Sends -> Sending \cup SendEnd \cup {"idle"}]
  /\ consumer \in [Consumers -> Consuming \cup {"idle"}]
  /\ seen \in [Consumers -> Sends \cup {NoSend}]
  /\ \A c \in Consumers : consumer[c] \in Consuming => seen[c] \in Sends
  /\ fresh \subseteq Sends
  /\ wrong \in [Sends -> Nat]
  /\ accepted \in [Sends -> Nat]
  /\ burned \subseteq Sends
  /\ crashes \in Nat

(* consume(), "successful validation deletes the code (one-shot)": no code   *)
(* is the proof of two logins.                                               *)
OneShot == \A k \in Sends : accepted[k] <= 1

(* "After MAX_WRONG_ATTEMPTS mismatches the code is invalidated": once the   *)
(* budget of a code has been reset, no more mismatches than that are counted *)
(* against it, bar one for every call that died before it could burn it.     *)
GuessBudget == \A k \in Sends : wrong[k] <= MaxWrong + crashes

(* consume(), "a later correct guess fails too": a code that a mismatch has  *)
(* invalidated is never accepted again.                                      *)
BurnedIsDead ==
  [][\A k \in Sends : accepted'[k] # accepted[k] => k \notin burned]_vars

(* send(), "the freshly written code is removed": what a failed send removes *)
(* is its own code, never one that a later send has stored and mailed.       *)
RollbackOwnCode ==
  [][\A s \in Sends : Rollback(s) => code \in {s, NoSend}]_vars

(* "Next attempt after 120s succeeds": whatever becomes of a send, a new     *)
(* code can be requested again.                                              *)
ResendPossible == guard # NoSend ~> guard = NoSend
=============================================================================
