------------------------------- MODULE Search -------------------------------
(***************************************************************************)
(* Results for a constraint: the cached, single-flighted computation of    *)
(* advanced_search/service.py over the queries of Query, the reader of     *)
(* result/dao.py behind it, and as its surroundings the ballots and the    *)
(* main computation (Tally), whose version names the cache entries.        *)
(*                                                                         *)
(* A computation reads whitelist, ballots and histories by one session;    *)
(* here it reads the ballots at once (Tally has the separate statements).  *)
(* An entry stands for all sections under one key infix: they are written  *)
(* in one MULTI/EXEC with one lifetime, a day, that no request sees end.   *)
(***************************************************************************)
EXTENDS Query

CONSTANTS
  Callers,       \* GraphQL requests for a ranking
  Asks,          \* Asks[c]: the queries request c may carry
  Typed,         \* Typed[q]: query q as it was typed
  NoQuery,       \* no constraint: the main ranking
  Address,       \* Address[c]: the client's IP, NoAddress outside HTTP
  NoAddress,
  Everyone,      \* the counter all addresses share
  Limit,         \* Limit[s]: computations a minute for an address, for Everyone
  Voters,
  Early,         \* Early[v]: the ballot of v before the first request, or Nothing
  Late,          \* Late[v]: the ballots v may cast later
  Content,       \* Content[b]: what ballot b says
  Nothing,       \* no ballot, no entry, no answer
  NoOne,         \* the lock key does not exist
  MaxPolls,      \* bound on the polls of a waiter: 60 s at 200 ms
  MaxClock,      \* bound on the seconds in which results are published
  MaxCast,       \* bound on the ballots cast meanwhile
  MayOverrun,    \* may the 30 s of the lock run out under a working owner?
  SharedSeconds  \* may two main computations finish within one second?

Queries == (UNION {Asks[c] : c \in Callers}) \ {NoQuery}

Counters == ({Address[c] : c \in Callers} \cup {Everyone}) \ {NoAddress}

ASSUME SearchAssumption ==
  /\ IsFiniteSet(Queries) /\ IsFiniteSet(Callers)
  /\ Everyone # NoAddress /\ Nothing \notin Counters
  /\ Limit \in [Counters -> Nat \ {0}]
  /\ Early \in [Voters -> DOMAIN Content \cup {Nothing}]
  /\ \A v \in Voters : Late[v] \subseteq DOMAIN Content
  /\ \A b \in DOMAIN Content : Content[b] \in Ballot
  /\ NoOne \notin Callers
  /\ Nothing \notin [version : Nat, seen : Nat]
  /\ MaxPolls \in Nat \ {0} /\ MaxClock \in Nat /\ MaxCast \in Nat
  /\ MayOverrun \in BOOLEAN /\ SharedSeconds \in BOOLEAN

VARIABLES
  ballots,  \* ballots[v]: v's latest ballot that counts
  cast,     \* number of ballots cast so far
  loaded,   \* how many the running main computation has seen
  main,     \* the published results: version and ballots seen
  cache,    \* cache[v, f]: results for fingerprint f under version v
  lock,     \* lock[f]: who set adv_lock for fingerprint f
  used,     \* used[s]: the counter of scope s
  mortal,   \* counters whose lifetime has been set
  pc, asked, version, polls, scope, read, answer

world == <<ballots, cast, loaded, main>>
budget == <<used, mortal>>
searchVars == <<world, cache, lock, budget, pc, asked, version, polls, scope, read,
          answer>>

Accepted == {q \in Queries : WithinLimits(Typed[q])}

(* parse_query *)
Tree == [q \in Accepted |-> Normalize[Typed[q]]]

(* sha1 of the canonical string: a number for each normal form. *)
Fingerprints == 1..Cardinality(Range(Tree))
Digest == CHOOSE d \in [Range(Tree) -> Fingerprints] : IsInjective(d)

Versions == 0..MaxClock

Fingerprint(c) == Digest[Tree[asked[c]]]
Infix(c) == <<version[c], Fingerprint(c)>>
Entry(c) == IF asked[c] = NoQuery THEN main ELSE cache[Infix(c)]
Marked(c) == cache[Infix(c)] # Nothing
Owner(c) == asked[c] # NoQuery /\ lock[Fingerprint(c)] = c

Ended == {"answered", "refused", "crashed"}
Working == {"recheck", "count", "ttl", "load", "store", "unlock", "fail"}

Goto(c, from, to) == pc[c] = from /\ pc' = [pc EXCEPT ![c] = to]

(* The locals of a request that has ended are gone. *)
Ends(c) ==
  /\ asked' = [asked EXCEPT ![c] = NoQuery]
  /\ answer' = [answer EXCEPT ![c] = Nothing]
  /\ version' = [version EXCEPT ![c] = 0]
  /\ polls' = [polls EXCEPT ![c] = 0]
  /\ scope' = [scope EXCEPT ![c] = Nothing]
  /\ read' = [read EXCEPT ![c] = Nothing]

-----------------------------------------------------------------------------
(* Surroundings *)

(* A voter submits (VoteSubmit). *)
Vote(v) ==
  /\ cast < MaxCast
  /\ \E b \in Late[v] : b # ballots[v] /\ ballots' = [ballots EXCEPT ![v] = b]
  /\ cast' = cast + 1
  /\ UNCHANGED <<loaded, main, cache, lock, budget, pc, asked, version,
                 polls, scope, read, answer>>

(* compute_all loads the ballots ... *)
ComputeAll ==
  /\ loaded = Nothing
  /\ loaded' = cast
  /\ UNCHANGED <<ballots, cast, main, cache, lock, budget, pc, asked,
                 version, polls, scope, read, answer>>

Current == IF main = Nothing THEN 0 ELSE main.version

(* ... and publishes every section with the second as snapshot_version. *)
Publish ==
  /\ loaded # Nothing
  /\ \E second \in 1..MaxClock :
       /\ IF SharedSeconds THEN second >= Current ELSE second > Current
       /\ main' = [version |-> second, seen |-> loaded]
  /\ loaded' = Nothing
  /\ UNCHANGED <<ballots, cast, cache, lock, budget, pc, asked, version, polls,
                 scope, read, answer>>

(* The lock runs out, under its owner or after the owner's death. *)
LockRunsOut(f) ==
  /\ lock[f] # NoOne
  /\ pc[lock[f]] \in Ended \/ MayOverrun
  /\ lock' = [lock EXCEPT ![f] = NoOne]
  /\ UNCHANGED <<world, cache, budget, pc, asked, version, polls, scope, read, answer>>

(* A minute after EXPIRE the counter is gone. *)
WindowEnds(s) ==
  /\ s \in mortal
  /\ used' = [used EXCEPT ![s] = 0]
  /\ mortal' = mortal \ {s}
  /\ UNCHANGED <<world, cache, lock, pc, asked, version, polls, scope, read,
                 answer>>

-----------------------------------------------------------------------------
(* ensure_filtered_results *)

(* parse_query, then the version; without a constraint there is neither. *)
Ask(c, q) ==
  /\ pc[c] = "idle"
  /\ asked' = [asked EXCEPT ![c] = q]
  /\ version' = [version EXCEPT ![c] = Current]
  /\ pc' = [pc EXCEPT ![c] = IF q = NoQuery THEN "ranking"
                             ELSE IF q \in Accepted THEN "probe" ELSE "refused"]
  /\ UNCHANGED <<world, cache, lock, budget, polls, scope, read, answer>>

Probe(c) ==
  /\ Goto(c, "probe", IF Marked(c) THEN "ranking" ELSE "lock")
  /\ UNCHANGED <<world, cache, lock, budget, asked, version, polls, scope, read,
                 answer>>

SetLock(c) ==
  /\ LET free == lock[Fingerprint(c)] = NoOne IN
       /\ Goto(c, "lock", IF free THEN "recheck" ELSE "poll")
       /\ lock' = IF free THEN [lock EXCEPT ![Fingerprint(c)] = c] ELSE lock
  /\ UNCHANGED <<world, cache, budget, asked, version, polls, scope, read, answer>>

(* The second look of the caller that got the lock. *)
Recheck(c) ==
  /\ Goto(c, "recheck", IF Marked(c) THEN "unlock" ELSE "count")
  /\ UNCHANGED <<world, cache, lock, budget, asked, version, polls, scope, read,
                 answer>>

(* Mutant of Waited: the time spent waiting is not added up. *)
WaitedAtAll(c) == polls[c]

Waited(c) == polls[c] + 1

(* A waiter looks for the marker ... *)
Poll(c) ==
  /\ Goto(c, "poll", IF Marked(c) THEN "ranking" ELSE "follow")
  /\ polls' = [polls EXCEPT ![c] = Waited(c)]
  /\ UNCHANGED <<world, cache, lock, budget, asked, version, scope, read, answer>>

(* The lock is gone, or a minute has passed. *)
TakesOver(c) == lock[Fingerprint(c)] = NoOne \/ polls[c] = MaxPolls

(* ... and, by a separate call, at the lock. *)
Follow(c) ==
  /\ Goto(c, "follow", IF TakesOver(c) THEN "count" ELSE "poll")
  /\ UNCHANGED <<world, cache, lock, budget, asked, version, polls, scope, read,
                 answer>>

(* _check_miss_budget charges the address, if there is one, then everyone. *)
Scope(c) ==
  IF scope[c] = Nothing /\ Address[c] # NoAddress THEN Address[c] ELSE Everyone

AfterPaying(s) == IF s = Everyone THEN "load" ELSE "count"

(* Mutant of CountsToOne: off by one, the second call sets the lifetime. *)
CountsToTwo(s) == used[s] = 1

CountsToOne(s) == used[s] = 0

(* INCR; only the call that counts to one goes on to EXPIRE. *)
Incr(c) ==
  /\ LET s == Scope(c) IN
       /\ Goto(c, "count", IF CountsToOne(s) THEN "ttl"
                           ELSE IF used[s] + 1 > Limit[s] THEN "fail"
                           ELSE AfterPaying(s))
       /\ scope' = [scope EXCEPT ![c] = s]
       /\ used' = [used EXCEPT ![s] = @ + 1]
  /\ UNCHANGED <<world, cache, lock, mortal, asked, version, polls, read, answer>>

Expire(c) ==
  /\ Goto(c, "ttl", AfterPaying(scope[c]))
  /\ mortal' = mortal \cup {scope[c]}
  /\ UNCHANGED <<world, cache, lock, used, asked, version, polls, scope, read,
                 answer>>

(* _compute_filtered: an unknown name costs no ballots ... *)
Load(c) ==
  /\ Goto(c, "load", IF AllKnown(Tree[asked[c]]) THEN "store" ELSE "fail")
  /\ read' = IF AllKnown(Tree[asked[c]])
               THEN [read EXCEPT ![c] = [seen |-> cast, ballots |-> ballots]]
               ELSE read
  /\ UNCHANGED <<world, cache, lock, budget, asked, version, polls, scope, answer>>

Voted(bs) == {v \in Voters : bs[v] # Nothing}

Results(r, tree) ==
  [seen |-> r.seen, ballots |-> r.ballots,
   subset |-> {v \in Voted(r.ballots) : Holds(tree, Content[r.ballots[v]])}]

(* Mutant of StoredUnder: the version of the day the ballots were counted. *)
UnderNewest(c) == <<Current, Fingerprint(c)>>

(* ... and the results go under the version read at the start. *)
StoredUnder(c) == Infix(c)

Store(c) ==
  /\ Goto(c, "store", "unlock")
  /\ cache' = [cache EXCEPT ![StoredUnder(c)] = Results(read[c], Tree[asked[c]])]
  /\ UNCHANGED <<world, lock, budget, asked, version, polls, scope, read, answer>>

(* The script deletes the key only while it holds the caller's token. *)
Unlocked(c) == IF Owner(c) THEN [lock EXCEPT ![Fingerprint(c)] = NoOne] ELSE lock

Finally(c) ==
  /\ \/ /\ Goto(c, "unlock", "ranking")
        /\ UNCHANGED <<asked, version, polls, scope, read, answer>>
     \/ Goto(c, "fail", "refused") /\ Ends(c)
  /\ lock' = Unlocked(c)
  /\ UNCHANGED <<world, cache, budget>>

-----------------------------------------------------------------------------
(* ResultDAO.get_ranking: the ranking, then its global figures *)

ReadRanking(c) ==
  /\ \/ /\ Entry(c) = Nothing
        /\ Goto(c, "ranking", "refused") /\ Ends(c)
     \/ /\ Entry(c) # Nothing
        /\ Goto(c, "ranking", "global")
        /\ answer' = [answer EXCEPT ![c] = Entry(c)]
        /\ UNCHANGED <<asked, version, polls, scope, read>>
  /\ UNCHANGED <<world, cache, lock, budget>>

ReadGlobal(c) ==
  /\ Goto(c, "global", IF Entry(c) = Nothing THEN "refused" ELSE "answered")
  /\ Ends(c)
  /\ UNCHANGED <<world, cache, lock, budget>>

(* The worker dies.  Where nothing is held yet that is a request that stops. *)
Crash(c) ==
  /\ pc[c] \in Working
  /\ pc' = [pc EXCEPT ![c] = "crashed"]
  /\ version' = [version EXCEPT ![c] = 0]
  /\ polls' = [polls EXCEPT ![c] = 0]
  /\ read' = [read EXCEPT ![c] = Nothing]
  /\ UNCHANGED <<world, cache, lock, budget, asked, scope, answer>>

-----------------------------------------------------------------------------
SearchInit ==
  /\ ballots = Early
  /\ cast = 0
  /\ loaded = Nothing
  /\ main = Nothing
  /\ cache = [i \in Versions \X Fingerprints |-> Nothing]
  /\ lock = [f \in Fingerprints |-> NoOne]
  /\ used = [s \in Counters |-> 0]
  /\ mortal = {}
  /\ pc = [c \in Callers |-> "idle"]
  /\ asked = [c \in Callers |-> NoQuery]
  /\ version = [c \in Callers |-> 0]
  /\ polls = [c \in Callers |-> 0]
  /\ scope = [c \in Callers |-> Nothing]
  /\ read = [c \in Callers |-> Nothing]
  /\ answer = [c \in Callers |-> Nothing]

CallerStep(c) ==
  \/ Probe(c) \/ SetLock(c) \/ Recheck(c) \/ Poll(c) \/ Follow(c)
  \/ Incr(c) \/ Expire(c) \/ Load(c) \/ Store(c) \/ Finally(c)
  \/ ReadRanking(c) \/ ReadGlobal(c)

SearchNext ==
  \/ \E v \in Voters : Vote(v)
  \/ ComputeAll \/ Publish
  \/ \E f \in Fingerprints : LockRunsOut(f)
  \/ \E s \in Counters : WindowEnds(s)
  \/ \E c \in Callers : \E q \in Asks[c] : Ask(c, q)
  \/ \E c \in Callers : CallerStep(c) \/ Crash(c)

(* A request keeps running on its event loop; nothing is assumed of the    *)
(* administrator, the voters or the lifetimes of keys.                     *)
Fairness == \A c \in Callers : WF_searchVars(CallerStep(c))

SearchSpec == SearchInit /\ [][SearchNext]_searchVars /\ Fairness

-----------------------------------------------------------------------------
(* What an author of a query means by it, on the tree as it was typed. *)
Means(n, b) ==
  LET means[k \in Sentences] ==
        CASE k.op = "and"   -> \A i \in DOMAIN k.kids : means[k.kids[i]]
          [] k.op = "or"    -> \E i \in DOMAIN k.kids : means[k.kids[i]]
          [] k.op = "q"     -> <<k.question, k.option>> \in b.answers
          [] k.op = "any"   -> \E i \in DOMAIN k.names, t \in b.picks[k.cat] :
                                 Canonical[t] \in Named[k.cat][k.names[i]]
          [] k.op = "first" -> \E t \in b.first[k.cat] :
                                 Canonical[t] \in Named[k.cat][k.name]
          [] OTHER          -> \E members \in b.pairs :
                                 \E f \in Bijection(DOMAIN members, DOMAIN k.names) :
                                   \A i \in DOMAIN members :
                                     Canonical[members[i]] \in Named[Characters][k.names[f[i]]]
  IN  means[n]

(* A caller reads the ranking of the voters its own words describe, though *)
(* the entry may have been computed for a query written otherwise: equal   *)
(* fingerprints mean equal queries (dsl.py normalize, subset.py).          *)
AnswersTheQuestion ==
  \A c \in Callers : pc[c] = "global" /\ asked[c] # NoQuery =>
    LET seen == answer[c].ballots IN
      answer[c].subset = {v \in Voted(seen) : Means(Typed[asked[c]], Content[seen[v]])}

(* Under the current version no entry has seen fewer ballots than the main *)
(* results: recomputing leaves the older filtered results behind           *)
(* (compute_service.py, snapshot_version).                                 *)
FilteredIsNotOlder ==
  main # Nothing =>
    \A f \in Fingerprints : cache[<<main.version, f>>] # Nothing =>
      cache[<<main.version, f>>].seen >= main.seen

(* A counter that has begun comes to its end: its lifetime is set, or is   *)
(* about to be, unless the caller died between INCR and EXPIRE.            *)
CountersAreMortal ==
  \A s \in Counters : used[s] > 0 /\ s \notin mortal =>
    \E c \in Callers : scope[c] = s /\ pc[c] \in {"ttl", "crashed"}

(* Every request that was begun ends: it waits for no lock for ever.       *)
EveryCallerEnds == \A c \in Callers : pc[c] # "idle" ~> pc[c] \in Ended

SearchTypeOK ==
  /\ \A v \in Voters : ballots[v] \in Late[v] \cup {Early[v]}
  /\ cast \in 0..MaxCast
  /\ loaded \in 0..MaxCast \cup {Nothing}
  /\ lock \in [Fingerprints -> Callers \cup {NoOne}]
  /\ used \in [Counters -> 0..Cardinality(Callers)]
  /\ mortal \subseteq {s \in Counters : used[s] > 0}
  /\ version \in [Callers -> Versions]
  /\ polls \in [Callers -> 0..MaxPolls]
=============================================================================
