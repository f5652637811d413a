---------------------------- MODULE TallyProofs ----------------------------
(***************************************************************************)
(* The theorems about Tally, for any number of computations, voters,       *)
(* candidates, ballots, papers, hours and commits:                         *)
(*                                                                         *)
(*   - what the lock of compute_all is for: as long as no computation      *)
(*     outlives its lock, each published snapshot has seen at least the    *)
(*     ballots of the one before it;                                       *)
(*   - what the pure functions compute: ranks are competition ranks, the   *)
(*     hourly net deltas add up to the count, an accepted ballot has one   *)
(*     favourite, the sections of one snapshot agree;                      *)
(*   - type correctness, at the end.                                       *)
(*                                                                         *)
(* The second group rests on facts about sums (the folds of the community  *)
(* modules), ranks and sorting, which come first.  Induction over a number *)
(* or over the subsets of a finite set is by a least counterexample.       *)
(***************************************************************************)
EXTENDS Tally, FiniteSetTheorems, WellFoundedInduction, TLAPS

-----------------------------------------------------------------------------
(* No snapshot is older than the one before it. *)

(* The part of the types that the argument needs. *)
Types ==
  /\ commits \in Nat
  /\ pc \in [Computations -> Working \cup Ended \cup {"idle"}]
  /\ seen \in [Computations -> Nat]
  /\ snapshot.seen \in Nat

(* Only the computation that set the lock works; release() of another one's  *)
(* lock cannot happen, for whoever releases is at work.                      *)
Exclusive == \A c \in Computations : pc[c] \in Working => lock = c

(* A computation that will publish has loaded its ballots after whatever is  *)
(* published was loaded.                                                     *)
Fresh ==
  /\ snapshot.seen <= commits
  /\ \A c \in Computations :
       pc[c] \in Loading \ {"votes"} => snapshot.seen <= seen[c] /\ seen[c] <= commits

Advancing == Types /\ Exclusive /\ Fresh

(* It holds at the start. *)
LEMMA AdvancingInit == Init => Advancing
BY DEF Init, Advancing, Types, Exclusive, Fresh, Working, Loading, Ended, Unpublished

(* Every step keeps the invariant. *)
LEMMA AdvancingStep ==
  ASSUME MayOverrun = FALSE, Advancing, [Next]_vars PROVE Advancing'
<1> USE TallyAssumption DEF Advancing, Types, Exclusive, Fresh, Working, Loading, Ended, Goto,
           Forget, Commit, Elsewhere, table
<1>1. ASSUME NEW c \in Computations, Acquire(c) PROVE Advancing'
  BY <1>1 DEF Acquire
<1>2. ASSUME NEW c \in Computations, Refuse(c) PROVE Advancing'
  BY <1>2 DEF Refuse
<1>3. ASSUME NEW c \in Computations, LoadVotes(c) PROVE Advancing'
  BY <1>3 DEF LoadVotes
<1>4. ASSUME NEW c \in Computations, LoadPapers(c) PROVE Advancing'
  BY <1>4 DEF LoadPapers
<1>5. ASSUME NEW c \in Computations, LoadCompletion(c) PROVE Advancing'
  BY <1>5 DEF LoadCompletion
<1>6. ASSUME NEW c \in Computations, LoadHistory(c) PROVE Advancing'
  BY <1>6 DEF LoadHistory
<1>16. ASSUME NEW c \in Computations, LoadBatches(c) PROVE Advancing'
  BY <1>16 DEF LoadBatches
<1>7. ASSUME NEW c \in Computations, Publish(c) PROVE Advancing'
  BY <1>7 DEF Publish
<1>8. ASSUME NEW c \in Computations, Release(c) PROVE Advancing'
  BY <1>8 DEF Release
<1>9. ASSUME NEW c \in Computations, Fail(c) PROVE Advancing'
  BY <1>9 DEF Fail
<1>10. ASSUME NEW c \in Computations, Crash(c) PROVE Advancing'
  BY <1>10 DEF Crash
<1>11. CASE Expire
  BY <1>11 DEF Expire
<1>12. ASSUME NEW v \in Voters, NEW b \in Ballots[category], NEW t \in Times, Submit(v, b, t)
       PROVE  Advancing'
  BY <1>12 DEF Submit
<1>13. ASSUME NEW v \in Voters, NEW i \in DOMAIN rows[v], SetInvalidated(v, i)
       PROVE  Advancing'
  BY <1>13 DEF SetInvalidated
<1>14. ASSUME NEW v \in Voters, NEW p \in Papers, Answer(v, p) PROVE Advancing'
  BY <1>14 DEF Answer
<1>15. CASE UNCHANGED vars
  BY <1>15 DEF vars
<1> QED BY <1>1, <1>2, <1>3, <1>4, <1>5, <1>6, <1>7, <1>8, <1>9, <1>10, <1>11, <1>12,
           <1>13, <1>14, <1>15, <1>16
        DEF Next, Step

(* A step that publishes is the only one that changes the snapshot, and what *)
(* it publishes has seen no fewer commits.                                   *)
LEMMA PublishAdvances ==
  ASSUME Advancing, [Next]_vars PROVE snapshot'.seen >= snapshot.seen
<1>1. ASSUME NEW c \in Computations, Publish(c) PROVE snapshot'.seen >= snapshot.seen
  BY <1>1 DEF Publish, Advancing, Types, Fresh, Loading
<1>2. ASSUME UNCHANGED snapshot PROVE snapshot'.seen >= snapshot.seen
  BY <1>2 DEF Advancing, Types
<1>3. UNCHANGED snapshot \/ \E c \in Computations : Publish(c)
  BY DEF Next, Step, vars, table, Acquire, Refuse, LoadVotes, LoadPapers,
         LoadCompletion, LoadHistory, LoadBatches, Release, Fail, Crash, Expire, Submit,
         SetInvalidated,
         Answer, Elsewhere
<1> QED BY <1>1, <1>2, <1>3

(* compute_all, "Compute already in progress": results never go back.        *)
THEOREM SnapshotsAdvance == MayOverrun = FALSE /\ Spec => SnapshotNeverRegresses
<1> SUFFICES ASSUME MayOverrun = FALSE PROVE Spec => SnapshotNeverRegresses
  OBVIOUS
<1>1. Advancing /\ [Next]_vars => Advancing'
  BY AdvancingStep
<1>2. Advancing /\ [Next]_vars => [snapshot'.seen >= snapshot.seen]_vars
  BY PublishAdvances
<1> QED BY <1>1, <1>2, AdvancingInit, PTL DEF Spec, SnapshotNeverRegresses

-----------------------------------------------------------------------------
(* Induction over the subsets of a finite set, smaller ones first. *)
LEMMA Shrink ==
  ASSUME NEW S, IsFiniteSet(S), NEW Q,
         \A T \in SUBSET S : (\A x \in T : T \ {x} \in Q) => T \in Q
  PROVE  SUBSET S \subseteq Q
<1> DEFINE bad == (SUBSET S) \ Q
           less == StrictSubsetOrdering(S)
<1> SUFFICES ASSUME bad # {} PROVE FALSE
  OBVIOUS
<1>1. IsWellFoundedOn(less, FiniteSubsetsOf(S))
  BY FS_StrictSubsetOrderingWellFounded
<1>2. bad \subseteq FiniteSubsetsOf(S)
  BY FS_Subset DEF FiniteSubsetsOf
<1>3. PICK T \in bad : \A U \in bad : <<U, T>> \notin less
  <2> HIDE DEF bad, less
  <2> QED BY <1>1, <1>2, WFMin
<1>4. PICK x \in T : T \ {x} \notin Q
  BY <1>3
<1>5. T \ {x} \in bad
  BY <1>3, <1>4
<1>6. <<T \ {x}, T>> \in less
  BY <1>2, <1>3, <1>4, <1>5 DEF StrictSubsetOrdering, FiniteSubsetsOf
<1> QED BY <1>3, <1>5, <1>6

(* Induction over the numbers up to M. *)
LEMMA Climb ==
  ASSUME NEW M \in Nat, NEW S, 0 \in S, \A n \in 0..M - 1 : n \in S => n + 1 \in S
  PROVE  0..M \subseteq S
<1> DEFINE bad == (0..M) \ S
           T == {0..i : i \in bad}
           less == StrictSubsetOrdering(0..M)
<1> SUFFICES ASSUME bad # {} PROVE FALSE
  OBVIOUS
<1>1. IsWellFoundedOn(less, FiniteSubsetsOf(0..M))
  BY FS_Interval, FS_StrictSubsetOrderingWellFounded
<1>2. T \subseteq FiniteSubsetsOf(0..M) /\ T # {}
  <2>1. \A i \in bad : 0..i \subseteq 0..M /\ IsFiniteSet(0..i)
    BY FS_Interval
  <2> QED BY <2>1 DEF FiniteSubsetsOf
<1>3. PICK R \in T : \A Q \in T : <<Q, R>> \notin less
  <2> HIDE DEF T, less
  <2> QED BY <1>1, <1>2, WFMin
<1>4. PICK i \in bad : R = 0..i
  BY <1>3
<1>5. i - 1 \in bad
  BY <1>4
<1>6. 0..i - 1 \subseteq 0..i /\ i \in 0..i /\ i \notin 0..i - 1
  BY <1>4
<1>7. 0..i - 1 \in T /\ 0..i \in T
  BY <1>4, <1>5
<1>8. <<0..i - 1, 0..i>> \in less
  BY <1>6, <1>7, <1>2 DEF StrictSubsetOrdering, FiniteSubsetsOf
<1> QED BY <1>3, <1>4, <1>7, <1>8

(* What the folds of the community modules compute: w[T] is the sum of f over T. *)
IsSum(w, f, S) ==
  w = [T \in SUBSET S |->
         IF T = {} THEN 0
         ELSE f[CHOOSE x \in T : TRUE] + w[T \ {CHOOSE x \in T : TRUE}]]

(* There is one sum. *)
LEMMA SumUnique ==
  ASSUME NEW S, IsFiniteSet(S), NEW f, NEW u, NEW w, IsSum(u, f, S), IsSum(w, f, S)
  PROVE  u = w
<1> DEFINE Q == {T \in SUBSET S : u[T] = w[T]}
<1>1. ASSUME NEW T \in SUBSET S, \A x \in T : T \ {x} \in Q PROVE T \in Q
  <2> DEFINE x == CHOOSE x \in T : TRUE
  <2>1. CASE T = {}
    BY <2>1 DEF IsSum
  <2>2. CASE T # {}
    <3>1. x \in T /\ T \ {x} \in SUBSET S
      BY <2>2
    <3>2. u[T] = f[x] + u[T \ {x}] /\ w[T] = f[x] + w[T \ {x}]
      BY <2>2 DEF IsSum
    <3> QED BY <1>1, <3>1, <3>2
  <2> QED BY <2>1, <2>2
<1>2. SUBSET S \subseteq Q
  <2> HIDE DEF Q
  <2> QED BY <1>1, Shrink
<1>3. DOMAIN u = SUBSET S /\ DOMAIN w = SUBSET S
  BY DEF IsSum
<1>4. u = [T \in SUBSET S |-> u[T]] /\ w = [T \in SUBSET S |-> w[T]]
  BY DEF IsSum
<1> QED BY <1>2, <1>4

(* There is a sum of integers over a finite set: built by the size of the   *)
(* subsets.                                                                 *)
LEMMA SumExists ==
  ASSUME NEW S, IsFiniteSet(S), NEW f \in [S -> Int]
  PROVE  \E w \in [SUBSET S -> Int] : IsSum(w, f, S)
<1> DEFINE Upto(n) == {T \in SUBSET S : Cardinality(T) <= n}
           Part(w, n) ==
             w = [T \in Upto(n) |->
                    IF T = {} THEN 0
                    ELSE f[CHOOSE x \in T : TRUE] + w[T \ {CHOOSE x \in T : TRUE}]]
           P == {n \in Nat : \E w \in [Upto(n) -> Int] : Part(w, n)}
           M == Cardinality(S)
<1>1. M \in Nat /\ \A T \in SUBSET S :
                IsFiniteSet(T) /\ Cardinality(T) \in Nat /\ Cardinality(T) <= M
                /\ \A x \in T : Cardinality(T \ {x}) = Cardinality(T) - 1
  BY FS_CardinalityType, FS_Subset, FS_RemoveElement
<1>2. 0 \in P
  <2> DEFINE w == [T \in Upto(0) |-> 0]
  <2>1. \A T \in Upto(0) : T = {}
    BY <1>1, FS_EmptySet
  <2>2. w \in [Upto(0) -> Int] /\ Part(w, 0)
    BY <2>1
  <2> QED BY <2>2
<1>3. ASSUME NEW n \in 0..M - 1, n \in P PROVE n + 1 \in P
  <2>1. PICK w \in [Upto(n) -> Int] : Part(w, n)
    BY <1>3
  <2> DEFINE one(T) == CHOOSE x \in T : TRUE
             u == [T \in Upto(n + 1) |-> IF T = {} THEN 0 ELSE f[one(T)] + w[T \ {one(T)}]]
  <2>2. ASSUME NEW T \in Upto(n + 1), T # {} PROVE one(T) \in S /\ T \ {one(T)} \in Upto(n)
    <3>1. one(T) \in T /\ T \in SUBSET S /\ Cardinality(T) <= n + 1
      BY <2>2
    <3>2. T \ {one(T)} \in SUBSET S /\ Cardinality(T \ {one(T)}) = Cardinality(T) - 1
          /\ Cardinality(T) \in Nat
      BY <3>1, <1>1
    <3> HIDE DEF one
    <3> QED BY <3>1, <3>2
  <2>3. u \in [Upto(n + 1) -> Int]
    <3> HIDE DEF one, Upto
    <3> QED BY <2>2
  <2>4. ASSUME NEW T \in Upto(n) PROVE T \in Upto(n + 1) /\ u[T] = w[T]
    <3>1. T \in Upto(n + 1)
      BY <1>1, <2>4
    <3>2. w[T] = IF T = {} THEN 0 ELSE f[one(T)] + w[T \ {one(T)}]
      <4> HIDE DEF Upto
      <4> QED BY <2>1
    <3> HIDE DEF one, Upto
    <3> QED BY <3>1, <3>2
  <2>5. Part(u, n + 1)
    <3>1. \A T \in Upto(n + 1) : T # {} => w[T \ {one(T)}] = u[T \ {one(T)}]
      <4> HIDE DEF one, Upto, u
      <4> QED BY <2>2, <2>4
    <3>2. u = [T \in Upto(n + 1) |-> IF T = {} THEN 0 ELSE f[one(T)] + u[T \ {one(T)}]]
      <4> HIDE DEF one, Upto
      <4> QED BY <3>1
    <3> QED BY <3>2
  <2>6. n + 1 \in Nat
    OBVIOUS
  <2> HIDE DEF u, Upto, Part
  <2> QED BY <2>3, <2>5, <2>6
<1>4. M \in P
  <2> HIDE DEF P
  <2> QED BY <1>1, <1>2, <1>3, Climb
<1>5. Upto(M) = SUBSET S
  BY <1>1
<1> QED BY <1>4, <1>5 DEF IsSum

Sum(f, S) == (CHOOSE w \in [SUBSET S -> Int] : IsSum(w, f, S))[S]

(* Whatever unfolds like the fold is its value. *)
LEMMA SumIs ==
  ASSUME NEW S, IsFiniteSet(S), NEW f \in [S -> Int], NEW w, IsSum(w, f, S)
  PROVE  w \in [SUBSET S -> Int] /\ Sum(f, S) = w[S] /\ Sum(f, S) \in Int
<1> DEFINE u == CHOOSE u \in [SUBSET S -> Int] : IsSum(u, f, S)
<1>1. u \in [SUBSET S -> Int] /\ IsSum(u, f, S)
  BY SumExists
<1>2. u = w
  <2> HIDE DEF u
  <2> QED BY <1>1, SumUnique
<1>3. Sum(f, S) = u[S]
  BY DEF Sum
<1> QED BY <1>1, <1>2, <1>3

(* A sum of integers is an integer. *)
LEMMA SumType ==
  ASSUME NEW S, IsFiniteSet(S), NEW f \in [S -> Int] PROVE Sum(f, S) \in Int
BY SumExists, SumIs

(* Sums are added member by member. *)
LEMMA SumAdds ==
  ASSUME NEW S, IsFiniteSet(S), NEW f \in [S -> Int], NEW g \in [S -> Int]
  PROVE  Sum([x \in S |-> f[x] + g[x]], S) = Sum(f, S) + Sum(g, S)
<1>1. PICK u \in [SUBSET S -> Int] : IsSum(u, f, S)
  BY SumExists
<1>2. PICK w \in [SUBSET S -> Int] : IsSum(w, g, S)
  BY SumExists
<1> DEFINE both == [x \in S |-> f[x] + g[x]]
           r == [T \in SUBSET S |-> u[T] + w[T]]
<1>3. both \in [S -> Int]
  OBVIOUS
<1>4. IsSum(r, both, S)
  <2>1. ASSUME NEW T \in SUBSET S, T # {}, NEW x, x = CHOOSE y \in T : TRUE
        PROVE  r[T] = both[x] + r[T \ {x}]
    <3>1. x \in S /\ T \ {x} \in SUBSET S
      BY <2>1
    <3>2. u[T] = f[x] + u[T \ {x}] /\ w[T] = g[x] + w[T \ {x}]
      BY <1>1, <1>2, <2>1 DEF IsSum
    <3>3. u[T] \in Int /\ w[T] \in Int /\ u[T \ {x}] \in Int /\ w[T \ {x}] \in Int
          /\ f[x] \in Int /\ g[x] \in Int
      BY <1>1, <1>2, <3>1
    <3>4. r[T] = u[T] + w[T] /\ r[T \ {x}] = u[T \ {x}] + w[T \ {x}] /\ both[x] = f[x] + g[x]
      BY <3>1
    <3> QED BY <3>2, <3>3, <3>4
  <2>2. r[{}] = 0
    BY <1>1, <1>2 DEF IsSum
  <2>3. \A T \in SUBSET S :
          r[T] = IF T = {} THEN 0
                 ELSE both[CHOOSE x \in T : TRUE] + r[T \ {CHOOSE x \in T : TRUE}]
    <3> HIDE DEF r, both
    <3> QED BY <2>1, <2>2
  <2>4. r = [T \in SUBSET S |-> r[T]]
    OBVIOUS
  <2> HIDE DEF r, both
  <2> QED BY <2>3, <2>4 DEF IsSum
<1>5. Sum(both, S) = r[S]
  <2> HIDE DEF r, both
  <2> QED BY <1>3, <1>4, SumIs
<1>6. Sum(f, S) = u[S] /\ Sum(g, S) = w[S]
  BY <1>1, <1>2, SumIs
<1> QED BY <1>5, <1>6

AnyOrder(w, f, S) == \A T \in SUBSET S : \A x \in T : w[T] = f[x] + w[T \ {x}]

(* The order of the fold does not matter. *)
LEMMA SumAnyOrder ==
  ASSUME NEW S, IsFiniteSet(S), NEW f \in [S -> Int], NEW w, IsSum(w, f, S)
  PROVE  AnyOrder(w, f, S)
<1> DEFINE Q == {R \in SUBSET S : \A y \in R : w[R] = f[y] + w[R \ {y}]}
<1>1. w \in [SUBSET S -> Int]
  BY SumIs
<1>2. ASSUME NEW R \in SUBSET S, \A y \in R : R \ {y} \in Q PROVE R \in Q
  <2> SUFFICES ASSUME NEW y \in R PROVE w[R] = f[y] + w[R \ {y}]
    OBVIOUS
  <2>1. PICK c \in R : w[R] = f[c] + w[R \ {c}]
    BY DEF IsSum
  <2>2. CASE c = y
    BY <2>1, <2>2
  <2>3. CASE c # y
    <3>1. w[R \ {c}] = f[y] + w[(R \ {c}) \ {y}] /\ w[R \ {y}] = f[c] + w[(R \ {y}) \ {c}]
      BY <1>2, <2>3
    <3>2. (R \ {c}) \ {y} = (R \ {y}) \ {c}
      OBVIOUS
    <3>3. f[c] \in Int /\ f[y] \in Int /\ w[(R \ {c}) \ {y}] \in Int
      BY <1>1
    <3>4. w[R \ {c}] = f[y] + w[(R \ {c}) \ {y}] /\ w[R \ {y}] = f[c] + w[(R \ {c}) \ {y}]
      BY <3>1, <3>2
    <3>5. w[R] = f[c] + w[R \ {c}]
      BY <2>1
    <3>6. \A a, b, p, q, z \in Int : p = b + z /\ q = a + z => a + p = b + q
      OBVIOUS
    <3>7. w[R \ {c}] \in Int /\ w[R \ {y}] \in Int
      BY <1>1
    <3> QED BY <3>3, <3>4, <3>5, <3>6, <3>7
  <2> QED BY <2>2, <2>3
<1>3. SUBSET S \subseteq Q
  <2> HIDE DEF Q
  <2> QED BY <1>2, Shrink
<1> QED BY <1>3 DEF AnyOrder

(* Differences add up to the last value. *)
LEMMA SumTelescopes ==
  ASSUME NEW n \in Nat, NEW S, S = 1..n, NEW f \in [S -> Int], NEW g \in [0..n -> Int],
         g[0] = 0, \A i \in 1..n : f[i] = g[i] - g[i - 1]
  PROVE  Sum(f, S) = g[n]
<1>1. IsFiniteSet(S)
  BY FS_Interval
<1>2. PICK w : IsSum(w, f, S)
  BY <1>1, SumExists
<1> DEFINE P == {m \in 0..n : w[1..m] = g[m]}
<1>3. 0 \in P
  <2>1. w[{}] = 0 /\ 1..0 = {}
    BY <1>2 DEF IsSum
  <2> QED BY <2>1
<1>4. AnyOrder(w, f, S)
  BY <1>1, <1>2, SumAnyOrder
<1>5. ASSUME NEW m \in 0..n - 1, m \in P PROVE m + 1 \in P
  <2>1. m \in Nat /\ m + 1 <= n
    OBVIOUS
  <2>2. (1..m + 1) \ {m + 1} = 1..m
    <3>1. ASSUME NEW i \in (1..m + 1) \ {m + 1} PROVE i \in 1..m
      BY <2>1
    <3>2. ASSUME NEW i \in 1..m PROVE i \in 1..m + 1 /\ i # m + 1
      BY <2>1
    <3> QED BY <3>1, <3>2
  <2>3. 1..m + 1 \in SUBSET S /\ m + 1 \in 1..m + 1
    BY <2>1
  <2>4. w[1..m + 1] = f[m + 1] + w[1..m]
    BY <1>4, <2>2, <2>3 DEF AnyOrder
  <2>5. f[m + 1] = g[m + 1] - g[m] /\ g[m + 1] \in Int /\ g[m] \in Int
    BY <2>1
  <2>6. w[1..m + 1] = g[m + 1]
    BY <1>5, <2>4, <2>5
  <2> QED BY <2>6
<1>6. n \in P
  <2>1. 0..n \subseteq P
    <3> HIDE DEF P
    <3> QED BY <1>3, <1>5, Climb
  <2> QED BY <2>1
<1> QED BY <1>1, <1>2, <1>6, SumIs

(* A sum of ones counts. *)
LEMMA SumCounts ==
  ASSUME NEW S, IsFiniteSet(S), NEW A \in SUBSET S
  PROVE  Sum([x \in S |-> IF x \in A THEN 1 ELSE 0], S) = Cardinality(A)
<1> DEFINE f == [x \in S |-> IF x \in A THEN 1 ELSE 0]
           w == [T \in SUBSET S |-> Cardinality(T \cap A)]
<1>1. f \in [S -> Int]
  OBVIOUS
<1>2. IsSum(w, f, S)
  <2>1. ASSUME NEW T \in SUBSET S, T # {}, NEW x, x = CHOOSE y \in T : TRUE
        PROVE  w[T] = f[x] + w[T \ {x}]
    <3>1. x \in T /\ T \ {x} \in SUBSET S
      BY <2>1
    <3>2. IsFiniteSet(T \cap A) /\ (T \ {x}) \cap A = (T \cap A) \ {x}
      BY FS_Subset
    <3>3. Cardinality((T \cap A) \ {x})
            = IF x \in T \cap A THEN Cardinality(T \cap A) - 1 ELSE Cardinality(T \cap A)
      BY <3>2, FS_RemoveElement
    <3>4. Cardinality(T \cap A) \in Nat
      BY <3>2, FS_CardinalityType
    <3>5. w[T] = Cardinality(T \cap A) /\ w[T \ {x}] = Cardinality((T \cap A) \ {x})
      BY <3>1, <3>2
    <3>6. CASE x \in A
      <4>1. f[x] = 1 /\ x \in T \cap A
        BY <3>1, <3>6
      <4> HIDE DEF w, f
      <4> QED BY <4>1, <3>3, <3>4, <3>5
    <3>7. CASE x \notin A
      <4>1. f[x] = 0 /\ x \notin T \cap A
        BY <3>1, <3>7
      <4> HIDE DEF w, f
      <4> QED BY <4>1, <3>3, <3>4, <3>5
    <3> QED BY <3>6, <3>7
  <2>2. w[{}] = 0
    BY FS_EmptySet
  <2>3. \A T \in SUBSET S :
          w[T] = IF T = {} THEN 0
                 ELSE f[CHOOSE x \in T : TRUE] + w[T \ {CHOOSE x \in T : TRUE}]
    <3> HIDE DEF w, f
    <3> QED BY <2>1, <2>2
  <2>4. w = [T \in SUBSET S |-> w[T]]
    OBVIOUS
  <2> HIDE DEF w, f
  <2> QED BY <2>3, <2>4 DEF IsSum
<1>3. Sum(f, S) = w[S]
  <2> HIDE DEF w, f
  <2> QED BY <1>1, <1>2, SumIs
<1>4. S \cap A = A
  OBVIOUS
<1> QED BY <1>3, <1>4

(* The members of a set, counted label by label. *)
LEMMA SumLabels ==
  ASSUME NEW A, IsFiniteSet(A), NEW G, IsFiniteSet(G), NEW label \in [A -> G]
  PROVE  Sum([g \in G |-> Cardinality({v \in A : label[v] = g})], G) = Cardinality(A)
<1> DEFINE f == [g \in G |-> Cardinality({v \in A : label[v] = g})]
           w == [T \in SUBSET G |-> Cardinality({v \in A : label[v] \in T})]
<1>1. f \in [G -> Int]
  <2>1. ASSUME NEW g \in G PROVE Cardinality({v \in A : label[v] = g}) \in Int
    BY FS_Subset, FS_CardinalityType
  <2> QED BY <2>1
<1>2. IsSum(w, f, G)
  <2>1. ASSUME NEW T \in SUBSET G, T # {}, NEW x, x = CHOOSE y \in T : TRUE
        PROVE  w[T] = f[x] + w[T \ {x}]
    <3> DEFINE X == {v \in A : label[v] = x}
               Y == {v \in A : label[v] \in T \ {x}}
               Z == {v \in A : label[v] \in T}
    <3>1. x \in T /\ T \ {x} \in SUBSET G
      BY <2>1
    <3>2. IsFiniteSet(X) /\ IsFiniteSet(Y)
      BY FS_Subset
    <3>3. X \cup Y = Z /\ X \cap Y = {}
      BY <3>1
    <3>4. Cardinality(X \cup Y) = Cardinality(X) + Cardinality(Y) - Cardinality(X \cap Y)
      BY <3>2, FS_Union
    <3>5. Cardinality({}) = 0 /\ Cardinality(X) \in Nat /\ Cardinality(Y) \in Nat
      BY <3>2, FS_EmptySet, FS_CardinalityType
    <3>6. Cardinality(Z) = Cardinality(X) + Cardinality(Y)
      <4>1. Cardinality(Z) = Cardinality(X \cup Y) /\ Cardinality(X \cap Y) = 0
        <5> HIDE DEF X, Y, Z
        <5> QED BY <3>3, <3>5
      <4> HIDE DEF X, Y, Z
      <4> QED BY <4>1, <3>4, <3>5
    <3> QED BY <3>1, <3>6
  <2>2. w[{}] = 0
    <3>1. {v \in A : label[v] \in {}} = {}
      OBVIOUS
    <3> QED BY <3>1, FS_EmptySet
  <2>3. \A T \in SUBSET G :
          w[T] = IF T = {} THEN 0
                 ELSE f[CHOOSE x \in T : TRUE] + w[T \ {CHOOSE x \in T : TRUE}]
    <3> HIDE DEF w, f
    <3> QED BY <2>1, <2>2
  <2>4. w = [T \in SUBSET G |-> w[T]]
    OBVIOUS
  <2> HIDE DEF w, f
  <2> QED BY <2>3, <2>4 DEF IsSum
<1>3. Sum(f, G) = w[G]
  <2> HIDE DEF w, f
  <2> QED BY <1>1, <1>2, SumIs
<1>4. {v \in A : label[v] \in G} = A
  OBVIOUS
<1> QED BY <1>3, <1>4

(* SumOf is such a sum. *)
LEMMA FoldIsSum ==
  ASSUME NEW f, IsFiniteSet(DOMAIN f), f \in [DOMAIN f -> Int]
  PROVE  SumOf(f) = Sum(f, DOMAIN f)
<1> DEFINE S == DOMAIN f
           fold == CHOOSE w : w = [T \in SUBSET S |->
                     IF T = {} THEN 0
                     ELSE f[CHOOSE x \in T : TRUE] + w[T \ {CHOOSE x \in T : TRUE}]]
<1>1. SumOf(f) = fold[S]
  BY DEF SumOf, MapThenSumSet, MapThenFoldSet
<1>2. IsSum(fold, f, S)
  <2>1. \E w : IsSum(w, f, S)
    BY SumExists
  <2>2. fold = CHOOSE w : IsSum(w, f, S)
    BY DEF IsSum
  <2> HIDE DEF fold
  <2> QED BY <2>1, <2>2
<1> HIDE DEF fold
<1> QED BY <1>1, <1>2, SumIs

(* Where one more than the number of larger values is the place of a tie. *)
Larger(f, D, i) == {x \in D : f[x] > f[i]}

IsRank(rank, f, D) ==
  rank = [i \in D |-> IF i > 1 /\ f[i] = f[i - 1] THEN rank[i - 1] ELSE i]

(* Counting the larger values obeys the recursion of display_rank. *)
LEMMA RankCounts ==
  ASSUME NEW n \in Nat, NEW D, D = 1..n, NEW f, \A i \in D : f[i] \in Nat,
         \A i, j \in D : i < j => f[i] >= f[j]
  PROVE  /\ \A i \in D : 1 + Cardinality(Larger(f, D, i)) \in Nat
         /\ IsRank([i \in D |-> 1 + Cardinality(Larger(f, D, i))], f, D)
<1> DEFINE rank == [i \in D |-> 1 + Cardinality(Larger(f, D, i))]
<1>1. \A i \in D : IsFiniteSet(Larger(f, D, i)) /\ Cardinality(Larger(f, D, i)) \in Nat
  <2>1. IsFiniteSet(D)
    BY FS_Interval
  <2>2. \A i \in D : Larger(f, D, i) \in SUBSET D
    BY DEF Larger
  <2> QED BY <2>1, <2>2, FS_Subset, FS_CardinalityType
<1>2. ASSUME NEW i \in D PROVE rank[i] = IF i > 1 /\ f[i] = f[i - 1] THEN rank[i - 1] ELSE i
  <2>0. i \in Nat /\ i >= 1 /\ (i > 1 => i - 1 \in D)
    OBVIOUS
  <2>1. CASE i > 1 /\ f[i] = f[i - 1]
    <3>1. Larger(f, D, i) = Larger(f, D, i - 1)
      BY <2>1 DEF Larger
    <3> QED BY <2>0, <2>1, <3>1
  <2>2. CASE ~ (i > 1 /\ f[i] = f[i - 1])
    <3>1. ASSUME NEW x \in D, x >= i PROVE ~ f[x] > f[i]
      BY <2>0, <3>1
    <3>2. ASSUME NEW x \in D, x < i PROVE f[x] > f[i]
      <4>1. i > 1 /\ i - 1 \in D /\ f[i] # f[i - 1] /\ x <= i - 1 /\ x \in Nat
        BY <2>0, <2>2, <3>2
      <4>2. f[x] >= f[i - 1] /\ f[i - 1] >= f[i]
        <5>1. f[x] \in Nat /\ f[i - 1] \in Nat
          BY <4>1
        <5>2. CASE x = i - 1
          BY <4>1, <5>1, <5>2
        <5>3. CASE x < i - 1
          BY <4>1, <5>3
        <5> QED BY <4>1, <5>2, <5>3
      <4> QED BY <4>1, <4>2
    <3>3. Larger(f, D, i) = 1..i - 1
      <4>1. ASSUME NEW x \in 1..i - 1 PROVE x \in D /\ x < i
        BY <2>0
      <4>2. ASSUME NEW x \in D, x < i PROVE x \in 1..i - 1
        BY <2>0, <4>2
      <4>3. \A x \in D : x \in Int
        OBVIOUS
      <4>4. ASSUME NEW x \in Larger(f, D, i) PROVE x \in 1..i - 1
        <5>1. x \in D /\ f[x] > f[i]
          BY DEF Larger
        <5>2. x < i
          BY <5>1, <3>1, <4>3, <2>0
        <5> QED BY <5>1, <5>2, <4>2
      <4>5. ASSUME NEW x \in 1..i - 1 PROVE x \in Larger(f, D, i)
        BY <4>1, <3>2 DEF Larger
      <4> QED BY <4>4, <4>5
    <3>4. Cardinality(1..i - 1) = i - 1
      BY <2>0, FS_Interval
    <3>5. rank[i] = 1 + Cardinality(1..i - 1)
      BY <3>3
    <3> QED BY <2>0, <2>2, <3>4, <3>5
  <2> QED BY <2>1, <2>2
<1>3. rank = [i \in D |-> rank[i]]
  OBVIOUS
<1>4. IsRank(rank, f, D)
  <2> HIDE DEF rank
  <2> QED BY <1>2, <1>3 DEF IsRank
<1> QED BY <1>1, <1>4

(* Nothing else does. *)
LEMMA RankUnique ==
  ASSUME NEW n \in Nat, NEW D, D = 1..n, NEW f, NEW u, IsRank(u, f, D), NEW w, IsRank(w, f, D)
  PROVE  u = w
<1> DEFINE P == {m \in 0..n : m = 0 \/ u[m] = w[m]}
<1>1. \A i \in D : /\ u[i] = IF i > 1 /\ f[i] = f[i - 1] THEN u[i - 1] ELSE i
                   /\ w[i] = IF i > 1 /\ f[i] = f[i - 1] THEN w[i - 1] ELSE i
  BY DEF IsRank
<1>2. ASSUME NEW m \in 0..n - 1, m \in P PROVE m + 1 \in P
  <2>1. m + 1 \in D /\ m + 1 \in 0..n /\ (m + 1 > 1 => m # 0) /\ (m + 1) - 1 = m
    OBVIOUS
  <2>2. u[m + 1] = w[m + 1]
    BY <1>1, <1>2, <2>1
  <2> QED BY <2>1, <2>2
<1>3. 0..n \subseteq P
  <2>1. 0 \in P
    OBVIOUS
  <2> HIDE DEF P
  <2> QED BY <1>2, <2>1, Climb
<1>4. \A i \in D : u[i] = w[i]
  <2>1. \A i \in D : i \in 0..n /\ i # 0
    OBVIOUS
  <2> QED BY <1>3, <2>1
<1>5. u = [i \in D |-> u[i]] /\ w = [i \in D |-> w[i]]
  BY DEF IsRank
<1> QED BY <1>4, <1>5

CountsDown(vs, s) ==
  /\ \E n \in Nat : DOMAIN s = 1..n
  /\ \A i \in DOMAIN s : VoteCount(vs, s[i]) \in Nat
  /\ \A i, j \in DOMAIN s : i < j => VoteCount(vs, s[i]) >= VoteCount(vs, s[j])

(* DisplayRank is well defined and counts. *)
LEMMA DisplayRankIs ==
  ASSUME NEW vs, NEW s, CountsDown(vs, s)
  PROVE  \A i \in DOMAIN s : DisplayRank(vs, s)[i]
           = 1 + Cardinality({x \in DOMAIN s : VoteCount(vs, s[x]) > VoteCount(vs, s[i])})
<1> DEFINE D == DOMAIN s
           f == [i \in D |-> VoteCount(vs, s[i])]
           rank == CHOOSE r : r = [i \in D |->
                     IF i > 1 /\ VoteCount(vs, s[i]) = VoteCount(vs, s[i - 1])
                       THEN r[i - 1] ELSE i]
           count == [i \in D |-> 1 + Cardinality(Larger(f, D, i))]
<1>0. PICK n \in Nat : D = 1..n
  BY DEF CountsDown
<1>1. DisplayRank(vs, s) = rank
  BY DEF DisplayRank
<1>2. \A r : IsRank(r, f, D) <=> r = [i \in D |->
                     IF i > 1 /\ VoteCount(vs, s[i]) = VoteCount(vs, s[i - 1])
                       THEN r[i - 1] ELSE i]
  <2>1. \A i \in D : i > 1 => i - 1 \in D
    BY <1>0
  <2>2. \A i \in D : (i > 1 /\ f[i] = f[i - 1])
                       <=> (i > 1 /\ VoteCount(vs, s[i]) = VoteCount(vs, s[i - 1]))
    BY <2>1
  <2> HIDE DEF f
  <2> QED BY <2>2 DEF IsRank
<1>3. IsRank(count, f, D)
  <2>1. \A i \in D : f[i] \in Nat
    BY DEF CountsDown
  <2>2. \A i, j \in D : i < j => f[i] >= f[j]
    BY DEF CountsDown
  <2>3. D = 1..n
    BY <1>0
  <2> HIDE DEF f, D
  <2> QED BY <2>1, <2>2, <2>3, RankCounts
<1>4. IsRank(rank, f, D)
  <2> HIDE DEF f, count
  <2> QED BY <1>2, <1>3
<1>5. rank = count
  <2> HIDE DEF f, count, rank
  <2> QED BY <1>0, <1>3, <1>4, RankUnique
<1>6. ASSUME NEW i \in D
      PROVE  Larger(f, D, i) = {x \in D : VoteCount(vs, s[x]) > VoteCount(vs, s[i])}
  BY DEF Larger
<1> HIDE DEF rank
<1> QED BY <1>1, <1>5, <1>6


(* A function on a finite set has a finite range. *)
LEMMA ImageFinite ==
  ASSUME NEW f, IsFiniteSet(DOMAIN f) PROVE IsFiniteSet(Range(f))
<1> DEFINE g == [x \in DOMAIN f |-> f[x]]
<1>1. g \in Surjection(DOMAIN f, Range(f))
  BY DEF Surjection, Range
<1> QED BY <1>1, FS_Surjection

(* A ballot names finitely many candidates or couples. *)
LEMMA KeysFinite ==
  ASSUME NEW items, IsFiniteSet(DOMAIN items) PROVE IsFiniteSet(Keys(items))
<1> DEFINE f == [i \in DOMAIN items |-> Key(items[i])]
<1>1. IsFiniteSet(Range(f))
  <2>1. DOMAIN f = DOMAIN items
    OBVIOUS
  <2> HIDE DEF f
  <2> QED BY <2>1, ImageFinite
<1>2. Keys(items) = Range(f) \ {<<>>}
  BY DEF Keys, Range
<1> QED BY <1>1, <1>2, FS_RemoveElement

(* Ballots as they are loaded: of finitely many voters, of finitely many items. *)
Loadable(vs) == IsFiniteSet(DOMAIN vs) /\ \A v \in DOMAIN vs : IsFiniteSet(DOMAIN vs[v])

Named(vs) == UNION {Keys(vs[v]) : v \in DOMAIN vs}

(* All ballots name finitely many. *)
LEMMA NamedFinite ==
  ASSUME NEW vs, Loadable(vs) PROVE IsFiniteSet(Named(vs))
<1> DEFINE Of(T) == UNION {Keys(vs[v]) : v \in T}
           Q == {T \in SUBSET (DOMAIN vs) : IsFiniteSet(Of(T))}
<1>1. ASSUME NEW T \in SUBSET (DOMAIN vs), \A x \in T : T \ {x} \in Q PROVE T \in Q
  <2>1. CASE T = {}
    <3>1. Of(T) = {}
      BY <2>1
    <3> QED BY <3>1, FS_EmptySet
  <2>2. ASSUME NEW x \in T PROVE T \in Q
    <3>1. IsFiniteSet(Of(T \ {x})) /\ IsFiniteSet(Keys(vs[x]))
      BY <1>1, KeysFinite DEF Loadable
    <3>2. Of(T) = Of(T \ {x}) \cup Keys(vs[x])
      <4>1. \A k : k \in Of(T) => k \in Of(T \ {x}) \cup Keys(vs[x])
        OBVIOUS
      <4>2. \A k : k \in Of(T \ {x}) \cup Keys(vs[x]) => k \in Of(T)
        OBVIOUS
      <4> HIDE DEF Of
      <4> QED BY <4>1, <4>2
    <3>3. IsFiniteSet(Of(T))
      <4> HIDE DEF Of
      <4> QED BY <3>1, <3>2, FS_Union
    <3> QED BY <3>3
  <2> QED BY <2>1, <2>2
<1>2. SUBSET (DOMAIN vs) \subseteq Q
  <2>1. IsFiniteSet(DOMAIN vs)
    BY DEF Loadable
  <2> HIDE DEF Q
  <2> QED BY <1>1, <2>1, Shrink
<1>3. DOMAIN vs \in Q
  <2> HIDE DEF Q
  <2> QED BY <1>2
<1> QED BY <1>3 DEF Named

(* Votes and firsts are numbers. *)
LEMMA CountsAreNat ==
  ASSUME NEW vs, IsFiniteSet(DOMAIN vs), NEW k
  PROVE  VoteCount(vs, k) \in Nat /\ FirstCount(vs, k) \in Nat
BY FS_Subset, FS_CardinalityType DEF VoteCount, FirstCount

Descends(vs, x, y) ==
  \/ VoteCount(vs, x) > VoteCount(vs, y)
  \/ VoteCount(vs, x) = VoteCount(vs, y) /\ FirstCount(vs, x) >= FirstCount(vs, y)

(* What Orders(vs) promises: more votes first, then more firsts. *)
LEMMA OrdersDescend ==
  ASSUME NEW vs, Loadable(vs), NEW s \in Orders(vs)
  PROVE  /\ \E n \in Nat : DOMAIN s = 1..n
         /\ \A i, j \in DOMAIN s : i < j => Descends(vs, s[i], s[j])
<1> DEFINE X == {k \in UNION {Keys(vs[v]) : v \in DOMAIN vs} : VoteCount(vs, k) >= MinVotes}
           n == Cardinality(X)
<1>1. \A k : VoteCount(vs, k) \in Nat /\ FirstCount(vs, k) \in Nat
  BY CountsAreNat DEF Loadable
<1>2. X \in SUBSET Named(vs)
  BY DEF Named
<1>3. n \in Nat
  <2> HIDE DEF X
  <2> QED BY <1>2, NamedFinite, FS_Subset, FS_CardinalityType
<1>4. s \in [1..n -> X] /\ \A i \in 1..(Len(s) - 1) : ~ Precedes(vs, s[i + 1], s[i])
  <2>1. s \in SetToSeqs(X) /\ \A i \in 1..(Len(s) - 1) : ~ Precedes(vs, s[i + 1], s[i])
    BY DEF Orders
  <2> HIDE DEF X
  <2> QED BY <2>1 DEF SetToSeqs
<1>5. DOMAIN s = 1..n /\ Len(s) = n
  <2> HIDE DEF X, n
  <2> QED BY <1>3, <1>4
<1>6. ASSUME NEW i \in 1..n, NEW j \in 0..n, i < j, NEW k, k = j + 1, k \in 1..n,
             Descends(vs, s[i], s[j])
      PROVE  Descends(vs, s[i], s[k])
  <2>1. j \in 1..(Len(s) - 1)
    BY <1>3, <1>5, <1>6
  <2>2. ~ Precedes(vs, s[k], s[j])
    BY <1>4, <1>6, <2>1
  <2> HIDE DEF X, n
  <2> QED BY <1>1, <1>6, <2>2 DEF Descends, Precedes
<1>7. ASSUME NEW i \in 1..n, NEW k, k = i + 1, k \in 1..n PROVE Descends(vs, s[i], s[k])
  <2>1. i \in 1..(Len(s) - 1)
    BY <1>3, <1>5, <1>7
  <2>2. ~ Precedes(vs, s[k], s[i])
    BY <1>4, <1>7, <2>1
  <2> HIDE DEF X, n
  <2> QED BY <1>1, <2>2 DEF Descends, Precedes
<1>8. ASSUME NEW i \in 1..n PROVE \A j \in 1..n : i < j => Descends(vs, s[i], s[j])
  <2> DEFINE P == {m \in 0..n : i < m => Descends(vs, s[i], s[m])}
  <2> HIDE DEF n
  <2>1. 0 \in P
    BY <1>3
  <2>2. ASSUME NEW m \in 0..n - 1, m \in P PROVE m + 1 \in P
    <3>1. m + 1 \in 0..n /\ m \in 0..n /\ m + 1 \in 1..n
      BY <1>3
    <3>2. CASE i < m
      BY <1>6, <2>2, <3>1, <3>2
    <3>3. CASE i = m
      BY <1>7, <3>1, <3>3
    <3>4. CASE i > m
      BY <3>1, <3>4
    <3> QED BY <3>1, <3>2, <3>3, <3>4
  <2>3. 0..n \subseteq P
    <3> HIDE DEF P
    <3> QED BY <1>3, <2>1, <2>2, Climb
  <2> QED BY <1>3, <2>3
<1> QED BY <1>3, <1>5, <1>8

(* The entries of a ranking, whatever was loaded. *)
Competition(r) ==
  \A i, j \in DOMAIN r :
    /\ r[i].display = 1 + Cardinality({x \in DOMAIN r : r[x].votes > r[i].votes})
    /\ i < j => \/ r[i].votes > r[j].votes
                \/ r[i].votes = r[j].votes /\ r[i].firsts >= r[j].firsts

(* Every ranking that compute_ranking may return is a competition ranking. *)
LEMMA RankingCompetes ==
  ASSUME NEW vs, NEW as, NEW h, Loadable(vs), NEW r \in Rankings(vs, as, h)
  PROVE  Competition(r)
<1>1. PICK s \in Orders(vs) : r = Ranking(vs, as, h, s)
  BY DEF Rankings
<1>2. PICK n \in Nat : DOMAIN s = 1..n
  BY OrdersDescend
<1>3. \A i, j \in DOMAIN s : i < j => Descends(vs, s[i], s[j])
  BY OrdersDescend
<1>4. \A k : VoteCount(vs, k) \in Nat /\ FirstCount(vs, k) \in Nat
  BY CountsAreNat DEF Loadable
<1>5. \A i, j \in DOMAIN s : i < j => VoteCount(vs, s[i]) >= VoteCount(vs, s[j])
  BY <1>3, <1>4 DEF Descends
<1>6. \A i \in DOMAIN s : DisplayRank(vs, s)[i]
           = 1 + Cardinality({x \in DOMAIN s : VoteCount(vs, s[x]) > VoteCount(vs, s[i])})
  <2>1. CountsDown(vs, s)
    BY <1>2, <1>4, <1>5 DEF CountsDown
  <2> QED BY <2>1, DisplayRankIs
<1>7. DOMAIN r = DOMAIN s
      /\ \A i \in DOMAIN s : /\ r[i].display = DisplayRank(vs, s)[i]
                             /\ r[i].votes = VoteCount(vs, s[i])
                             /\ r[i].firsts = FirstCount(vs, s[i])
  BY <1>1 DEF Ranking
<1>8. ASSUME NEW i \in DOMAIN r
      PROVE  r[i].display = 1 + Cardinality({x \in DOMAIN r : r[x].votes > r[i].votes})
  <2>1. {x \in DOMAIN r : r[x].votes > r[i].votes}
          = {x \in DOMAIN s : VoteCount(vs, s[x]) > VoteCount(vs, s[i])}
    BY <1>7
  <2> QED BY <1>6, <1>7, <2>1
<1>9. ASSUME NEW i \in DOMAIN r, NEW j \in DOMAIN r, i < j
      PROVE  \/ r[i].votes > r[j].votes
             \/ r[i].votes = r[j].votes /\ r[i].firsts >= r[j].firsts
  BY <1>3, <1>7, <1>9 DEF Descends
<1> QED BY <1>8, <1>9 DEF Competition

-----------------------------------------------------------------------------
(* The permutation that Ordered chooses exists: sorting is stable counting. *)

Sorts(p, s) ==
  /\ p \in Bijection(DOMAIN s, DOMAIN s)
  /\ \A i, j \in DOMAIN s : i < j => ~ Before(s[p[j]], s[p[i]])

(* Such a permutation exists: the place of a row is the number of rows that *)
(* come before it, ties by position.                                        *)
LEMMA Sortable ==
  ASSUME NEW n \in Nat, NEW s, DOMAIN s = 1..n,
         \A i \in 1..n : s[i].created \in Int /\ s[i].attempt \in Int
  PROVE  \E p : Sorts(p, s)
<1> DEFINE D == 1..n
           Comes(i, j) == Before(s[i], s[j]) \/ (~ Before(s[j], s[i]) /\ i < j)
           Ahead(j) == {i \in D : Comes(i, j)}
           pos == [i \in D |-> 1 + Cardinality(Ahead(i))]
           p == [m \in D |-> CHOOSE i \in D : pos[i] = m]
<1>1. IsFiniteSet(D) /\ Cardinality(D) = n
  BY FS_Interval
<1>2. \A i, j \in D : i # j => Comes(i, j) \/ Comes(j, i)
  BY DEF Before
<1>3. \A i, j \in D : ~ (Comes(i, j) /\ Comes(j, i))
  BY DEF Before
<1>4. \A i, j, k \in D : Comes(i, j) /\ Comes(j, k) => Comes(i, k)
  BY DEF Before
<1>5. \A j \in D : IsFiniteSet(Ahead(j)) /\ Cardinality(Ahead(j)) \in Nat
  <2>1. \A j \in D : Ahead(j) \in SUBSET D
    OBVIOUS
  <2> HIDE DEF Ahead, D
  <2> QED BY <1>1, <2>1, FS_Subset, FS_CardinalityType
<1>6. ASSUME NEW i \in D, NEW j \in D, Comes(i, j) PROVE pos[i] < pos[j]
  <2>1. i \in Ahead(j) /\ i \notin Ahead(i) /\ Ahead(i) \subseteq Ahead(j) \ {i}
    <3> HIDE DEF Comes, D
    <3> QED BY <1>3, <1>4, <1>6
  <2>2. Cardinality(Ahead(i)) <= Cardinality(Ahead(j) \ {i})
    <3>1. IsFiniteSet(Ahead(j) \ {i})
      <4> HIDE DEF Ahead
      <4> QED BY <1>5, FS_RemoveElement
    <3> HIDE DEF Ahead
    <3> QED BY <2>1, <3>1, FS_Subset
  <2>3. Cardinality(Ahead(j) \ {i}) = Cardinality(Ahead(j)) - 1
    <3> HIDE DEF Ahead
    <3> QED BY <1>5, <2>1, FS_RemoveElement
  <2>4. pos[i] = 1 + Cardinality(Ahead(i)) /\ pos[j] = 1 + Cardinality(Ahead(j))
    OBVIOUS
  <2>5. Cardinality(Ahead(i)) \in Nat /\ Cardinality(Ahead(j)) \in Nat
    BY <1>5
  <2> HIDE DEF Ahead, pos
  <2> QED BY <2>2, <2>3, <2>4, <2>5
<1>7. \A i \in D : pos[i] \in D
  <2> SUFFICES ASSUME NEW i \in D PROVE pos[i] \in D
    OBVIOUS
  <2>1. Ahead(i) \subseteq D \ {i}
    <3>1. ~ Comes(i, i)
      <4> HIDE DEF Comes, D
      <4> QED BY <1>3
    <3> HIDE DEF Comes, D
    <3> QED BY <3>1
  <2>2. IsFiniteSet(D \ {i}) /\ Cardinality(D \ {i}) = n - 1
    <3> HIDE DEF D
    <3> QED BY <1>1, FS_RemoveElement
  <2>3. Cardinality(Ahead(i)) <= n - 1
    <3> HIDE DEF Ahead, D
    <3> QED BY <2>1, <2>2, FS_Subset
  <2>4. pos[i] = 1 + Cardinality(Ahead(i)) /\ Cardinality(Ahead(i)) \in Nat
    BY <1>5
  <2> HIDE DEF Ahead, pos
  <2> QED BY <2>3, <2>4
<1>8. pos \in Injection(D, D)
  <2>1. \A i, j \in D : pos[i] = pos[j] => i = j
    <3>1. \A i \in D : pos[i] \in Int
      BY <1>7
    <3> HIDE DEF Comes, pos, D
    <3> QED BY <1>2, <1>6, <3>1
  <2>2. pos \in [D -> D]
    <3>1. pos = [i \in D |-> pos[i]]
      OBVIOUS
    <3> HIDE DEF pos, D
    <3> QED BY <1>7, <3>1
  <2> HIDE DEF pos, D
  <2> QED BY <2>1, <2>2 DEF Injection, IsInjective
<1>9. \A m \in D : \E i \in D : pos[i] = m
  <2>1. pos \in Surjection(D, D)
    <3> HIDE DEF pos, D
    <3> QED BY <1>1, <1>8, FS_Injection
  <2> HIDE DEF pos, D
  <2> QED BY <2>1 DEF Surjection
<1>10. \A m \in D : p[m] \in D /\ pos[p[m]] = m
  <2> HIDE DEF pos, D
  <2> QED BY <1>9
<1>11. p \in Bijection(D, D)
  <2>1. p \in [D -> D]
    <3>1. p = [m \in D |-> p[m]]
      <4> HIDE DEF pos, D
      <4> QED OBVIOUS
    <3> HIDE DEF p, D, pos
    <3> QED BY <1>10, <3>1
  <2>2. \A a, b \in D : p[a] = p[b] => a = b
    <3> HIDE DEF p, D, pos
    <3> QED BY <1>10
  <2>3. \A i \in D : p[pos[i]] = i
    <3>1. \A i, j \in D : pos[i] = pos[j] => i = j
      <4> HIDE DEF pos, D
      <4> QED BY <1>8 DEF Injection, IsInjective
    <3> HIDE DEF p, D, pos
    <3> QED BY <1>7, <1>10, <3>1
  <2> HIDE DEF p, D, pos
  <2> QED BY <1>7, <2>1, <2>2, <2>3 DEF Bijection, Injection, Surjection, IsInjective
<1>12. ASSUME NEW i \in D, NEW j \in D, i < j PROVE ~ Before(s[p[j]], s[p[i]])
  <2>1. p[i] \in D /\ p[j] \in D /\ pos[p[i]] = i /\ pos[p[j]] = j
    BY <1>10
  <2>2. ~ Comes(p[j], p[i])
    <3> HIDE DEF p, pos, Comes
    <3> QED BY <1>6, <1>12, <2>1
  <2> QED BY <2>2
<1> HIDE DEF p
<1> QED BY <1>11, <1>12 DEF Sorts

(* An ordered table holds the same rows. *)
LEMMA OrderedIs ==
  ASSUME NEW n \in Nat, NEW s, DOMAIN s = 1..n,
         \A i \in 1..n : s[i].created \in Int /\ s[i].attempt \in Int
  PROVE  /\ DOMAIN Ordered(s) = 1..n
         /\ \A i \in 1..n : \E j \in 1..n : Ordered(s)[i] = s[j]
<1> DEFINE p == CHOOSE p \in Bijection(DOMAIN s, DOMAIN s) :
             \A i, j \in DOMAIN s : i < j => ~ Before(s[p[j]], s[p[i]])
<1>1. p \in Bijection(DOMAIN s, DOMAIN s)
  <2>1. \E q \in Bijection(DOMAIN s, DOMAIN s) :
             \A i, j \in DOMAIN s : i < j => ~ Before(s[q[j]], s[q[i]])
    BY Sortable DEF Sorts
  <2> QED BY <2>1
<1>2. Ordered(s) = [i \in DOMAIN s |-> s[p[i]]]
  BY DEF Ordered
<1>3. p \in [1..n -> 1..n]
  <2> HIDE DEF p
  <2> QED BY <1>1 DEF Bijection, Injection
<1> HIDE DEF p
<1> QED BY <1>2, <1>3

(* Max of a finite set of integers is one of them, and none is larger. *)
LEMMA MaxIs ==
  ASSUME NEW S, IsFiniteSet(S), S # {}, \A x \in S : x \in Int
  PROVE  Max(S) \in S /\ \A y \in S : Max(S) >= y
<1> DEFINE Q == {T \in SUBSET S : T = {} \/ \E x \in T : \A y \in T : x >= y}
<1>1. ASSUME NEW T \in SUBSET S, \A x \in T : T \ {x} \in Q PROVE T \in Q
  <2>1. CASE T = {}
    BY <2>1
  <2>2. ASSUME NEW x \in T PROVE T \in Q
    <3>1. CASE T \ {x} = {}
      <4>1. \A y \in T : y = x
        BY <3>1
      <4>2. x \in Int
        OBVIOUS
      <4>3. x >= x
        BY <4>2
      <4> QED BY <4>1, <4>3
    <3>2. ASSUME NEW y \in T \ {x}, \A z \in T \ {x} : y >= z PROVE T \in Q
      <4>1. x \in Int /\ y \in Int /\ \A z \in T : z \in Int
        OBVIOUS
      <4>2. CASE y >= x
        <5>1. y \in T /\ \A z \in T : y >= z
          BY <3>2, <4>2
        <5> QED BY <5>1
      <4>3. CASE x >= y
        <5>1. x \in T /\ \A z \in T : x >= z
          <6>1. ASSUME NEW z \in T, z # x PROVE x >= z
            BY <3>2, <4>1, <4>3, <6>1
          <6> QED BY <4>1, <6>1
        <5> QED BY <5>1
      <4> QED BY <4>1, <4>2, <4>3
    <3> QED BY <1>1, <3>1, <3>2
  <2> QED BY <2>1, <2>2
<1>2. SUBSET S \subseteq Q
  <2> HIDE DEF Q
  <2> QED BY <1>1, Shrink
<1>3. \E x \in S : \A y \in S : x >= y
  BY <1>2
<1> QED BY <1>3 DEF Max

-----------------------------------------------------------------------------
(* The sums of Tally are folds; each is a Sum. *)

HourOf(s, hour, k) ==
  MapThenSumSet(LAMBDA i : IF Bucket(s[i].created) = hour THEN Delta(s, i, k) ELSE 0, DOMAIN s)

(* A delta is a number. *)
LEMMA DeltaType == ASSUME NEW s, NEW i, NEW k PROVE Delta(s, i, k) \in Int
BY DEF Delta

(* The deltas of one voter in one hour. *)
LEMMA HourFold ==
  ASSUME NEW s, IsFiniteSet(DOMAIN s), NEW hour, NEW k
  PROVE  HourOf(s, hour, k)
           = Sum([i \in DOMAIN s |-> IF Bucket(s[i].created) = hour THEN Delta(s, i, k) ELSE 0],
                 DOMAIN s)
<1> DEFINE S == DOMAIN s
           f == [i \in S |-> IF Bucket(s[i].created) = hour THEN Delta(s, i, k) ELSE 0]
           Unfolds(w) == w = [T \in SUBSET S |->
                     IF T = {} THEN 0
                     ELSE (IF Bucket(s[CHOOSE i \in T : TRUE].created) = hour
                             THEN Delta(s, CHOOSE i \in T : TRUE, k) ELSE 0)
                            + w[T \ {CHOOSE i \in T : TRUE}]]
           fold == CHOOSE w : Unfolds(w)
<1>1. HourOf(s, hour, k) = fold[S]
  BY DEF HourOf, MapThenSumSet, MapThenFoldSet
<1>2. f \in [S -> Int]
  BY DeltaType
<1>3. \A w : IsSum(w, f, S) <=> Unfolds(w)
  <2>1. \A T \in SUBSET S : T # {} => f[CHOOSE i \in T : TRUE]
          = IF Bucket(s[CHOOSE i \in T : TRUE].created) = hour
              THEN Delta(s, CHOOSE i \in T : TRUE, k) ELSE 0
    OBVIOUS
  <2> HIDE DEF f
  <2> QED BY <2>1 DEF IsSum
<1>4. IsSum(fold, f, S)
  <2>1. \E w : IsSum(w, f, S)
    <3> HIDE DEF f, fold
    <3> QED BY <1>2, SumExists
  <2>2. \E w : Unfolds(w)
    <3> HIDE DEF f, fold, Unfolds
    <3> QED BY <1>3, <2>1
  <2>3. Unfolds(fold)
    <3> HIDE DEF f, Unfolds
    <3> QED BY <2>2
  <2> HIDE DEF f, fold, Unfolds
  <2> QED BY <1>3, <2>3
<1> HIDE DEF f, fold, Unfolds
<1>5. Sum(f, S) = fold[S]
  BY <1>2, <1>4, SumIs
<1> QED BY <1>1, <1>5 DEF f

HoursOf(h, hour, k) == MapThenSumSet(LAMBDA v : HourOf(h[v], hour, k), DOMAIN h)

(* An hour of a trend is the sum over the voters of the deltas in that      *)
(* hour.                                                                    *)
LEMMA TrendIs ==
  ASSUME NEW h, NEW k
  PROVE  Trend(h, k) = [hour \in 0..(TotalHours - 1) |-> HoursOf(h, hour, k)]
BY DEF Trend, HoursOf, HourOf, MapThenSumSet, MapThenFoldSet

(* And those of all voters. *)
LEMMA HoursFold ==
  ASSUME NEW h, IsFiniteSet(DOMAIN h), NEW hour, NEW k,
         \A v \in DOMAIN h : HourOf(h[v], hour, k) \in Int
  PROVE  HoursOf(h, hour, k) = Sum([v \in DOMAIN h |-> HourOf(h[v], hour, k)], DOMAIN h)
<1> DEFINE S == DOMAIN h
           f == [v \in S |-> HourOf(h[v], hour, k)]
           Unfolds(w) == w = [T \in SUBSET S |->
                     IF T = {} THEN 0
                     ELSE HourOf(h[CHOOSE v \in T : TRUE], hour, k)
                            + w[T \ {CHOOSE v \in T : TRUE}]]
           fold == CHOOSE w : Unfolds(w)
<1>1. HoursOf(h, hour, k) = fold[S]
  BY DEF HoursOf, MapThenSumSet, MapThenFoldSet
<1>2. f \in [S -> Int]
  OBVIOUS
<1>3. \A w : IsSum(w, f, S) <=> Unfolds(w)
  <2>1. \A T \in SUBSET S : T # {} =>
          f[CHOOSE v \in T : TRUE] = HourOf(h[CHOOSE v \in T : TRUE], hour, k)
    OBVIOUS
  <2> HIDE DEF f
  <2> QED BY <2>1 DEF IsSum
<1>4. IsSum(fold, f, S)
  <2>1. \E w : IsSum(w, f, S)
    <3> HIDE DEF f, fold
    <3> QED BY <1>2, SumExists
  <2>2. \E w : Unfolds(w)
    <3> HIDE DEF f, fold, Unfolds
    <3> QED BY <1>3, <2>1
  <2>3. Unfolds(fold)
    <3> HIDE DEF f, Unfolds
    <3> QED BY <2>2
  <2> HIDE DEF f, fold, Unfolds
  <2> QED BY <1>3, <2>3
<1> HIDE DEF f, fold, Unfolds
<1>5. Sum(f, S) = fold[S]
  BY <1>2, <1>4, SumIs
<1> QED BY <1>1, <1>5 DEF f

VotesOf(segments) == MapThenSumSet(LAMBDA g : segments[g].votes, Segments)

(* The votes of all segments. *)
LEMMA SegmentsFold ==
  ASSUME NEW segments, IsFiniteSet(Segments), \A g \in Segments : segments[g].votes \in Int
  PROVE  VotesOf(segments) = Sum([g \in Segments |-> segments[g].votes], Segments)
<1> DEFINE S == Segments
           f == [g \in S |-> segments[g].votes]
           Unfolds(w) == w = [T \in SUBSET S |->
                     IF T = {} THEN 0
                     ELSE segments[CHOOSE g \in T : TRUE].votes + w[T \ {CHOOSE g \in T : TRUE}]]
           fold == CHOOSE w : Unfolds(w)
<1>1. VotesOf(segments) = fold[S]
  BY DEF VotesOf, MapThenSumSet, MapThenFoldSet
<1>2. f \in [S -> Int]
  OBVIOUS
<1>3. \A w : IsSum(w, f, S) <=> Unfolds(w)
  <2>1. \A T \in SUBSET S : T # {} =>
          f[CHOOSE g \in T : TRUE] = segments[CHOOSE g \in T : TRUE].votes
    OBVIOUS
  <2> HIDE DEF f
  <2> QED BY <2>1 DEF IsSum
<1>4. IsSum(fold, f, S)
  <2>1. \E w : IsSum(w, f, S)
    <3> HIDE DEF f, fold
    <3> QED BY <1>2, SumExists
  <2>2. \E w : Unfolds(w)
    <3> HIDE DEF f, fold, Unfolds
    <3> QED BY <1>3, <2>1
  <2>3. Unfolds(fold)
    <3> HIDE DEF f, Unfolds
    <3> QED BY <2>2
  <2> HIDE DEF f, fold, Unfolds
  <2> QED BY <1>3, <2>3
<1> HIDE DEF f, fold, Unfolds
<1>5. Sum(f, S) = fold[S]
  BY <1>2, <1>4, SumIs
<1> QED BY <1>1, <1>5 DEF f

-----------------------------------------------------------------------------
(* The net deltas of all hours add up. *)

(* A sum of zeros. *)
LEMMA SumZero == ASSUME NEW S, IsFiniteSet(S) PROVE Sum([x \in S |-> 0], S) = 0
<1>1. Sum([x \in S |-> IF x \in {} THEN 1 ELSE 0], S) = Cardinality({})
  BY SumCounts
<1>2. [x \in S |-> IF x \in {} THEN 1 ELSE 0] = [x \in S |-> 0]
  OBVIOUS
<1> QED BY <1>1, <1>2, FS_EmptySet

Hours == 0..(TotalHours - 1)

(* A time falls into an hour of the trend, whenever it was. *)
LEMMA BucketType == ASSUME NEW t \in Int PROVE Bucket(t) \in Hours
<1>1. TotalHours \in Nat \ {0}
  BY TallyAssumption
<1> DEFINE low == {t, TotalHours - 1}
<1>3. Min(low) \in Int /\ Min(low) <= TotalHours - 1
  <2>1. \E x \in low : \A y \in low : x =< y
    BY <1>1
  <2>2. Min(low) \in low /\ \A y \in low : Min(low) =< y
    BY <2>1 DEF Min
  <2> QED BY <1>1, <2>2
<1> DEFINE m == Min(low)
<1>4. Max({0, m}) \in {0, m} /\ Max({0, m}) >= 0
  <2>1. m \in Int
    BY <1>3
  <2> HIDE DEF m
  <2>2. \E x \in {0, m} : \A y \in {0, m} : x >= y
    BY <2>1
  <2>3. Max({0, m}) \in {0, m} /\ \A y \in {0, m} : Max({0, m}) >= y
    BY <2>2 DEF Max
  <2> QED BY <2>3
<1>5. Bucket(t) = Max({0, m})
  BY DEF Bucket
<1> HIDE DEF m
<1> QED BY <1>1, <1>3, <1>4, <1>5 DEF m, Hours

(* A voter's history: a sequence with readable times. *)
IsHistory(s) ==
  /\ \E n \in Nat : DOMAIN s = 1..n
  /\ \A i \in DOMAIN s : s[i].created \in Int

(* The deltas of k that fall into the hours of T. *)
Part(s, k, T) == [i \in DOMAIN s |-> IF Bucket(s[i].created) \in T THEN Delta(s, i, k) ELSE 0]
Within(s, k, T) == Sum(Part(s, k, T), DOMAIN s)

(* The newest ballot names k. *)
Ends(s, k) == \E n \in Nat \ {0} : DOMAIN s = 1..n /\ k \in Keys(s[n].items)

(* Parts are functions to the integers. *)
LEMMA PartType ==
  ASSUME NEW s, NEW k, NEW T PROVE Part(s, k, T) \in [DOMAIN s -> Int]
BY DeltaType DEF Part

(* What falls into some hours is a number. *)
LEMMA WithinType ==
  ASSUME NEW s, IsHistory(s), NEW k, NEW T PROVE IsFiniteSet(DOMAIN s) /\ Within(s, k, T) \in Int
<1>1. IsFiniteSet(DOMAIN s)
  BY FS_Interval DEF IsHistory
<1> QED BY <1>1, PartType, SumType DEF Within

(* Nothing falls into no hours. *)
LEMMA WithinNone == ASSUME NEW s, IsHistory(s), NEW k PROVE Within(s, k, {}) = 0
<1>1. Part(s, k, {}) = [i \in DOMAIN s |-> 0]
  BY DEF Part
<1> QED BY <1>1, WithinType, SumZero DEF Within

(* One hour apart from the others. *)
LEMMA WithinSplits ==
  ASSUME NEW s, IsHistory(s), NEW k, NEW T, NEW x \in T
  PROVE  Within(s, k, T) = Within(s, k, {x}) + Within(s, k, T \ {x})
<1> DEFINE a == Part(s, k, {x})
           b == Part(s, k, T \ {x})
<1>1. Part(s, k, T) = [i \in DOMAIN s |-> a[i] + b[i]]
  <2>1. ASSUME NEW i \in DOMAIN s
        PROVE  (IF Bucket(s[i].created) \in T THEN Delta(s, i, k) ELSE 0) = a[i] + b[i]
    <3>1. Delta(s, i, k) \in Int
      BY DeltaType
    <3>2. a[i] = (IF Bucket(s[i].created) = x THEN Delta(s, i, k) ELSE 0)
      BY DEF Part
    <3>3. b[i] = (IF Bucket(s[i].created) \in T /\ Bucket(s[i].created) # x
                    THEN Delta(s, i, k) ELSE 0)
      BY DEF Part
    <3> HIDE DEF a, b
    <3> QED BY <3>1, <3>2, <3>3
  <2> HIDE DEF a, b
  <2> QED BY <2>1 DEF Part
<1>2. a \in [DOMAIN s -> Int] /\ b \in [DOMAIN s -> Int] /\ IsFiniteSet(DOMAIN s)
  BY PartType, WithinType
<1>3. Sum([i \in DOMAIN s |-> a[i] + b[i]], DOMAIN s) = Sum(a, DOMAIN s) + Sum(b, DOMAIN s)
  <2> HIDE DEF a, b
  <2> QED BY <1>2, SumAdds
<1> QED BY <1>1, <1>3 DEF Within

(* One hour is what the trend says of it. *)
LEMMA WithinHour ==
  ASSUME NEW s, IsHistory(s), NEW k, NEW hour PROVE Within(s, k, {hour}) = HourOf(s, hour, k)
<1>1. Part(s, k, {hour})
        = [i \in DOMAIN s |-> IF Bucket(s[i].created) = hour THEN Delta(s, i, k) ELSE 0]
  BY DEF Part
<1> QED BY <1>1, WithinType, HourFold DEF Within

(* All hours: the deltas telescope to the newest ballot. *)
LEMMA WithinAll ==
  ASSUME NEW s, IsHistory(s), NEW k PROVE Within(s, k, Hours) = IF Ends(s, k) THEN 1 ELSE 0
<1>1. PICK n \in Nat : DOMAIN s = 1..n
  BY DEF IsHistory
<1> DEFINE S == DOMAIN s
           f == [i \in S |-> Delta(s, i, k)]
           g == [i \in 0..n |-> IF i > 0 /\ k \in Keys(s[i].items) THEN 1 ELSE 0]
<1>2. Part(s, k, Hours) = f
  BY BucketType DEF IsHistory, Part
<1>3. f \in [S -> Int] /\ g \in [0..n -> Int] /\ g[0] = 0
  BY DeltaType
<1>4. \A i \in 1..n : f[i] = g[i] - g[i - 1]
  <2> SUFFICES ASSUME NEW i \in 1..n PROVE f[i] = g[i] - g[i - 1]
    OBVIOUS
  <2>1. f[i] = Delta(s, i, k)
    BY <1>1
  <2>2. g[i] = (IF k \in Keys(s[i].items) THEN 1 ELSE 0)
        /\ g[i - 1] = (IF i > 1 /\ k \in Keys(s[i - 1].items) THEN 1 ELSE 0)
    OBVIOUS
  <2> HIDE DEF f, g
  <2> QED BY <2>1, <2>2 DEF Delta
<1>5. Sum(f, S) = g[n]
  <2> HIDE DEF f, g
  <2> QED BY <1>1, <1>3, <1>4, SumTelescopes
<1>6. g[n] = IF Ends(s, k) THEN 1 ELSE 0
  <2>1. \A m \in Nat : 1..m = 1..n => m = n
    <3>1. \A m \in Nat : Cardinality(1..m) = m
      BY FS_Interval
    <3> QED BY <3>1
  <2>2. Ends(s, k) <=> n > 0 /\ k \in Keys(s[n].items)
    BY <1>1, <2>1 DEF Ends
  <2> QED BY <2>2
<1> QED BY <1>2, <1>5, <1>6 DEF Within

(* And those of all voters. *)
Readable(h) == IsFiniteSet(DOMAIN h) /\ \A v \in DOMAIN h : IsHistory(h[v])

AllWithin(h, k, T) == Sum([v \in DOMAIN h |-> Within(h[v], k, T)], DOMAIN h)

(* Nothing of all voters falls into no hours. *)
LEMMA AllWithinNone == ASSUME NEW h, Readable(h), NEW k PROVE AllWithin(h, k, {}) = 0
<1>1. [v \in DOMAIN h |-> Within(h[v], k, {})] = [v \in DOMAIN h |-> 0]
  BY WithinNone DEF Readable
<1> QED BY <1>1, SumZero DEF AllWithin, Readable

(* One hour apart from the others, for all voters. *)
LEMMA AllWithinSplits ==
  ASSUME NEW h, Readable(h), NEW k, NEW T, NEW x \in T
  PROVE  AllWithin(h, k, T) = AllWithin(h, k, {x}) + AllWithin(h, k, T \ {x})
<1> DEFINE a == [v \in DOMAIN h |-> Within(h[v], k, {x})]
           b == [v \in DOMAIN h |-> Within(h[v], k, T \ {x})]
<1>1. [v \in DOMAIN h |-> Within(h[v], k, T)] = [v \in DOMAIN h |-> a[v] + b[v]]
  BY WithinSplits DEF Readable
<1>2. a \in [DOMAIN h -> Int] /\ b \in [DOMAIN h -> Int]
  BY WithinType DEF Readable
<1>3. Sum([v \in DOMAIN h |-> a[v] + b[v]], DOMAIN h) = Sum(a, DOMAIN h) + Sum(b, DOMAIN h)
  <2> HIDE DEF a, b
  <2> QED BY <1>2, SumAdds DEF Readable
<1> QED BY <1>1, <1>3 DEF AllWithin

(* One hour is what the trend says of it, for all voters. *)
LEMMA AllWithinHour ==
  ASSUME NEW h, Readable(h), NEW k, NEW hour PROVE AllWithin(h, k, {hour}) = HoursOf(h, hour, k)
<1>1. \A v \in DOMAIN h : Within(h[v], k, {hour}) = HourOf(h[v], hour, k)
                          /\ HourOf(h[v], hour, k) \in Int
  BY WithinHour, WithinType DEF Readable
<1>2. [v \in DOMAIN h |-> Within(h[v], k, {hour})] = [v \in DOMAIN h |-> HourOf(h[v], hour, k)]
  BY <1>1
<1> QED BY <1>1, <1>2, HoursFold DEF AllWithin, Readable

(* All hours and all voters: those whose newest ballot names k. *)
LEMMA AllWithinAll ==
  ASSUME NEW h, Readable(h), NEW k
  PROVE  AllWithin(h, k, Hours) = Cardinality({v \in DOMAIN h : Ends(h[v], k)})
<1> DEFINE A == {v \in DOMAIN h : Ends(h[v], k)}
<1>1. [v \in DOMAIN h |-> Within(h[v], k, Hours)] = [v \in DOMAIN h |-> IF v \in A THEN 1 ELSE 0]
  BY WithinAll DEF Readable
<1>2. A \in SUBSET (DOMAIN h)
  OBVIOUS
<1> HIDE DEF A
<1>3. Sum([v \in DOMAIN h |-> IF v \in A THEN 1 ELSE 0], DOMAIN h) = Cardinality(A)
  BY <1>2, SumCounts DEF Readable
<1> QED BY <1>1, <1>3 DEF AllWithin, A

(* net_delta_trends: the hours of a trend add up to the newest ballots that *)
(* name k.                                                                  *)
LEMMA TrendsAddUp ==
  ASSUME NEW h, Readable(h), NEW k
  PROVE  SumOf(Trend(h, k)) = Cardinality({v \in DOMAIN h : Ends(h[v], k)})
<1> DEFINE f == [hour \in Hours |-> HoursOf(h, hour, k)]
           w == [T \in SUBSET Hours |-> AllWithin(h, k, T)]
<1>1. Trend(h, k) = f /\ DOMAIN f = Hours
  BY TrendIs DEF Hours
<1>2. IsFiniteSet(Hours)
  BY TallyAssumption, FS_Interval DEF Hours
<1>3. f \in [Hours -> Int]
  <2>1. ASSUME NEW hour \in Hours PROVE HoursOf(h, hour, k) \in Int
    <3>1. [v \in DOMAIN h |-> Within(h[v], k, {hour})] \in [DOMAIN h -> Int]
      BY WithinType DEF Readable
    <3>2. AllWithin(h, k, {hour}) \in Int
      BY <3>1, SumType DEF AllWithin, Readable
    <3> QED BY <3>2, AllWithinHour
  <2> QED BY <2>1
<1>4. IsSum(w, f, Hours)
  <2>1. ASSUME NEW T \in SUBSET Hours, T # {}, NEW x, x = CHOOSE y \in T : TRUE
        PROVE  w[T] = f[x] + w[T \ {x}]
    <3>1. x \in T /\ x \in Hours /\ T \ {x} \in SUBSET Hours
      BY <2>1
    <3>2. w[T] = AllWithin(h, k, T) /\ w[T \ {x}] = AllWithin(h, k, T \ {x})
          /\ f[x] = HoursOf(h, x, k)
      BY <3>1
    <3>3. AllWithin(h, k, T) = AllWithin(h, k, {x}) + AllWithin(h, k, T \ {x})
      BY <3>1, AllWithinSplits
    <3>4. AllWithin(h, k, {x}) = HoursOf(h, x, k)
      BY AllWithinHour
    <3> HIDE DEF w, f
    <3> QED BY <3>2, <3>3, <3>4
  <2>2. w[{}] = 0
    BY AllWithinNone
  <2>3. \A T \in SUBSET Hours :
          w[T] = IF T = {} THEN 0
                 ELSE f[CHOOSE x \in T : TRUE] + w[T \ {CHOOSE x \in T : TRUE}]
    <3> HIDE DEF w, f
    <3> QED BY <2>1, <2>2
  <2>4. w = [T \in SUBSET Hours |-> w[T]]
    OBVIOUS
  <2> HIDE DEF w, f
  <2> QED BY <2>3, <2>4 DEF IsSum
<1>5. Sum(f, Hours) = w[Hours] /\ SumOf(f) = Sum(f, Hours)
  <2>1. DOMAIN f = Hours
    OBVIOUS
  <2> HIDE DEF w, f
  <2> QED BY <1>2, <1>3, <1>4, <2>1, SumIs, FoldIsSum
<1>6. w[Hours] = AllWithin(h, k, Hours)
  OBVIOUS
<1> HIDE DEF w, f
<1> QED BY <1>1, <1>5, <1>6, AllWithinAll

(* The same for the papers, without the hours. *)

PaperDelta(s, q, i) ==
  (IF q \in Answered(s[i]) THEN 1 ELSE 0) - (IF i > 1 /\ q \in Answered(s[i - 1]) THEN 1 ELSE 0)

VoterTrend(s, q) ==
  MapThenSumSet(LAMBDA i : (IF q \in Answered(s[i]) THEN 1 ELSE 0)
                             - (IF i > 1 /\ q \in Answered(s[i - 1]) THEN 1 ELSE 0),
                DOMAIN s)

(* The deltas of one voter's batches. *)
LEMMA VoterFold ==
  ASSUME NEW s, IsFiniteSet(DOMAIN s), NEW q
  PROVE  VoterTrend(s, q) = Sum([i \in DOMAIN s |-> PaperDelta(s, q, i)], DOMAIN s)
<1> DEFINE S == DOMAIN s
           f == [i \in S |-> PaperDelta(s, q, i)]
           Unfolds(w) == w = [T \in SUBSET S |->
                     IF T = {} THEN 0
                     ELSE PaperDelta(s, q, CHOOSE i \in T : TRUE) + w[T \ {CHOOSE i \in T : TRUE}]]
           fold == CHOOSE w : Unfolds(w)
<1>1. VoterTrend(s, q) = fold[S]
  BY DEF VoterTrend, PaperDelta, MapThenSumSet, MapThenFoldSet
<1>2. f \in [S -> Int]
  BY DEF PaperDelta
<1>3. \A w : IsSum(w, f, S) <=> Unfolds(w)
  <2>1. \A T \in SUBSET S : T # {} =>
          f[CHOOSE i \in T : TRUE] = PaperDelta(s, q, CHOOSE i \in T : TRUE)
    OBVIOUS
  <2> HIDE DEF f
  <2> QED BY <2>1 DEF IsSum
<1>4. IsSum(fold, f, S)
  <2>1. \E w : IsSum(w, f, S)
    <3> HIDE DEF f, fold, Unfolds
    <3> QED BY <1>2, SumExists
  <2>2. \E w : Unfolds(w)
    <3> HIDE DEF f, fold, Unfolds
    <3> QED BY <1>3, <2>1
  <2>3. Unfolds(fold)
    <3> HIDE DEF f, Unfolds
    <3> QED BY <2>2
  <2> HIDE DEF f, fold, Unfolds
  <2> QED BY <1>3, <2>3
<1> HIDE DEF f, fold, Unfolds
<1>5. Sum(f, S) = fold[S]
  BY <1>2, <1>4, SumIs
<1> QED BY <1>1, <1>5 DEF f

VotersTrend(h, q) == MapThenSumSet(LAMBDA v : VoterTrend(h[v], q), DOMAIN h)

(* The trend of a question is the sum over the voters. *)
LEMMA PaperTrendIs == ASSUME NEW h, NEW q PROVE PaperTrend(h, q) = VotersTrend(h, q)
BY DEF PaperTrend, VotersTrend, VoterTrend, MapThenSumSet, MapThenFoldSet

(* And that is a Sum. *)
LEMMA VotersFold ==
  ASSUME NEW h, IsFiniteSet(DOMAIN h), NEW q, \A v \in DOMAIN h : VoterTrend(h[v], q) \in Int
  PROVE  VotersTrend(h, q) = Sum([v \in DOMAIN h |-> VoterTrend(h[v], q)], DOMAIN h)
<1> DEFINE S == DOMAIN h
           f == [v \in S |-> VoterTrend(h[v], q)]
           Unfolds(w) == w = [T \in SUBSET S |->
                     IF T = {} THEN 0
                     ELSE VoterTrend(h[CHOOSE v \in T : TRUE], q) + w[T \ {CHOOSE v \in T : TRUE}]]
           fold == CHOOSE w : Unfolds(w)
<1>1. VotersTrend(h, q) = fold[S]
  BY DEF VotersTrend, MapThenSumSet, MapThenFoldSet
<1>2. f \in [S -> Int]
  OBVIOUS
<1>3. \A w : IsSum(w, f, S) <=> Unfolds(w)
  <2>1. \A T \in SUBSET S : T # {} =>
          f[CHOOSE v \in T : TRUE] = VoterTrend(h[CHOOSE v \in T : TRUE], q)
    OBVIOUS
  <2> HIDE DEF f
  <2> QED BY <2>1 DEF IsSum
<1>4. IsSum(fold, f, S)
  <2>1. \E w : IsSum(w, f, S)
    <3> HIDE DEF f, fold, Unfolds
    <3> QED BY <1>2, SumExists
  <2>2. \E w : Unfolds(w)
    <3> HIDE DEF f, fold, Unfolds
    <3> QED BY <1>3, <2>1
  <2>3. Unfolds(fold)
    <3> HIDE DEF f, Unfolds
    <3> QED BY <2>2
  <2> HIDE DEF f, fold, Unfolds
  <2> QED BY <1>3, <2>3
<1> HIDE DEF f, fold, Unfolds
<1>5. Sum(f, S) = fold[S]
  BY <1>2, <1>4, SumIs
<1> QED BY <1>1, <1>5 DEF f

(* The newest batch answers q. *)
PaperEnds(s, q) == \E n \in Nat \ {0} : DOMAIN s = 1..n /\ q \in Answered(s[n])

(* A voter's deltas telescope to the newest batch. *)
LEMMA VoterTrendIs ==
  ASSUME NEW s, NEW n \in Nat, DOMAIN s = 1..n, NEW q
  PROVE  VoterTrend(s, q) = IF PaperEnds(s, q) THEN 1 ELSE 0
<1> DEFINE S == DOMAIN s
           f == [i \in S |-> PaperDelta(s, q, i)]
           g == [i \in 0..n |-> IF i > 0 /\ q \in Answered(s[i]) THEN 1 ELSE 0]
<1>1. VoterTrend(s, q) = Sum(f, S)
  <2>1. IsFiniteSet(S)
    BY FS_Interval
  <2> QED BY <2>1, VoterFold
<1>3. f \in [S -> Int] /\ g \in [0..n -> Int] /\ g[0] = 0
  BY DEF PaperDelta
<1>4. \A i \in 1..n : f[i] = g[i] - g[i - 1]
  <2> SUFFICES ASSUME NEW i \in 1..n PROVE f[i] = g[i] - g[i - 1]
    OBVIOUS
  <2>1. f[i] = PaperDelta(s, q, i)
    OBVIOUS
  <2>2. g[i] = (IF q \in Answered(s[i]) THEN 1 ELSE 0)
        /\ g[i - 1] = (IF i > 1 /\ q \in Answered(s[i - 1]) THEN 1 ELSE 0)
    OBVIOUS
  <2> HIDE DEF f, g
  <2> QED BY <2>1, <2>2 DEF PaperDelta
<1>5. Sum(f, S) = g[n]
  <2> HIDE DEF f, g
  <2> QED BY <1>3, <1>4, SumTelescopes
<1>6. g[n] = IF PaperEnds(s, q) THEN 1 ELSE 0
  <2>1. \A m \in Nat : 1..m = 1..n => m = n
    <3>1. \A m \in Nat : Cardinality(1..m) = m
      BY FS_Interval
    <3> QED BY <3>1
  <2>2. PaperEnds(s, q) <=> n > 0 /\ q \in Answered(s[n])
    BY <2>1 DEF PaperEnds
  <2> QED BY <2>2
<1> QED BY <1>1, <1>5, <1>6

(* The trend of a question adds up to the newest batches that answer it. *)
LEMMA PaperTrendsAddUp ==
  ASSUME NEW h, IsFiniteSet(DOMAIN h), NEW q,
         \A v \in DOMAIN h : \E n \in Nat : DOMAIN h[v] = 1..n
  PROVE  PaperTrend(h, q) = Cardinality({v \in DOMAIN h : PaperEnds(h[v], q)})
<1> DEFINE A == {v \in DOMAIN h : PaperEnds(h[v], q)}
<1>1. \A v \in DOMAIN h : VoterTrend(h[v], q) = IF v \in A THEN 1 ELSE 0
  BY VoterTrendIs
<1>2. [v \in DOMAIN h |-> VoterTrend(h[v], q)] = [v \in DOMAIN h |-> IF v \in A THEN 1 ELSE 0]
  BY <1>1
<1>3. A \in SUBSET (DOMAIN h)
  OBVIOUS
<1> HIDE DEF A
<1>4. Sum([v \in DOMAIN h |-> IF v \in A THEN 1 ELSE 0], DOMAIN h) = Cardinality(A)
  BY <1>3, SumCounts
<1>5. \A v \in DOMAIN h : VoterTrend(h[v], q) \in Int
  BY <1>1
<1>6. VotersTrend(h, q) = Cardinality(A)
  BY <1>2, <1>4, <1>5, VotersFold
<1> QED BY <1>6, PaperTrendIs DEF A

-----------------------------------------------------------------------------
(* The invariant of the theorems about one table and one snapshot. *)

OneFirst(b) == \A i, j \in DOMAIN b : b[i].first /\ b[j].first => i = j

Tables ==
  /\ category \in Categories
  /\ rows = [v \in Voters |-> rows[v]] /\ papers = [v \in Voters |-> papers[v]]
  /\ \A v \in Voters : rows[v] \in Seq(Row) /\ papers[v] \in Seq(Papers)

Submitted == \A v \in Voters : \A i \in DOMAIN rows[v] :
               rows[v][i].attempt > 0 => OneFirst(rows[v][i].items)

Loads == \A c \in Computations :
  /\ pc[c] \in Loading \ {"votes"} => Loadable(votes[c])
  /\ pc[c] \in {"completion", "history", "batches", "publish"} => IsFiniteSet(DOMAIN answers[c])

(* A voter's ordered rows are a history of rows of the table. *)
LEMMA RowsAreHistories ==
  ASSUME Tables, NEW v \in Voters, rows[v] # <<>>
  PROVE  /\ Ordered(rows[v]) \in Seq(Row)
         /\ Len(Ordered(rows[v])) \in Nat \ {0}
         /\ DOMAIN Ordered(rows[v]) = 1..Len(Ordered(rows[v]))
         /\ \A i \in DOMAIN Ordered(rows[v]) :
              \E j \in DOMAIN rows[v] : Ordered(rows[v])[i] = rows[v][j]
         /\ \A i \in DOMAIN Ordered(rows[v]) : /\ Ordered(rows[v])[i].created \in Int
                                              /\ Ordered(rows[v])[i].items \in Seq(Item)
<1> DEFINE s == rows[v]
           n == Len(s)
<1>1. s \in Seq(Row) /\ s # <<>>
  BY DEF Tables
<1>2. \A x \in Row : x.created \in Int /\ x.attempt \in Int /\ x.items \in Seq(Item)
  <2>1. \A x \in Row : x.items \in UNION Range(Ballots) /\ x.created \in Times /\ x.attempt \in Nat
    BY DEF Row
  <2>2. \A b \in UNION Range(Ballots) : b \in Seq(Item)
    <3>1. Ballots \in [Categories -> SUBSET Seq(Item)]
      BY TallyAssumption
    <3> SUFFICES ASSUME NEW g \in DOMAIN Ballots, NEW b \in Ballots[g] PROVE b \in Seq(Item)
      BY DEF Range
    <3> QED BY <3>1
  <2>3. Times \subseteq Int
    BY TallyAssumption
  <2> SUFFICES ASSUME NEW x \in Row
               PROVE  x.created \in Int /\ x.attempt \in Int /\ x.items \in Seq(Item)
    OBVIOUS
  <2>4. x.items \in Seq(Item)
    BY <2>1, <2>2
  <2>5. x.created \in Times /\ x.attempt \in Nat
    BY <2>1
  <2>6. x.created \in Int
    BY <2>3, <2>5
  <2>7. x.attempt \in Int
    BY <2>5
  <2> QED BY <2>4, <2>6, <2>7
<1> HIDE DEF s
<1>3. n \in Nat \ {0} /\ DOMAIN s = 1..n /\ \A i \in 1..n : s[i] \in Row
  BY <1>1
<1> HIDE DEF n
<1>4. DOMAIN Ordered(s) = 1..n /\ \A i \in 1..n : \E j \in 1..n : Ordered(s)[i] = s[j]
  BY <1>2, <1>3, OrderedIs
<1>5. Ordered(s) = [i \in 1..n |-> Ordered(s)[i]]
  BY <1>4 DEF Ordered
<1>6. Ordered(s) \in [1..n -> Row]
  BY <1>3, <1>4, <1>5
<1>7. Ordered(s) \in Seq(Row) /\ Len(Ordered(s)) = n
  BY <1>3, <1>6
<1> QED BY <1>2, <1>3, <1>4, <1>6, <1>7 DEF s

(* What a reader of the tables and of the snapshot sees. *)

(* The validators look at tokens, but no two items of a ballot are          *)
(* favourites, so no two candidates are.                                    *)
LEMMA OneFavourite == ASSUME Tables, Submitted PROVE OneFavouriteEach
<1> SUFFICES ASSUME NEW v \in Standing(rows), Last(Ordered(rows[v])).attempt > 0
             PROVE  Cardinality(FirstKeys(LatestPerVote(rows)[v])) <= 1
  BY DEF OneFavouriteEach
<1> DEFINE items == LatestPerVote(rows)[v]
<1>1. v \in Voters /\ rows[v] # <<>>
  BY DEF Standing, Tables
<1>2. items = Last(Ordered(rows[v])).items
  BY DEF LatestPerVote
<1>3. PICK j \in DOMAIN rows[v] : Last(Ordered(rows[v])) = rows[v][j]
  <2>1. Len(Ordered(rows[v])) \in DOMAIN Ordered(rows[v])
    BY <1>1, RowsAreHistories
  <2> QED BY <1>1, <2>1, RowsAreHistories DEF Last
<1>4. OneFirst(items)
  BY <1>1, <1>2, <1>3 DEF Submitted
<1> HIDE DEF items
<1>5. \A k, l \in FirstKeys(items) : k = l
  BY <1>4 DEF FirstKeys, OneFirst
<1>6. ASSUME FirstKeys(items) = {} PROVE Cardinality(FirstKeys(items)) <= 1
  <2>1. Cardinality({}) = 0
    BY FS_EmptySet
  <2> QED BY <1>6, <2>1
<1>7. ASSUME NEW k \in FirstKeys(items) PROVE Cardinality(FirstKeys(items)) <= 1
  <2>1. FirstKeys(items) = {k}
    BY <1>5
  <2> QED BY <2>1, FS_Singleton
<1> QED BY <1>6, <1>7 DEF items

(* Of the ballots: a table read once, its trend against its count. *)
LEMMA VotesAddUp ==
  ASSUME Tables, NEW k
  PROVE  SumOf(Trend(HistoryPerVote(rows), k)) = VoteCount(LatestPerVote(rows), k)
<1> DEFINE h == HistoryPerVote(rows)
           vs == LatestPerVote(rows)
<1>1. Standing(rows) \subseteq Voters /\ \A v \in Standing(rows) : rows[v] # <<>>
  BY DEF Standing, Tables
<1>2. DOMAIN h = Standing(rows) /\ \A v \in Standing(rows) : h[v] = Ordered(rows[v])
  BY DEF HistoryPerVote
<1>3. DOMAIN vs = Standing(rows)
      /\ \A v \in Standing(rows) : vs[v] = Last(Ordered(rows[v])).items
  BY DEF LatestPerVote
<1> HIDE DEF h, vs
<1>4. Readable(h)
  <2>1. IsFiniteSet(DOMAIN h)
    BY <1>1, <1>2, TallyAssumption, FS_Subset
  <2>2. ASSUME NEW v \in DOMAIN h PROVE IsHistory(h[v])
    <3>1. v \in Voters /\ rows[v] # <<>> /\ h[v] = Ordered(rows[v])
      BY <1>1, <1>2
    <3> QED BY <3>1, RowsAreHistories DEF IsHistory
  <2> QED BY <2>1, <2>2 DEF Readable
<1>5. ASSUME NEW v \in Standing(rows) PROVE Ends(h[v], k) <=> k \in Keys(vs[v])
  <2> DEFINE s == Ordered(rows[v])
  <2>1. Len(s) \in Nat \ {0} /\ DOMAIN s = 1..Len(s)
    BY <1>1, RowsAreHistories
  <2>2. h[v] = s /\ vs[v] = s[Len(s)].items
    BY <1>2, <1>3 DEF Last
  <2> HIDE DEF s
  <2>3. \A n \in Nat : 1..n = 1..Len(s) => n = Len(s)
    <3>1. \A m \in Nat : Cardinality(1..m) = m
      BY FS_Interval
    <3> QED BY <2>1, <3>1
  <2> QED BY <2>1, <2>2, <2>3 DEF Ends
<1>6. {v \in DOMAIN h : Ends(h[v], k)} = {v \in DOMAIN vs : k \in Keys(vs[v])}
  BY <1>2, <1>3, <1>5
<1>7. SumOf(Trend(h, k)) = VoteCount(vs, k)
  BY <1>4, <1>6, TrendsAddUp DEF VoteCount
<1> QED BY <1>7 DEF h, vs

(* Of the papers. *)
LEMMA PaperAnswersAddUp ==
  ASSUME Tables, NEW q
  PROVE  PaperTrend(PaperHistory, q) = Cardinality(Answers(LatestPapers, q))
<1> DEFINE h == PaperHistory
<1>1. DOMAIN h = Voters
      /\ \A v \in Voters : h[v] = [i \in DOMAIN papers[v] |-> papers[v][i].items]
  BY DEF PaperHistory
<1>2. ASSUME NEW v \in Voters
      PROVE  Len(papers[v]) \in Nat /\ DOMAIN papers[v] = 1..Len(papers[v])
             /\ (papers[v] # <<>> <=> Len(papers[v]) # 0)
  BY DEF Tables
<1> HIDE DEF h
<1>3. \A v \in DOMAIN h : \E n \in Nat : DOMAIN h[v] = 1..n
  BY <1>1, <1>2
<1>4. ASSUME NEW v \in Voters
      PROVE  PaperEnds(h[v], q) <=> v \in Answers(LatestPapers, q)
  <2> DEFINE s == papers[v]
  <2>1. Len(s) \in Nat /\ DOMAIN s = 1..Len(s) /\ (s # <<>> <=> Len(s) # 0)
        /\ h[v] = [i \in DOMAIN s |-> s[i].items]
    BY <1>1, <1>2
  <2>2. \A n \in Nat : 1..n = 1..Len(s) => n = Len(s)
    <3>1. \A m \in Nat : Cardinality(1..m) = m
      BY FS_Interval
    <3> QED BY <2>1, <3>1
  <2>3. PaperEnds(h[v], q) <=> s # <<>> /\ q \in Answered(s[Len(s)].items)
    <3> HIDE DEF s
    <3>1. DOMAIN h[v] = 1..Len(s) /\ \A i \in 1..Len(s) : h[v][i] = s[i].items
      BY <2>1
    <3>2. PaperEnds(h[v], q) <=> Len(s) # 0 /\ q \in Answered(h[v][Len(s)])
      BY <2>1, <2>2, <3>1 DEF PaperEnds
    <3>3. Len(s) # 0 => h[v][Len(s)] = s[Len(s)].items
      BY <2>1, <3>1
    <3> QED BY <2>1, <3>2, <3>3
  <2>4. \A items : q \in Answered(items) => items # <<>>
    BY DEF Answered
  <2>5. v \in Answers(LatestPapers, q)
          <=> s # <<>> /\ s[Len(s)].items # <<>> /\ q \in Answered(s[Len(s)].items)
    BY DEF Answers, LatestPapers, Last
  <2> QED BY <2>3, <2>4, <2>5
<1>5. {v \in DOMAIN h : PaperEnds(h[v], q)} = Answers(LatestPapers, q)
  <2>1. Answers(LatestPapers, q) \subseteq Voters
    BY DEF Answers, LatestPapers
  <2> QED BY <1>1, <1>4, <2>1
<1>6. PaperTrend(h, q) = Cardinality(Answers(LatestPapers, q))
  BY <1>1, <1>3, <1>5, TallyAssumption, PaperTrendsAddUp
<1> QED BY <1>6 DEF h

(* An entry's segments: of its voters, and of all voters. *)
LEMMA BreakdownAgrees ==
  ASSUME NEW vs, IsFiniteSet(DOMAIN vs), NEW as, NEW k
  PROVE  /\ VotesOf(Breakdown(vs, as, k)) = VoteCount(vs, k)
         /\ \A g \in Segments : Breakdown(vs, as, k)[g].votes <= Breakdown(vs, as, k)[g].total
<1> DEFINE A == {v \in DOMAIN vs : k \in Keys(vs[v])}
           b == Breakdown(vs, as, k)
           label == [v \in A |-> Segment(as, v)]
<1>1. IsFiniteSet(A)
  BY FS_Subset
<1>2. IsFiniteSet(Segments)
  <2>1. IsFiniteSet(Range(Label))
    BY TallyAssumption, ImageFinite
  <2> QED BY <2>1, FS_AddElement DEF Segments
<1>3. label \in [A -> Segments]
  BY DEF Segment, SegmentOf, Segments, Range
<1>4. \A g \in Segments :
        /\ b[g].votes = Cardinality({v \in DOMAIN vs : k \in Keys(vs[v]) /\ Segment(as, v) = g})
        /\ b[g].total = Cardinality({v \in DOMAIN vs : Segment(as, v) = g})
  BY DEF Breakdown
<1>5. \A g \in Segments : b[g].votes = Cardinality({v \in A : label[v] = g})
  <2>1. \A g : {v \in A : label[v] = g}
                = {v \in DOMAIN vs : k \in Keys(vs[v]) /\ Segment(as, v) = g}
    OBVIOUS
  <2> QED BY <1>4, <2>1
<1> HIDE DEF A, b, label
<1>6. \A g \in Segments : b[g].votes \in Int
  <2>1. \A g \in Segments : {v \in A : label[v] = g} \in SUBSET A
    OBVIOUS
  <2>2. \A g \in Segments : Cardinality({v \in A : label[v] = g}) \in Nat
    BY <1>1, <2>1, FS_Subset, FS_CardinalityType
  <2> SUFFICES ASSUME NEW g \in Segments PROVE b[g].votes \in Int
    OBVIOUS
  <2>3. b[g].votes \in Nat
    BY <1>5, <2>2
  <2> QED BY <2>3
<1>7. VotesOf(b) = Sum([g \in Segments |-> b[g].votes], Segments)
  BY <1>2, <1>6, SegmentsFold
<1>8. [g \in Segments |-> b[g].votes] = [g \in Segments |-> Cardinality({v \in A : label[v] = g})]
  BY <1>5
<1>9. VotesOf(b) = Cardinality(A)
  BY <1>1, <1>2, <1>3, <1>7, <1>8, SumLabels
<1>10. ASSUME NEW g \in Segments PROVE b[g].votes <= b[g].total
  <2> DEFINE X == {v \in DOMAIN vs : k \in Keys(vs[v]) /\ Segment(as, v) = g}
             Y == {v \in DOMAIN vs : Segment(as, v) = g}
  <2>1. X \in SUBSET Y /\ IsFiniteSet(Y)
    BY FS_Subset
  <2>2. Cardinality(X) <= Cardinality(Y)
    <3> HIDE DEF X, Y
    <3> QED BY <2>1, FS_Subset
  <2> QED BY <1>4, <2>2
<1>11. Cardinality(A) = VoteCount(vs, k)
  BY DEF A, VoteCount
<1> QED BY <1>9, <1>10, <1>11 DEF b

(* compute_all's snapshot, from whatever it has loaded. *)
Section(sn, s, vs, as, h, b, done) ==
  sn = [seen |-> s, ranking |-> h,
        covotes |-> IF category = "cp" THEN <<>> ELSE Covotes(vs),
        papers |-> PaperResults(as, b),
        global |-> GlobalStats(vs, as),
        rate |-> CompletionRate(vs, as, done)]

Agreeing(sn) ==
  LET r == sn.ranking IN
  /\ \A i \in DOMAIN r :
       /\ VotesOf(r[i].segments) = r[i].votes
       /\ \A g \in Segments : r[i].segments[g].votes <= r[i].segments[g].total
  /\ \A pair \in DOMAIN sn.covotes : \A i \in DOMAIN r :
       r[i].id = pair[1] => r[i].votes = sn.covotes[pair].m11 + sn.covotes[pair].m10
  /\ \A g \in Range(Label) : Gender \in DOMAIN sn.papers =>
       sn.papers[Gender].segments[g] = sn.global.segments[g]
  /\ sn.rate.num <= sn.rate.total

(* SectionsAgree says this of the published snapshot. *)
LEMMA AgreeingIs == SectionsAgree <=> Agreeing(snapshot)
BY DEF SectionsAgree, Agreeing, VotesOf, MapThenSumSet, MapThenFoldSet

(* The margins of a co-vote are the votes of its first candidate. *)
LEMMA CovotesAgree ==
  ASSUME NEW vs, IsFiniteSet(DOMAIN vs), NEW pair \in DOMAIN Covotes(vs)
  PROVE  VoteCount(vs, pair[1]) = Covotes(vs)[pair].m11 + Covotes(vs)[pair].m10
<1> DEFINE Of(k) == {v \in DOMAIN vs : k \in Keys(vs[v])}
           X == Of(pair[1]) \cap Of(pair[2])
           Y == Of(pair[1]) \ Of(pair[2])
<1>1. Covotes(vs)[pair].m11 = Cardinality(X) /\ Covotes(vs)[pair].m10 = Cardinality(Y)
  BY DEF Covotes
<1>2. X \cup Y = Of(pair[1]) /\ X \cap Y = {} /\ IsFiniteSet(X) /\ IsFiniteSet(Y)
  <2>1. X \in SUBSET DOMAIN vs /\ Y \in SUBSET DOMAIN vs
    OBVIOUS
  <2>2. X \cup Y = Of(pair[1]) /\ X \cap Y = {}
    <3> HIDE DEF Of
    <3> QED OBVIOUS
  <2> HIDE DEF X, Y
  <2> QED BY <2>1, <2>2, FS_Subset
<1>3. VoteCount(vs, pair[1]) = Cardinality(Of(pair[1]))
  BY DEF VoteCount
<1> HIDE DEF X, Y, Of
<1>4. Cardinality(X \cup Y) = Cardinality(X) + Cardinality(Y) - Cardinality(X \cap Y)
  BY <1>2, FS_Union
<1>5. Cardinality({}) = 0 /\ Cardinality(X) \in Nat /\ Cardinality(Y) \in Nat
  BY <1>2, FS_EmptySet, FS_CardinalityType
<1>6. Cardinality(X \cup Y) = Cardinality(Of(pair[1])) /\ Cardinality(X \cap Y) = 0
  BY <1>2, <1>5
<1> QED BY <1>1, <1>3, <1>4, <1>5, <1>6

(* The men and women of the statistics answered the gender question. *)
LEMMA GenderAgrees ==
  ASSUME NEW vs, NEW as, NEW b, NEW g \in Range(Label), Gender \in DOMAIN PaperResults(as, b)
  PROVE  PaperResults(as, b)[Gender].segments[g] = GlobalStats(vs, as).segments[g]
<1>1. g \in Segments /\ g # "unknown"
  BY TallyAssumption DEF Segments
<1>2. PaperResults(as, b)[Gender].segments[g]
        = Cardinality({v \in Answers(as, Gender) : SegmentOf(as[v]) = g})
  BY <1>1 DEF PaperResults
<1>3. GlobalStats(vs, as).segments[g]
        = Cardinality({v \in Everybody(vs, as) : Segment(as, v) = g})
  BY <1>1 DEF GlobalStats
<1>4. \A items : SegmentOf(items) = g => Gender \in Answered(items)
  <2> SUFFICES ASSUME NEW items, SegmentOf(items) = g PROVE Gender \in Answered(items)
    OBVIOUS
  <2>1. {i \in DOMAIN items : items[i].question = Gender} # {}
    BY <1>1 DEF SegmentOf
  <2> QED BY <2>1 DEF Answered
<1>5. {v \in Answers(as, Gender) : SegmentOf(as[v]) = g}
        = {v \in Everybody(vs, as) : Segment(as, v) = g}
  BY <1>1, <1>4 DEF Answers, Everybody, Segment
<1> QED BY <1>2, <1>3, <1>5

(* No more papers are complete than there are voters. *)
LEMMA RateAgrees ==
  ASSUME NEW vs, IsFiniteSet(DOMAIN vs), NEW as, IsFiniteSet(DOMAIN as), NEW done
  PROVE  CompletionRate(vs, as, done).num <= CompletionRate(vs, as, done).total
<1>1. IsFiniteSet(Everybody(vs, as))
  BY FS_Union DEF Everybody
<1>2. Cardinality(done \cap Everybody(vs, as)) <= Cardinality(Everybody(vs, as))
  BY <1>1, FS_Intersection
<1> QED BY <1>2 DEF CompletionRate

(* The sections of a snapshot agree whatever was loaded, from however many  *)
(* commits.                                                                 *)
LEMMA SnapshotAgrees ==
  ASSUME NEW sn, NEW s, NEW vs, NEW as, NEW h, NEW b, NEW done, NEW r,
         Loadable(vs), IsFiniteSet(DOMAIN as), r \in Rankings(vs, as, h),
         Section(sn, s, vs, as, r, b, done)
  PROVE  Agreeing(sn) /\ Competition(sn.ranking)
<1>1. IsFiniteSet(DOMAIN vs)
  BY DEF Loadable
<1>2. sn.ranking = r
  BY DEF Section
<1>3. PICK o \in Orders(vs) : r = Ranking(vs, as, h, o)
  BY DEF Rankings
<1>4. ASSUME NEW i \in DOMAIN r
      PROVE  /\ r[i].id = o[i] /\ r[i].votes = VoteCount(vs, o[i])
             /\ r[i].segments = Breakdown(vs, as, o[i])
  BY <1>3 DEF Ranking
<1>5. ASSUME NEW i \in DOMAIN r
      PROVE  /\ VotesOf(r[i].segments) = r[i].votes
             /\ \A g \in Segments : r[i].segments[g].votes <= r[i].segments[g].total
  <2> DEFINE x == Breakdown(vs, as, o[i])
  <2>1. VotesOf(x) = VoteCount(vs, o[i]) /\ \A g \in Segments : x[g].votes <= x[g].total
    BY <1>1, BreakdownAgrees
  <2>2. r[i].segments = x /\ r[i].votes = VoteCount(vs, o[i])
    BY <1>4
  <2> HIDE DEF x
  <2> QED BY <2>1, <2>2
<1>6. ASSUME NEW pair \in DOMAIN sn.covotes, NEW i \in DOMAIN r, r[i].id = pair[1]
      PROVE  r[i].votes = sn.covotes[pair].m11 + sn.covotes[pair].m10
  <2>1. CASE category = "cp"
    BY <1>6, <2>1 DEF Section
  <2>2. CASE category # "cp"
    <3>1. sn.covotes = Covotes(vs)
      BY <2>2 DEF Section
    <3>2. pair \in DOMAIN Covotes(vs) /\ r[i].votes = VoteCount(vs, pair[1])
      BY <1>4, <1>6, <3>1
    <3>3. VoteCount(vs, pair[1]) = Covotes(vs)[pair].m11 + Covotes(vs)[pair].m10
      BY <1>1, <3>2, CovotesAgree
    <3> QED BY <3>1, <3>2, <3>3
  <2> QED BY <2>1, <2>2
<1>7. ASSUME NEW g \in Range(Label), Gender \in DOMAIN sn.papers
      PROVE  sn.papers[Gender].segments[g] = sn.global.segments[g]
  <2>1. sn.papers = PaperResults(as, b) /\ sn.global = GlobalStats(vs, as)
    BY DEF Section
  <2>2. PaperResults(as, b)[Gender].segments[g] = GlobalStats(vs, as).segments[g]
    BY <1>7, <2>1, GenderAgrees
  <2> QED BY <2>1, <2>2
<1>8. sn.rate.num <= sn.rate.total
  <2>1. sn.rate = CompletionRate(vs, as, done)
    BY DEF Section
  <2> QED BY <1>1, <2>1, RateAgrees
<1> QED BY <1>2, <1>5, <1>6, <1>7, <1>8, RankingCompetes DEF Agreeing

-----------------------------------------------------------------------------
(* The invariant holds. *)

Counting == Tables /\ Submitted /\ Loads /\ Agreeing(snapshot) /\ Competition(snapshot.ranking)

(* It holds at the start: no snapshot, legacy rows without an attempt. *)
LEMMA CountingInit == Init => Counting
<1> SUFFICES ASSUME Init PROVE Counting
  OBVIOUS
<1>1. ASSUME NEW v \in Voters
      PROVE  /\ rows[v] \in Seq(Row)
             /\ \A i \in DOMAIN rows[v] : rows[v][i].attempt = 0
  <2>1. rows[v] \in {<<>>} \cup {<<x>> : x \in Legacy[category]}
    BY DEF Init
  <2>2. category \in Categories
    BY DEF Init
  <2>3. \A x \in Legacy[category] : x \in Row /\ x.attempt = 0
    BY <2>2, TallyAssumption
  <2>4. CASE rows[v] = <<>>
    BY <2>4
  <2>5. ASSUME NEW x \in Legacy[category], rows[v] = <<x>>
        PROVE  rows[v] \in Seq(Row) /\ \A i \in DOMAIN rows[v] : rows[v][i].attempt = 0
    <3>1. x \in Row /\ x.attempt = 0
      BY <2>3
    <3>2. <<x>> \in Seq(Row) /\ DOMAIN <<x>> = {1} /\ <<x>>[1] = x
      BY <3>1
    <3> QED BY <2>5, <3>1, <3>2
  <2> QED BY <2>1, <2>4, <2>5
<1>2. Tables
  <2>1. \A v \in Voters : papers[v] = <<>>
    BY DEF Init
  <2>2. rows = [v \in Voters |-> rows[v]] /\ papers = [v \in Voters |-> papers[v]]
        /\ category \in Categories
    BY DEF Init
  <2>3. ASSUME NEW v \in Voters PROVE papers[v] \in Seq(Papers)
    <3>1. <<>> \in Seq(Papers)
      OBVIOUS
    <3> QED BY <2>1, <3>1
  <2> QED BY <1>1, <2>2, <2>3 DEF Tables
<1>3. Submitted
  BY <1>1 DEF Submitted
<1>4. Loads
  BY DEF Init, Loads, Loading
<1>5. Competition(snapshot.ranking)
  BY DEF Init, Unpublished, Competition
<1>6. Agreeing(snapshot)
  <2> DEFINE none == <<>>
  <2>1. /\ snapshot.ranking = none /\ snapshot.covotes = none /\ snapshot.papers = none
        /\ snapshot.rate = CompletionRate(none, none, {}) /\ DOMAIN none = {}
    BY DEF Init, Unpublished
  <2>2. CompletionRate(none, none, {}).num <= CompletionRate(none, none, {}).total
    <3>1. IsFiniteSet(DOMAIN none)
      BY FS_EmptySet
    <3> HIDE DEF none
    <3> QED BY <3>1, RateAgrees
  <2> HIDE DEF none
  <2> QED BY <2>1, <2>2 DEF Agreeing
<1> QED BY <1>2, <1>3, <1>4, <1>5, <1>6 DEF Counting

(* The row that Submit appends. *)
LEMMA NewRow ==
  ASSUME Tables, NEW v \in Voters, NEW b \in Ballots[category], NEW t \in Times
  PROVE  [items |-> b, created |-> t, invalidated |-> FALSE,
          attempt |-> Max({0} \cup {rows[v][i].attempt : i \in DOMAIN rows[v]}) + 1] \in Row
<1> DEFINE s == rows[v]
           f == [i \in DOMAIN s |-> s[i].attempt]
           S == {0} \cup {s[i].attempt : i \in DOMAIN s}
<1>1. s \in Seq(Row)
  BY DEF Tables
<1>2. IsFiniteSet(DOMAIN s) /\ \A i \in DOMAIN s : s[i].attempt \in Nat
  <2>1. DOMAIN s = 1..Len(s) /\ Len(s) \in Nat /\ \A i \in DOMAIN s : s[i] \in Row
    BY <1>1
  <2>2. \A x \in Row : x.attempt \in Nat
    BY DEF Row
  <2> HIDE DEF s
  <2>3. IsFiniteSet(DOMAIN s)
    BY <2>1, FS_Interval
  <2> QED BY <2>1, <2>2, <2>3
<1>3. IsFiniteSet(S)
  <2>1. IsFiniteSet(Range(f))
    <3>1. DOMAIN f = DOMAIN s
      OBVIOUS
    <3> HIDE DEF f, s
    <3> QED BY <1>2, <3>1, ImageFinite
  <2>2. S = Range(f) \cup {0}
    BY DEF Range
  <2> HIDE DEF f, S
  <2> QED BY <2>1, <2>2, FS_AddElement
<1>4. Max(S) \in Nat
  <2>1. S # {} /\ \A x \in S : x \in Nat
    BY <1>2
  <2> HIDE DEF S
  <2>2. \A x \in S : x \in Int
    BY <2>1
  <2> QED BY <1>3, <2>1, <2>2, MaxIs
<1>5. b \in UNION Range(Ballots)
  <2>1. category \in DOMAIN Ballots
    BY TallyAssumption DEF Tables
  <2> QED BY <2>1 DEF Range
<1> HIDE DEF S
<1>6. Max(S) + 1 \in Nat
  BY <1>4
<1>7. [items |-> b, created |-> t, invalidated |-> FALSE, attempt |-> Max(S) + 1] \in Row
  BY <1>5, <1>6 DEF Row
<1> QED BY <1>7 DEF S

(* Voters and administrators keep the tables in order. *)
LEMMA TablesStep ==
  ASSUME Tables, Submitted, [Next]_vars PROVE Tables' /\ Submitted'
<1>1. ASSUME UNCHANGED table PROVE Tables' /\ Submitted'
  BY <1>1 DEF Tables, Submitted, table
<1>2. ASSUME NEW v \in Voters, NEW b \in Ballots[category], NEW t \in Times, Submit(v, b, t)
      PROVE  Tables' /\ Submitted'
  <2> DEFINE x == [items |-> b, created |-> t, invalidated |-> FALSE,
                   attempt |-> Max({0} \cup {rows[v][i].attempt : i \in DOMAIN rows[v]}) + 1]
  <2>1. x \in Row /\ x.items = b
    BY NewRow
  <2>2. category' = category /\ papers' = papers /\ Accepted(b)
        /\ rows' = [rows EXCEPT ![v] = Append(rows[v], x)]
    BY <1>2 DEF Submit, Elsewhere
  <2> HIDE DEF x
  <2>3. OneFirst(b)
    BY <2>2 DEF Accepted, OneFirst
  <2>4. \A u \in Voters : rows'[u] = IF u = v THEN Append(rows[v], x) ELSE rows[u]
    BY <2>2 DEF Tables
  <2>5. rows' = [u \in Voters |-> rows'[u]]
    BY <2>2 DEF Tables
  <2>6. Append(rows[v], x) \in Seq(Row)
        /\ \A i \in DOMAIN Append(rows[v], x) :
             \/ i \in DOMAIN rows[v] /\ Append(rows[v], x)[i] = rows[v][i]
             \/ Append(rows[v], x)[i] = x
    BY <2>1 DEF Tables
  <2>7. Tables'
    BY <2>2, <2>4, <2>5, <2>6 DEF Tables
  <2>8. Submitted'
    <3> SUFFICES ASSUME NEW u \in Voters, NEW i \in DOMAIN rows'[u], rows'[u][i].attempt > 0
                 PROVE  OneFirst(rows'[u][i].items)
      BY DEF Submitted
    <3>1. CASE u = v
      BY <2>1, <2>3, <2>4, <2>6, <3>1 DEF Submitted
    <3>2. CASE u # v
      BY <2>4, <3>2 DEF Submitted
    <3> QED BY <3>1, <3>2
  <2> QED BY <2>7, <2>8
<1>3. ASSUME NEW v \in Voters, NEW i \in DOMAIN rows[v], SetInvalidated(v, i)
      PROVE  Tables' /\ Submitted'
  <2> DEFINE y == [rows[v][i] EXCEPT !.invalidated = ~ @]
  <2>1. category' = category /\ papers' = papers
        /\ rows' = [rows EXCEPT ![v] = [rows[v] EXCEPT ![i] = y]]
    BY <1>3 DEF SetInvalidated, Elsewhere
  <2>2. rows[v] \in Seq(Row) /\ rows[v][i] \in Row
    BY DEF Tables
  <2>3. y \in Row /\ y.attempt = rows[v][i].attempt /\ y.items = rows[v][i].items
    BY <2>2 DEF Row
  <2> HIDE DEF y
  <2>4. \A u \in Voters : rows'[u] = IF u = v THEN [rows[v] EXCEPT ![i] = y] ELSE rows[u]
    BY <2>1 DEF Tables
  <2>5. rows' = [u \in Voters |-> rows'[u]]
    BY <2>1 DEF Tables
  <2>6. [rows[v] EXCEPT ![i] = y] \in Seq(Row) /\ DOMAIN [rows[v] EXCEPT ![i] = y] = DOMAIN rows[v]
        /\ \A j \in DOMAIN rows[v] : [rows[v] EXCEPT ![i] = y][j] = IF j = i THEN y ELSE rows[v][j]
    BY <2>2, <2>3
  <2>7. Tables'
    BY <2>1, <2>4, <2>5, <2>6 DEF Tables
  <2>8. Submitted'
    <3> SUFFICES ASSUME NEW u \in Voters, NEW j \in DOMAIN rows'[u], rows'[u][j].attempt > 0
                 PROVE  OneFirst(rows'[u][j].items)
      BY DEF Submitted
    <3>1. CASE u = v
      BY <2>3, <2>4, <2>6, <3>1 DEF Submitted
    <3>2. CASE u # v
      BY <2>4, <3>2 DEF Submitted
    <3> QED BY <3>1, <3>2
  <2> QED BY <2>7, <2>8
<1>4. ASSUME NEW v \in Voters, NEW p \in Papers, Answer(v, p) PROVE Tables' /\ Submitted'
  <2>1. rows' = rows /\ category' = category
        /\ papers' = [papers EXCEPT ![v] = Append(papers[v], p)]
    BY <1>4 DEF Answer, Elsewhere
  <2>2. papers' = [u \in Voters |-> papers'[u]]
        /\ \A u \in Voters : papers'[u] = IF u = v THEN Append(papers[v], p) ELSE papers[u]
    BY <2>1 DEF Tables
  <2>3. Append(papers[v], p) \in Seq(Papers)
    BY DEF Tables
  <2> QED BY <2>1, <2>2, <2>3 DEF Tables, Submitted
<1> QED BY <1>1, <1>2, <1>3, <1>4
    DEF Next, Step, vars, Acquire, Refuse, LoadVotes, LoadPapers, LoadCompletion, LoadHistory,
        LoadBatches, Publish, Release, Fail, Crash, Expire, table

(* What load_char_votes returns can be counted. *)
LEMMA LatestLoadable == ASSUME Tables PROVE Loadable(LatestPerVote(rows))
<1> DEFINE vs == LatestPerVote(rows)
<1>1. DOMAIN vs = Standing(rows) /\ Standing(rows) \subseteq Voters
      /\ \A v \in Standing(rows) : rows[v] # <<>> /\ vs[v] = Last(Ordered(rows[v])).items
  BY DEF LatestPerVote, Standing, Tables
<1> HIDE DEF vs
<1>2. ASSUME NEW v \in DOMAIN vs PROVE IsFiniteSet(DOMAIN vs[v])
  <2>1. vs[v] \in Seq(Item)
    <3> DEFINE s == Ordered(rows[v])
    <3>1. Len(s) \in DOMAIN s /\ \A i \in DOMAIN s : s[i].items \in Seq(Item)
      BY <1>1, RowsAreHistories
    <3>2. vs[v] = s[Len(s)].items
      BY <1>1 DEF Last
    <3> HIDE DEF s
    <3> QED BY <3>1, <3>2
  <2>2. DOMAIN vs[v] = 1..Len(vs[v]) /\ Len(vs[v]) \in Nat
    BY <2>1
  <2> QED BY <2>2, FS_Interval
<1>3. IsFiniteSet(DOMAIN vs)
  BY <1>1, TallyAssumption, FS_Subset
<1> QED BY <1>2, <1>3 DEF Loadable, vs

(* Computations load what can be counted. *)
LEMMA LoadsStep ==
  ASSUME Tables, Loads, pc \in [Computations -> Working \cup Ended \cup {"idle"}],
         votes = [c \in Computations |-> votes[c]], answers = [c \in Computations |-> answers[c]],
         [Next]_vars
  PROVE  Loads'
<1> USE DEF Loads, Loading, Working, Ended, Goto, Forget
<1>1. ASSUME UNCHANGED <<pc, votes, answers>> PROVE Loads'
  BY <1>1
<1>2. ASSUME NEW c \in Computations, Acquire(c) PROVE Loads'
  BY <1>2 DEF Acquire, loaded
<1>3. ASSUME NEW c \in Computations, Refuse(c) PROVE Loads'
  BY <1>3 DEF Refuse, loaded
<1>4. ASSUME NEW c \in Computations, LoadVotes(c) PROVE Loads'
  BY <1>4, LatestLoadable DEF LoadVotes
<1>5. ASSUME NEW c \in Computations, LoadPapers(c) PROVE Loads'
  <2>1. IsFiniteSet(DOMAIN LatestPapers)
    <3>1. DOMAIN LatestPapers \in SUBSET Voters
      BY DEF LatestPapers
    <3> QED BY <3>1, TallyAssumption, FS_Subset
  <2> QED BY <1>5, <2>1 DEF LoadPapers
<1>6. ASSUME NEW c \in Computations, LoadCompletion(c) PROVE Loads'
  BY <1>6 DEF LoadCompletion
<1>7. ASSUME NEW c \in Computations, LoadHistory(c) PROVE Loads'
  BY <1>7 DEF LoadHistory
<1>8. ASSUME NEW c \in Computations, LoadBatches(c) PROVE Loads'
  BY <1>8 DEF LoadBatches
<1>9. ASSUME NEW c \in Computations, Publish(c) PROVE Loads'
  BY <1>9 DEF Publish
<1>10. ASSUME NEW c \in Computations, Release(c) PROVE Loads'
  BY <1>10 DEF Release, loaded
<1>11. ASSUME NEW c \in Computations, Fail(c) PROVE Loads'
  BY <1>11 DEF Fail
<1>12. ASSUME NEW c \in Computations, Crash(c) PROVE Loads'
  BY <1>12 DEF Crash
<1> QED BY <1>1, <1>2, <1>3, <1>4, <1>5, <1>6, <1>7, <1>8, <1>9, <1>10, <1>11, <1>12
    DEF Next, Step, vars, Expire, Submit, SetInvalidated, Answer, Elsewhere, loaded

(* Functions of the computations. *)
Shaped ==
  /\ pc \in [Computations -> Working \cup Ended \cup {"idle"}]
  /\ votes = [c \in Computations |-> votes[c]]
  /\ answers = [c \in Computations |-> answers[c]]

(* These stay functions. *)
LEMMA ShapedStep == ASSUME Shaped, [Next]_vars PROVE Shaped'
BY DEF Shaped, Loading, Working, Ended, Goto, Forget, Next, Step, vars, Acquire, Refuse,
   LoadVotes, LoadPapers, LoadCompletion, LoadHistory, LoadBatches, Publish, Release, Fail, Crash,
   Expire, Submit, SetInvalidated, Answer, Elsewhere, loaded

(* Only Publish changes the snapshot, and its sections agree. *)
LEMMA SnapshotStep ==
  ASSUME Loads, Agreeing(snapshot), Competition(snapshot.ranking), [Next]_vars
  PROVE  Agreeing(snapshot') /\ Competition(snapshot'.ranking)
<1>1. UNCHANGED snapshot \/ \E c \in Computations : Publish(c)
  BY DEF Next, Step, vars, table, Acquire, Refuse, LoadVotes, LoadPapers,
         LoadCompletion, LoadHistory, LoadBatches, Release, Fail, Crash, Expire, Submit,
         SetInvalidated,
         Answer, Elsewhere
<1>2. ASSUME NEW c \in Computations, Publish(c)
      PROVE  Agreeing(snapshot') /\ Competition(snapshot'.ranking)
  <2>1. Loadable(votes[c]) /\ IsFiniteSet(DOMAIN answers[c])
    BY <1>2 DEF Publish, Loads, Loading
  <2>2. PICK r \in Rankings(votes[c], answers[c], history[c]) :
          Section(snapshot', seen[c], votes[c], answers[c], r, batches[c], complete[c])
    BY <1>2 DEF Publish, Section
  <2> QED BY <2>1, <2>2, SnapshotAgrees
<1> QED BY <1>1, <1>2

(* The invariant holds always. *)
LEMMA CountingHolds == Spec => [](Counting /\ Shaped)
<1>1. Init => Counting /\ Shaped
  BY CountingInit DEF Init, Shaped
<1>2. Counting /\ Shaped /\ [Next]_vars => Counting' /\ Shaped'
  <2> SUFFICES ASSUME Counting, Shaped, [Next]_vars PROVE Counting' /\ Shaped'
    OBVIOUS
  <2>1. Tables' /\ Submitted'
    BY TablesStep DEF Counting
  <2>2. Loads'
    BY LoadsStep DEF Counting, Shaped
  <2>3. Agreeing(snapshot') /\ Competition(snapshot'.ranking)
    BY SnapshotStep DEF Counting
  <2>4. Shaped'
    BY ShapedStep
  <2>5. Agreeing(snapshot)' /\ Competition(snapshot.ranking)'
    BY <2>3 DEF Agreeing, Competition, VotesOf, MapThenSumSet, MapThenFoldSet
  <2> QED BY <2>1, <2>2, <2>4, <2>5 DEF Counting
<1> QED BY <1>1, <1>2, PTL DEF Spec

(* compute_ranking, "equal votes, equal rank; the next one skips ahead". *)
THEOREM RanksAreCompetition == Spec => []RankingIsCompetition
<1>1. Counting => RankingIsCompetition
  BY DEF Counting, Competition, RankingIsCompetition
<1> QED BY <1>1, CountingHolds, PTL

(* net_delta_trends: the increments of all buckets add up to the count.      *)
THEOREM TrendsMatchCounts == Spec => []NetDeltaIsCount
<1>1. Counting => NetDeltaIsCount
  BY VotesAddUp, PaperAnswersAddUp DEF Counting, NetDeltaIsCount
<1> QED BY <1>1, CountingHolds, PTL

(* SubmitValidator and the count: an accepted ballot has one favourite.      *)
THEOREM FavouritesAreSingle == Spec => []OneFavouriteEach
<1>1. Counting => OneFavouriteEach
  BY OneFavourite DEF Counting
<1> QED BY <1>1, CountingHolds, PTL

(* compute_all: the sections of one snapshot agree.                          *)
THEOREM SectionsMatch == Spec => []SectionsAgree
<1>1. Counting => SectionsAgree
  BY AgreeingIs DEF Counting
<1> QED BY <1>1, CountingHolds, PTL

-----------------------------------------------------------------------------
(* Types of the whole component. *)

(* Each of the five is loaded in its turn, and forgotten in the end. *)
Turn ==
  /\ pc \in [Computations -> Working \cup Ended \cup {"idle"}]
  /\ votes = [c \in Computations |-> votes[c]] /\ answers = [c \in Computations |-> answers[c]]
  /\ complete = [c \in Computations |-> complete[c]]
  /\ history = [c \in Computations |-> history[c]]
  /\ batches = [c \in Computations |-> batches[c]]
  /\ \A c \in Computations :
       /\ (votes[c] = Nothing) <=> (pc[c] \notin Loading \ {"votes"})
       /\ (answers[c] = Nothing) <=> (pc[c] \notin {"completion", "history", "batches", "publish"})
       /\ (complete[c] = Nothing) <=> (pc[c] \notin {"history", "batches", "publish"})
       /\ (history[c] = Nothing) <=> (pc[c] \notin {"batches", "publish"})
       /\ (batches[c] = Nothing) <=> (pc[c] # "publish")

(* The commits there are, those a computation has seen, and who has the lock. *)
Counted ==
  /\ commits \in 0..MaxCommits /\ lock \in Computations \cup {NoOne}
  /\ seen \in [Computations -> 0..commits] /\ snapshot.seen \in 0..commits

(* What is loaded is never Nothing. *)
LEMMA SomethingIsLoaded ==
  ASSUME Tables
  PROVE  /\ LatestPerVote(rows) # Nothing /\ HistoryPerVote(rows) # Nothing
         /\ LatestPapers # Nothing /\ PaperHistory # Nothing
         /\ {v \in Voters : papers[v] # <<>> /\ Last(papers[v]).complete} # Nothing
<1> DEFINE X == Seq(Item) \cup Seq(Row) \cup Sheets \cup Seq(Sheets)
<1>1. \A S \in SUBSET Voters : Nothing # S /\ Nothing \notin [S -> X]
  BY TallyAssumption
<1>2. Standing(rows) \in SUBSET Voters /\ \A v \in Standing(rows) : rows[v] # <<>>
  BY DEF Standing, Tables
<1>3. ASSUME NEW v \in Standing(rows)
      PROVE  Ordered(rows[v]) \in Seq(Row) /\ Last(Ordered(rows[v])).items \in Seq(Item)
  <2> DEFINE s == Ordered(rows[v])
  <2>1. /\ s \in Seq(Row) /\ Len(s) \in DOMAIN s /\ \A i \in DOMAIN s : s[i].items \in Seq(Item)
    BY <1>2, RowsAreHistories
  <2> HIDE DEF s
  <2>2. Last(s).items \in Seq(Item)
    BY <2>1 DEF Last
  <2> QED BY <2>1, <2>2 DEF s
<1>4. ASSUME NEW v \in Voters
      PROVE  /\ papers[v] # <<>> => Last(papers[v]).items \in Sheets
             /\ [i \in DOMAIN papers[v] |-> papers[v][i].items] \in Seq(Sheets)
  <2> DEFINE s == papers[v]
  <2>1. s \in Seq(Papers)
    BY DEF Tables
  <2> HIDE DEF s
  <2>2. Len(s) \in Nat /\ DOMAIN s = 1..Len(s) /\ \A i \in 1..Len(s) : s[i] \in Papers
    BY <2>1
  <2>3. \A i \in DOMAIN s : s[i].items \in Sheets
    BY <2>2 DEF Sheets
  <2>4. s # <<>> => Len(s) \in DOMAIN s
    BY <2>1
  <2>5. [i \in DOMAIN s |-> s[i].items] \in Seq(Sheets)
    BY <2>2, <2>3
  <2>6. s # <<>> => Last(s).items \in Sheets
    BY <2>3, <2>4 DEF Last
  <2> QED BY <2>5, <2>6 DEF s
<1> HIDE DEF X
<1>5. LatestPerVote(rows) \in [Standing(rows) -> X] /\ HistoryPerVote(rows) \in [Standing(rows) -> X]
  BY <1>3 DEF LatestPerVote, HistoryPerVote, X
<1>6. PaperHistory \in [Voters -> X]
  BY <1>4 DEF PaperHistory, X
<1>7. \E S \in SUBSET Voters : LatestPapers \in [S -> X]
  <2> DEFINE S == {v \in Voters : papers[v] # <<>> /\ Last(papers[v]).items # <<>>}
  <2>1. LatestPapers = [v \in S |-> Last(papers[v]).items]
    BY DEF LatestPapers
  <2>2. \A v \in S : Last(papers[v]).items \in X
    BY <1>4 DEF X
  <2>3. S \in SUBSET Voters
    OBVIOUS
  <2> HIDE DEF S
  <2> QED BY <2>1, <2>2, <2>3
<1>8. {v \in Voters : papers[v] # <<>> /\ Last(papers[v]).complete} \in SUBSET Voters
  OBVIOUS
<1> QED BY <1>1, <1>2, <1>5, <1>6, <1>7, <1>8

LEMMA TurnStep ==
  ASSUME Tables, Turn, [Next]_vars PROVE Turn'
<1> USE DEF Turn, Loading, Working, Ended, Goto
<1>1. ASSUME UNCHANGED <<pc, loaded>> PROVE Turn'
  BY <1>1 DEF loaded
<1>2. ASSUME NEW c \in Computations, Acquire(c) \/ Refuse(c) PROVE Turn'
  BY <1>2 DEF Acquire, Refuse, loaded
<1>3. ASSUME NEW c \in Computations, LoadVotes(c) PROVE Turn'
  BY <1>3, SomethingIsLoaded DEF LoadVotes
<1>4. ASSUME NEW c \in Computations, LoadPapers(c) PROVE Turn'
  BY <1>4, SomethingIsLoaded DEF LoadPapers
<1>5. ASSUME NEW c \in Computations, LoadCompletion(c) PROVE Turn'
  BY <1>5, SomethingIsLoaded DEF LoadCompletion
<1>6. ASSUME NEW c \in Computations, LoadHistory(c) PROVE Turn'
  BY <1>6, SomethingIsLoaded DEF LoadHistory
<1>7. ASSUME NEW c \in Computations, LoadBatches(c) PROVE Turn'
  BY <1>7, SomethingIsLoaded DEF LoadBatches
<1>8. ASSUME NEW c \in Computations, NEW p \in {"release", "crashed"}, Goto(c, p), Forget(c)
      PROVE  Turn'
  BY <1>8 DEF Forget
<1>9. ASSUME NEW c \in Computations, Release(c) PROVE Turn'
  BY <1>9 DEF Release, loaded
<1>10. ASSUME NEW c \in Computations, Publish(c) \/ Fail(c) \/ Crash(c) PROVE Turn'
  BY <1>8, <1>10 DEF Publish, Fail, Crash
<1> QED BY <1>1, <1>2, <1>3, <1>4, <1>5, <1>6, <1>7, <1>9, <1>10
    DEF Next, Step, vars, Expire, Submit, SetInvalidated, Answer, Elsewhere

LEMMA CountedStep ==
  ASSUME Counted, [Next]_vars PROVE Counted'
<1> USE TallyAssumption DEF Counted
<1>1. ASSUME UNCHANGED <<commits, seen, snapshot>>, lock' \in {lock, NoOne} \cup Computations
      PROVE  Counted'
  BY <1>1
<1>2. ASSUME NEW c \in Computations, LoadVotes(c) PROVE Counted'
  BY <1>2 DEF LoadVotes, table
<1>3. ASSUME NEW c \in Computations, Publish(c) PROVE Counted'
  BY <1>3 DEF Publish, table
<1>4. ASSUME Commit, Elsewhere PROVE Counted'
  BY <1>4 DEF Commit, Elsewhere
<1>5. ASSUME NEW c \in Computations,
             \/ Acquire(c) \/ Refuse(c) \/ LoadPapers(c) \/ LoadCompletion(c) \/ LoadHistory(c)
             \/ LoadBatches(c) \/ Release(c) \/ Fail(c) \/ Crash(c)
      PROVE  Counted'
  BY <1>1, <1>5 DEF Acquire, Refuse, LoadPapers, LoadCompletion, LoadHistory, LoadBatches, Release,
     Fail, Crash, table
<1>6. CASE Expire \/ UNCHANGED vars
  BY <1>1, <1>6 DEF Expire, vars, table
<1> QED BY <1>2, <1>3, <1>4, <1>5, <1>6 DEF Next, Step, Submit, SetInvalidated, Answer

(* compute_all: whatever commits and computations overlap and whichever die, *)
(* nothing is computed from what was not loaded, and no snapshot claims more *)
(* commits than there are.                                                   *)
THEOREM TallyTypes == Spec => []TypeOK
<1>1. Init => Turn /\ Counted
  BY TallyAssumption DEF Init, Turn, Counted, Unpublished, Loading
<1>2. Counting /\ Turn /\ Counted /\ [Next]_vars => Turn' /\ Counted'
  BY TurnStep, CountedStep DEF Counting
<1>3. Counting /\ Turn /\ Counted => TypeOK
  BY DEF Counting, Tables, Turn, Counted, TypeOK
<1> QED BY <1>1, <1>2, <1>3, CountingHolds, PTL DEF Spec
=============================================================================
