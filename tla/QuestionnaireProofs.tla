------------------------ MODULE QuestionnaireProofs ------------------------
(***************************************************************************)
(* What the submit lock does for papers and for the gate, for any number of *)
(* voters, requests and edits, as long as no handler outlives its lock: the *)
(* latest batch of a voter is the rows of a single paper, and whoever       *)
(* passes the gate has answered every group he is shown, if no edit was     *)
(* committed while the gate looked and the rounds of _visible_group_ids are *)
(* enough for the questionnaire.  Types are correct even without the lock.  *)
(***************************************************************************)
EXTENDS Questionnaire, FiniteSetTheorems, WellFoundedInduction, TLAPS

(* The part of the types that the argument needs. *)
Types ==
  /\ papers \in [Voters -> Seq(Batch)]
  /\ lock \in [Voters -> Jobs \cup {NoOne}]
  /\ pc \in [Processes -> {"new"} \cup Working \cup Ended]
  /\ prev \in [Jobs -> Nat]
  /\ request \in [Processes -> {None} \cup Tasks \cup Edits]
  /\ \A j \in Jobs : pc[j] # "new" => request[j] \in Tasks

(* Job j is between its Lock and its DeleteLock. *)
Holds(j) ==
  \/ pc[j] \in {"answers", "insert", "release", "delete"}
  \/ pc[j] = "load" /\ request[j].kind # "structure"

Exclusive == \A j \in Jobs : Holds(j) => lock[request[j].voter] = j

(* Attempts rise along the log of a voter. *)
Rising ==
  \A v \in Voters : \A i, k \in DOMAIN papers[v] :
    i < k => papers[v][i].attempt < papers[v][k].attempt

(* What a job has read is still the highest attempt when it inserts. *)
Current ==
  \A j \in Jobs : pc[j] = "insert" =>
    \A i \in DOMAIN papers[request[j].voter] :
      papers[request[j].voter][i].attempt <= prev[j]

(* Only papers are checked and inserted. *)
OnlyPapers ==
  \A j \in Jobs : pc[j] = "get" => request[j].kind = "structure"

Serial == Types /\ Exclusive /\ Rising /\ Current /\ OnlyPapers

LEMMA SerialInit == Init => Serial
<1> SUFFICES ASSUME Init PROVE Serial
  OBVIOUS
<1>1. \A v \in Voters : papers[v] \in Seq(Batch) /\ Len(papers[v]) <= 1
  <2> TAKE v \in Voters
  <2>1. CASE papers[v] = <<>>
    BY <2>1
  <2>2. ASSUME NEW p \in OldPapers, papers[v] = <<[attempt |-> 0, rows |-> p]>>
        PROVE  papers[v] \in Seq(Batch) /\ Len(papers[v]) <= 1
    BY <2>2 DEF Batch, Papers
  <2> QED BY <2>1, <2>2 DEF Init
<1>2. papers \in [Voters -> Seq(Batch)]
  BY <1>1 DEF Init
<1>3. Rising
  BY <1>1 DEF Rising
<1> QED BY <1>2, <1>3 DEF Init, Serial, Types, Exclusive, Holds, Current, OnlyPapers,
                          Processes, Working, Ended

(* A paper is appended by the job that holds the lock: its attempt is above *)
(* all others, and nobody else of this voter is about to insert.            *)
LEMMA InsertSerial ==
  ASSUME Serial, NEW j \in Jobs, InsertPaper(j) PROVE Serial'
<1> DEFINE v == request[j].voter
           b == [attempt |-> prev[j] + 1, rows |-> request[j].paper]
<1>1. /\ request[j] \in Tasks /\ v \in Voters /\ b \in Batch
      /\ papers[v] \in Seq(Batch) /\ prev[j] \in Nat
  <2>1. request[j] \in Tasks /\ prev[j] \in Nat
    BY DEF Serial, Types, InsertPaper
  <2>2. v \in Voters /\ request[j].paper \in Papers
    BY <2>1, QuestionnaireAssumption DEF Papers
  <2>3. b \in Batch
    BY <2>1, <2>2 DEF Batch
  <2>4. papers[v] \in Seq(Batch)
    BY <2>2 DEF Serial, Types
  <2> QED BY <2>1, <2>2, <2>3, <2>4
<1>2. papers' = [papers EXCEPT ![v] = Append(papers[v], b)]
  BY DEF InsertPaper
<1>3. papers' \in [Voters -> Seq(Batch)]
  BY <1>1, <1>2 DEF Serial, Types
<1>4. \A i \in DOMAIN papers[v] : papers[v][i].attempt \in Nat
  <2> TAKE i \in DOMAIN papers[v]
  <2>1. papers[v][i] \in Batch
    BY <1>1
  <2> QED BY <2>1 DEF Batch
<1>5. Rising'
  <2> SUFFICES ASSUME NEW w \in Voters, NEW i \in DOMAIN papers'[w],
                      NEW k \in DOMAIN papers'[w], i < k
               PROVE  papers'[w][i].attempt < papers'[w][k].attempt
    BY DEF Rising
  <2>1. CASE w # v
    BY <1>2, <2>1 DEF Serial, Types, Rising
  <2>2. CASE w = v /\ k \in DOMAIN papers[v]
    <3>1. i \in DOMAIN papers[v]
      BY <1>1, <1>2, <2>2 DEF Serial, Types
    <3> QED BY <1>1, <1>2, <2>2, <3>1 DEF Serial, Types, Rising
  <2>3. CASE w = v /\ k \notin DOMAIN papers[v]
    <3>1. papers'[w] = Append(papers[v], b)
      BY <1>1, <1>2, <2>3 DEF Serial, Types
    <3>2. k = Len(papers[v]) + 1 /\ i \in DOMAIN papers[v]
      BY <1>1, <3>1, <2>3
    <3>3. papers'[w][k] = b /\ papers'[w][i] = papers[v][i]
      BY <1>1, <3>1, <3>2
    <3>4. papers[v][i].attempt <= prev[j]
      BY <3>2 DEF Serial, Current, InsertPaper
    <3> QED BY <1>1, <1>4, <3>2, <3>3, <3>4
  <2> QED BY <2>1, <2>2, <2>3
<1>6. ASSUME NEW q \in Jobs, q # j, pc[q] = "insert" PROVE request[q].voter # v
  BY <1>6 DEF Serial, Exclusive, Holds, InsertPaper
<1>7. Current'
  <2> SUFFICES ASSUME NEW q \in Jobs, pc'[q] = "insert"
               PROVE  \A i \in DOMAIN papers'[request'[q].voter] :
                        papers'[request'[q].voter][i].attempt <= prev'[q]
    BY DEF Current
  <2>1. q # j /\ pc[q] = "insert" /\ request' = request /\ prev' = prev
    BY DEF InsertPaper, Goto, Serial, Types, Processes
  <2>2. request[q].voter \in Voters /\ request[q].voter # v
    BY <1>6, <2>1, QuestionnaireAssumption DEF Serial, Types
  <2>3. papers'[request[q].voter] = papers[request[q].voter]
    BY <1>2, <2>2 DEF Serial, Types
  <2> QED BY <2>1, <2>3 DEF Serial, Current
<1>8. Types' /\ Exclusive' /\ OnlyPapers'
  BY <1>3 DEF InsertPaper, Goto, Serial, Types, Exclusive, OnlyPapers, Holds, Processes,
              Working, Ended
<1> QED BY <1>5, <1>7, <1>8 DEF Serial

(* The attempt that is read is one of the voter's, and none is above it. *)
LEMMA CheckSerial ==
  ASSUME Serial, NEW j \in Jobs, CheckPaper(j) PROVE Serial'
<1> DEFINE v == request[j].voter
<1>1. v \in Voters /\ papers[v] \in Seq(Batch)
  BY QuestionnaireAssumption DEF Serial, Types, CheckPaper, HasLoaded
<1>2. \A i \in DOMAIN papers[v] : papers[v][i].attempt \in Nat
  <2> TAKE i \in DOMAIN papers[v]
  <2>1. papers[v][i] \in Batch
    BY <1>1
  <2> QED BY <2>1 DEF Batch
<1>3. ASSUME ReadHighest(j, v)
      PROVE  /\ prev' \in [Jobs -> Nat]
             /\ \A q \in Jobs \ {j} : prev'[q] = prev[q]
             /\ \A i \in DOMAIN papers[v] : papers[v][i].attempt <= prev'[j]
  <2>1. CASE papers[v] = <<>> /\ prev' = [prev EXCEPT ![j] = 0]
    BY <2>1 DEF Serial, Types
  <2>2. ASSUME NEW i \in LatestBatch(v), prev' = [prev EXCEPT ![j] = papers[v][i].attempt]
        PROVE  /\ prev' \in [Jobs -> Nat]
               /\ \A q \in Jobs \ {j} : prev'[q] = prev[q]
               /\ \A k \in DOMAIN papers[v] : papers[v][k].attempt <= prev'[j]
    BY <1>2, <2>2 DEF Serial, Types, LatestBatch
  <2> QED BY <1>3, <2>1, <2>2 DEF ReadHighest
<1> USE DEF Serial, Types, Exclusive, Rising, Current, OnlyPapers, Holds, Processes,
      Working, Ended, Goto
<1>4. CASE Valid(loaded[j], request[j].paper)
  BY <1>3, <1>4 DEF CheckPaper, HasLoaded
<1>5. CASE ~ Valid(loaded[j], request[j].paper)
  BY <1>5 DEF CheckPaper, HasLoaded
<1> QED BY <1>4, <1>5

(* Every other step of a job keeps the invariant. *)
LEMMA JobSerial ==
  ASSUME Serial, NEW j \in Jobs,
         \/ Step(j)
         \/ \E task \in Tasks : AskStructure(j, task) \/ AskVoter(j, task)
  PROVE  Serial'
<1> USE QuestionnaireAssumption DEF Serial, Types, Exclusive, Rising, Current, OnlyPapers,
      Holds, Processes, Working, Ended, Goto, voted
<1>1. CASE InsertPaper(j)
  BY <1>1, InsertSerial
<1>2. CASE GetCached(j)
  BY <1>2 DEF GetCached
<1>3. CASE SetCached(j)
  BY <1>3 DEF SetCached, HasLoaded
<1>4. CASE Load(j)
  BY <1>4 DEF Load
<1>5. CASE Lock(j)
  BY <1>5 DEF Lock
<1>6. CASE LockTaken(j)
  BY <1>6 DEF LockTaken
<1>7. CASE CheckPaper(j)
  BY <1>7, CheckSerial
<1>8. CASE GateAnswers(j)
  BY <1>8 DEF GateAnswers
<1>9. CASE GateVerdict(j)
  BY <1>9 DEF GateVerdict, HasLoaded
<1>10. CASE ReadLock(j)
  BY <1>10 DEF ReadLock
<1>11. CASE DeleteLock(j)
  BY <1>11 DEF DeleteLock
<1>12. ASSUME NEW task \in Tasks, AskStructure(j, task) PROVE Serial'
  BY <1>12 DEF AskStructure
<1>13. ASSUME NEW task \in Tasks, AskVoter(j, task) PROVE Serial'
  BY <1>13 DEF AskVoter
<1> QED BY <1>1, <1>2, <1>3, <1>4, <1>5, <1>6, <1>7, <1>8, <1>9, <1>10, <1>11, <1>12,
           <1>13 DEF Step

(* Editors touch neither papers nor locks. *)
LEMMA EditorSerial ==
  ASSUME Serial, NEW e \in Editors,
         EditStep(e) \/ \E edit \in Edits : Route(e, edit)
  PROVE  Serial'
<1> DEFINE Elsewhere ==
             /\ UNCHANGED voted
             /\ \A j \in Jobs : pc'[j] = pc[j] /\ request'[j] = request[j]
             /\ pc' \in [Processes -> {"new"} \cup Working \cup Ended]
             /\ request' \in [Processes -> {None} \cup Tasks \cup Edits]
<1>1. Elsewhere
  <2> USE QuestionnaireAssumption DEF Goto, Serial, Types, Processes, Working, Ended
  <2>1. CASE Check(e)
    BY <2>1 DEF Check
  <2>2. CASE Load(e)
    BY <2>2 DEF Load
  <2>3. CASE Create(e)
    BY <2>3 DEF Create, Commit, Reject
  <2>4. CASE Update(e)
    BY <2>4 DEF Update, Commit, Reject
  <2>5. CASE Delete(e)
    BY <2>5 DEF Delete, Commit
  <2>6. CASE Import(e)
    BY <2>6 DEF Import, Commit, Reject
  <2>7. CASE Finish(e)
    BY <2>7 DEF Finish
  <2>8. ASSUME NEW edit \in Edits, Route(e, edit) PROVE Elsewhere
    <3>1. /\ UNCHANGED voted
          /\ request' = [request EXCEPT ![e] = edit]
          /\ pc' = [pc EXCEPT ![e] = "check"]
      BY <2>8 DEF Route, QuestionnaireRoute, GroupRoute, QuestionRoute, OptionRoute,
         ImportRoute, Begin
    <3> QED BY <3>1
  <2> QED BY <2>1, <2>2, <2>3, <2>4, <2>5, <2>6, <2>7, <2>8 DEF EditStep
<1> QED BY <1>1 DEF Serial, Types, Exclusive, Rising, Current, OnlyPapers, Holds, voted

LEMMA SerialStep ==
  ASSUME MayOverrun = FALSE, Serial, [Next]_vars PROVE Serial'
<1>1. ASSUME NEW p \in Processes, Crash(p) PROVE Serial'
  BY <1>1, QuestionnaireAssumption DEF Crash, Goto, voted, Serial, Types, Exclusive, Rising,
     Current, OnlyPapers, Holds, Processes, Working, Ended
<1>2. ASSUME NEW v \in Voters, ExpireLock(v) PROVE Serial'
  BY <1>2, QuestionnaireAssumption DEF ExpireLock, Serial, Types, Exclusive, Rising,
     Current, OnlyPapers, Holds, Processes, Working, Ended
<1>3. CASE ExpireCache \/ AllEnded \/ UNCHANGED vars
  BY <1>3 DEF ExpireCache, AllEnded, vars, voted, Serial, Types, Exclusive, Rising, Current,
     OnlyPapers, Holds
<1> QED BY <1>1, <1>2, <1>3, JobSerial, EditorSerial DEF Next

(* replace_answers and latest_batch: what get_answers returns is one paper. *)
THEOREM PapersAreWhole == MayOverrun = FALSE /\ Spec => []LatestIsOnePaper
<1> SUFFICES ASSUME MayOverrun = FALSE PROVE Spec => []LatestIsOnePaper
  OBVIOUS
<1>1. Serial /\ [Next]_vars => Serial'
  BY SerialStep
<1>2. Serial => LatestIsOnePaper
  <2> SUFFICES ASSUME Serial, NEW v \in Voters, NEW i \in LatestBatch(v),
                      NEW k \in LatestBatch(v)
               PROVE  i = k
    BY DEF LatestIsOnePaper
  <2>1. /\ i \in 1..Len(papers[v]) /\ k \in 1..Len(papers[v])
        /\ papers[v][i] \in Batch /\ papers[v][k] \in Batch
    BY DEF LatestBatch, Serial, Types
  <2>2. papers[v][i].attempt = papers[v][k].attempt
    BY <2>1 DEF LatestBatch, Batch
  <2> QED BY <2>1, <2>2 DEF Serial, Rising, Batch, LatestBatch
<1> QED BY <1>1, <1>2, SerialInit, PTL DEF Spec

-----------------------------------------------------------------------------
(* The rounds of _visible_group_ids: how many are enough. *)

(* What holds at zero and goes from each number to the next one holds up to M. *)
LEMMA Climb ==
  ASSUME NEW M \in Nat, NEW S, 0 \in S, \A n \in 0..M - 1 : n \in S => n + 1 \in S
  PROVE  0..M \subseteq S
<1> DEFINE bad == (0..M) \ S
           T == {0..i : i \in bad}
           less == StrictSubsetOrdering(0..M)
<1> SUFFICES ASSUME bad # {} PROVE FALSE
  OBVIOUS
<1>1. IsWellFoundedOn(less, FiniteSubsetsOf(0..M))
  BY FS_Interval, FS_StrictSubsetOrderingWellFounded
<1>2. T \subseteq FiniteSubsetsOf(0..M) /\ T # {}
  <2>1. \A i \in bad : 0..i \subseteq 0..M /\ IsFiniteSet(0..i)
    BY FS_Interval
  <2> QED BY <2>1 DEF FiniteSubsetsOf
<1>3. PICK R \in T : \A Q \in T : <<Q, R>> \notin less
  <2> HIDE DEF T, less
  <2> QED BY <1>1, <1>2, WFMin
<1>4. PICK i \in bad : R = 0..i
  BY <1>3
<1>5. i - 1 \in bad
  BY <1>4
<1>6. 0..i - 1 \subseteq 0..i /\ i \in 0..i /\ i \notin 0..i - 1
  BY <1>4
<1>7. 0..i - 1 \in T /\ 0..i \in T
  BY <1>4, <1>5
<1>8. <<0..i - 1, 0..i>> \in less
  BY <1>6, <1>7, <1>2 DEF StrictSubsetOrdering, FiniteSubsetsOf
<1> QED BY <1>3, <1>4, <1>7, <1>8

(* One round of _visible_group_ids. *)
Opening(s, rows, qn, S) == S \cup UNION {Opens(s, rows, qn, g) : g \in S}

RoundsOf(s, rows, qn, M) ==
  CHOOSE round : round = [n \in 0..M |->
    IF n = 0 THEN ShownByDefault(s, qn) ELSE Opening(s, rows, qn, round[n - 1])]

(* Such a sequence of rounds exists. *)
LEMMA RoundsDefined ==
  ASSUME NEW s, NEW rows, NEW qn, NEW M \in Nat
  PROVE  RoundsOf(s, rows, qn, M) = [n \in 0..M |->
           IF n = 0 THEN ShownByDefault(s, qn)
           ELSE Opening(s, rows, qn, RoundsOf(s, rows, qn, M)[n - 1])]
<1> DEFINE Def(f, m) == f = [n \in 0..m |->
             IF n = 0 THEN ShownByDefault(s, qn) ELSE Opening(s, rows, qn, f[n - 1])]
           S == {m \in 0..M : \E f : Def(f, m)}
<1>1. 0 \in S
  <2> DEFINE f == [n \in 0..0 |-> ShownByDefault(s, qn)]
  <2>1. Def(f, 0)
    OBVIOUS
  <2>2. \E h : Def(h, 0)
    <3> HIDE DEF f
    <3> QED BY <2>1
  <2> QED BY <2>2
<1>2. ASSUME NEW m \in 0..M - 1, m \in S PROVE m + 1 \in S
  <2>1. PICK f : Def(f, m)
    BY <1>2
  <2> DEFINE g == [n \in 0..m + 1 |-> IF n = m + 1 THEN Opening(s, rows, qn, f[m]) ELSE f[n]]
  <2>2. \A n \in 0..m : g[n] = f[n]
    OBVIOUS
  <2>3. \A n \in 0..m + 1 : g[n] =
          IF n = 0 THEN ShownByDefault(s, qn) ELSE Opening(s, rows, qn, g[n - 1])
    <3> TAKE n \in 0..m + 1
    <3>1. CASE n = m + 1
      <4>1. g[n] = Opening(s, rows, qn, f[m]) /\ g[n - 1] = f[m]
        BY <3>1, <2>2
      <4> QED BY <3>1, <4>1
    <3>2. CASE n # m + 1
      <4>1. g[n] = f[n] /\ n \in 0..m /\ (n # 0 => g[n - 1] = f[n - 1])
        BY <3>2, <2>2
      <4>2. f[n] = IF n = 0 THEN ShownByDefault(s, qn) ELSE Opening(s, rows, qn, f[n - 1])
        <5> HIDE DEF g
        <5> QED BY <2>1, <4>1
      <4> HIDE DEF g
      <4> QED BY <4>1, <4>2
    <3> QED BY <3>1, <3>2
  <2>4. Def(g, m + 1)
    <3>1. g = [n \in 0..m + 1 |-> g[n]]
      OBVIOUS
    <3> HIDE DEF g
    <3> QED BY <2>3, <3>1, Zenon
  <2>5. \E h : Def(h, m + 1)
    <3> HIDE DEF g
    <3> QED BY <2>4, Zenon
  <2>6. m + 1 \in 0..M
    OBVIOUS
  <2> QED BY <2>5, <2>6
<1>3. M \in S
  <2> HIDE DEF S
  <2>1. 0..M \subseteq S
    BY <1>1, <1>2, Climb
  <2> QED BY <2>1
<1>4. PICK f : Def(f, M)
  BY <1>3
<1> QED BY <1>4, Zenon DEF RoundsOf

LEMMA VisibleIsLastRound ==
  ASSUME NEW s, NEW rows, NEW qn
  PROVE  Visible(s, rows, qn) = RoundsOf(s, rows, qn, MaxRounds)[MaxRounds]
BY Zenon DEF Visible, RoundsOf, Opening

Closed(s, rows, qn, S) == \A g \in S : Opens(s, rows, qn, g) \subseteq S

(* The rounds grow from the default groups; each either is closed or has   *)
(* at least one group more than the one before.                            *)
LEMMA RoundsGrow ==
  ASSUME NEW s, NEW rows, NEW qn, IsFiniteSet(GroupsOf(s, qn)), NEW n \in 0..MaxRounds
  PROVE  LET round == RoundsOf(s, rows, qn, MaxRounds)[n]
         IN  /\ round \subseteq GroupsOf(s, qn)
             /\ ShownByDefault(s, qn) \subseteq round
             /\ ShownByDefault(s, qn) = {} => round = {}
             /\ Closed(s, rows, qn, round) \/ Cardinality(round) > n
<1> DEFINE D == ShownByDefault(s, qn)
           G == GroupsOf(s, qn)
           R == RoundsOf(s, rows, qn, MaxRounds)
           Good == {m \in 0..MaxRounds :
                      /\ R[m] \subseteq G
                      /\ D \subseteq R[m]
                      /\ D = {} => R[m] = {}
                      /\ Closed(s, rows, qn, R[m]) \/ Cardinality(R[m]) > m}
<1>1. MaxRounds \in Nat
  BY QuestionnaireAssumption
<1>2. \A m \in 0..MaxRounds : R[m] = IF m = 0 THEN D ELSE Opening(s, rows, qn, R[m - 1])
  <2>1. R = [m \in 0..MaxRounds |-> IF m = 0 THEN D ELSE Opening(s, rows, qn, R[m - 1])]
    BY <1>1, RoundsDefined
  <2> HIDE DEF R, D
  <2> QED BY <2>1
<1> HIDE DEF R
<1>3. \A g : Opens(s, rows, qn, g) \subseteq G
  BY DEF Opens
<1>4. \A S \in SUBSET G : IsFiniteSet(S) /\ Cardinality(S) \in Nat
  BY FS_Subset, FS_CardinalityType
<1>5. 0 \in Good
  <2>1. D \subseteq G
    BY DEF ShownByDefault, Answerable
  <2>3. 0 \in 0..MaxRounds
    BY <1>1
  <2>4. R[0] = D
    <3> HIDE DEF D
    <3> QED BY <1>2, <2>3
  <2>2. Closed(s, rows, qn, D) \/ Cardinality(D) > 0
    <3>1. D = {} => Closed(s, rows, qn, D)
      BY DEF Closed
    <3>2. D # {} => Cardinality(D) > 0
      <4> HIDE DEF D
      <4> QED BY <2>1, <1>4, FS_EmptySet
    <3> QED BY <3>1, <3>2
  <2> QED BY <2>1, <2>2, <2>3, <2>4
<1>6. ASSUME NEW m \in 0..MaxRounds - 1, m \in Good PROVE m + 1 \in Good
  <2> DEFINE P == R[m]
             Q == R[m + 1]
  <2>1. Q = P \cup UNION {Opens(s, rows, qn, g) : g \in P}
    <3>1. m + 1 \in 0..MaxRounds /\ m + 1 # 0 /\ (m + 1) - 1 = m
      BY <1>1, <1>6
    <3>2. Q = Opening(s, rows, qn, R[(m + 1) - 1])
      BY <1>2, <3>1
    <3> QED BY <3>1, <3>2 DEF Opening
  <2>2. P \subseteq Q /\ Q \subseteq G
    BY <1>3, <1>6, <2>1
  <2>3. D = {} => Q = {}
    BY <1>6, <2>1
  <2>4. CASE Closed(s, rows, qn, P)
    <3>1. Q = P
      BY <2>1, <2>4 DEF Closed
    <3> QED BY <1>1, <1>6, <2>2, <2>3, <2>4, <3>1
  <2>5. CASE ~ Closed(s, rows, qn, P)
    <3>1. Q # P
      BY <2>1, <2>5 DEF Closed
    <3>2. Cardinality(P) > m /\ m \in Nat /\ m + 1 \in 0..MaxRounds
      BY <1>1, <1>6, <2>5
    <3>3. Cardinality(P) <= Cardinality(Q) /\ Cardinality(P) # Cardinality(Q)
      <4> HIDE DEF P, Q
      <4> QED BY <3>1, <2>2, <1>4, FS_Subset
    <3>4. Cardinality(P) \in Nat /\ Cardinality(Q) \in Nat
      BY <1>4, <2>2
    <3>5. Cardinality(Q) > m + 1
      BY <3>2, <3>3, <3>4
    <3> QED BY <1>6, <2>2, <2>3, <3>2, <3>5
  <2> QED BY <2>4, <2>5
<1>7. n \in Good
  <2> HIDE DEF Good
  <2>1. 0..MaxRounds \subseteq Good
    BY <1>1, <1>5, <1>6, Climb
  <2> QED BY <2>1
<1> QED BY <1>7 DEF R

(* Enough rounds: a questionnaire of at most MaxRounds + 1 groups. *)
LEMMA RoundsSuffice ==
  ASSUME NEW s, NEW rows, NEW qn, IsFiniteSet(GroupsOf(s, qn)),
         Cardinality(GroupsOf(s, qn)) <= MaxRounds + 1
  PROVE  /\ Visible(s, rows, qn) \subseteq GroupsOf(s, qn)
         /\ ShownByDefault(s, qn) \subseteq Visible(s, rows, qn)
         /\ ShownByDefault(s, qn) = {} => Visible(s, rows, qn) = {}
         /\ Closed(s, rows, qn, Visible(s, rows, qn))
<1> DEFINE V == Visible(s, rows, qn)
           G == GroupsOf(s, qn)
<1>1. MaxRounds \in Nat /\ MaxRounds \in 0..MaxRounds
  BY QuestionnaireAssumption
<1>2. /\ V \subseteq G /\ ShownByDefault(s, qn) \subseteq V
      /\ ShownByDefault(s, qn) = {} => V = {}
      /\ Closed(s, rows, qn, V) \/ Cardinality(V) > MaxRounds
  BY <1>1, RoundsGrow, VisibleIsLastRound
<1>3. ASSUME Cardinality(V) > MaxRounds PROVE Closed(s, rows, qn, V)
  <2>1. V = G
    <3> HIDE DEF V, G
    <3> QED BY <1>1, <1>2, <1>3, FS_Subset, FS_CardinalityType DEF G
  <2>2. \A g : Opens(s, rows, qn, g) \subseteq G
    BY DEF Opens
  <2> QED BY <2>1, <2>2 DEF Closed
<1> QED BY <1>2, <1>3

(* No questionnaire has more groups than the rounds can open one by one. *)
FewGroups(s) ==
  \A qn \in DOMAIN s["questionnaire"] :
    IsFiniteSet(GroupsOf(s, qn)) /\ Cardinality(GroupsOf(s, qn)) <= MaxRounds + 1

(* Whenever is_complete says so, every group the voter is shown is answered. *)
THEOREM CompleteIsTrue ==
  ASSUME NEW s, NEW rows, FewGroups(s), IsComplete(s, rows) PROVE TrulyComplete(s, rows)
<1> SUFFICES ASSUME NEW qn \in DOMAIN s["questionnaire"], s["questionnaire"][qn].required,
                    Answerable(s, qn) # {}
             PROVE  /\ ShownByDefault(s, qn) # {}
                    /\ \A g \in Shown(s, rows, qn) \cap Answerable(s, qn) :
                         \E row \in rows : row.qn = qn /\ row.group = g /\ IsDone(s, row)
  BY DEF TrulyComplete
<1> DEFINE V == Visible(s, rows, qn)
<1>1. /\ V \cap Answerable(s, qn) # {}
      /\ \A g \in V \cap Answerable(s, qn) :
           \E row \in rows : <<row.qn, row.group>> = <<qn, g>> /\ IsDone(s, row)
  BY Zenon DEF IsComplete, Completed
<1>2. /\ V \subseteq GroupsOf(s, qn)
      /\ ShownByDefault(s, qn) \subseteq V
      /\ ShownByDefault(s, qn) = {} => V = {}
      /\ Closed(s, rows, qn, V)
  BY RoundsSuffice DEF FewGroups
<1>3. Shown(s, rows, qn) \subseteq V
  BY <1>2 DEF Shown, Closed
<1> QED BY <1>1, <1>2, <1>3

-----------------------------------------------------------------------------
(* The gate.  A job has loaded the first levels of what is served, unless   *)
(* the structure has changed since it began.                               *)

Shapes ==
  /\ DOMAIN tables = Level
  /\ loaded = [p \in Processes |-> loaded[p]]
  /\ \A j \in Jobs : loaded[j] = [level \in Level |-> loaded[j][level]]
  /\ DOMAIN since = Jobs
  /\ \A j \in Jobs : IsFiniteSet(since[j])
  /\ depth = [p \in Processes |-> depth[p]]
  /\ \A j \in Jobs : depth[j] \in 0..4
  /\ verdict \in [Jobs -> BOOLEAN]

LoadsOnce ==
  \A j \in Jobs : pc[j] \in {"new", "get", "lock", "answers"} => depth[j] = 0

LoadedWhatIsServed ==
  \A j \in Jobs :
    pc[j] = "load" /\ depth[j] > 0 =>
      /\ Served(tables) \in since[j]
      /\ since[j] = {Served(tables)} =>
           \A i \in 1..depth[j] : loaded[j][Levels[i]] = Served(tables)[Levels[i]]

VerdictIsLast ==
  \A j \in Jobs : verdict[j] => pc[j] \in {"release", "delete"} \cup Ended

Judged ==
  \A j \in Jobs : \A s \in since[j] :
    verdict[j] /\ pc[j] \in {"release", "delete"} /\ since[j] = {s} =>
      TrulyComplete(s, AnswersOf(request[j].voter))

Gated == Shapes /\ LoadsOnce /\ LoadedWhatIsServed /\ VerdictIsLast /\ Judged

LEMMA FourLevels ==
  /\ Len(Levels) = 4
  /\ Levels[1] = "questionnaire" /\ Levels[2] = "group"
  /\ Levels[3] = "question" /\ Levels[4] = "option"
  /\ Level = {"questionnaire", "group", "question", "option"}
<1>1. Level = {Levels[i] : i \in DOMAIN Levels}
  BY DEF Level, Range
<1>2. DOMAIN Levels = 1..4
  BY DEF Levels
<1> QED BY <1>1, <1>2 DEF Levels

(* What is served, level by level. *)
LEMMA ServedByLevel ==
  ASSUME NEW s, DOMAIN s = Level
  PROVE  /\ Served(s) = [level \in Level |-> Served(s)[level]]
         /\ Served(s)[Levels[1]] = s[Levels[1]]
         /\ \A d \in 1..3 : Served(s)[Levels[d + 1]] =
              Below(s[Levels[d + 1]], DOMAIN Served(s)[Levels[d]])
<1> DEFINE groups == Below(s["group"], DOMAIN s["questionnaire"])
           questions == Below(s["question"], DOMAIN groups)
           options == Below(s["option"], DOMAIN questions)
<1>1. Served(s) = [s EXCEPT !["group"] = groups, !["question"] = questions,
                            !["option"] = options]
  BY DEF Served
<1> HIDE DEF groups, questions, options
<1>2. /\ DOMAIN Served(s) = Level
      /\ Served(s) = [level \in Level |-> Served(s)[level]]
      /\ Served(s)["questionnaire"] = s["questionnaire"]
      /\ Served(s)["group"] = groups
      /\ Served(s)["question"] = questions
      /\ Served(s)["option"] = options
  BY <1>1, FourLevels
<1>3. ASSUME NEW d \in 1..3
      PROVE  Served(s)[Levels[d + 1]] = Below(s[Levels[d + 1]], DOMAIN Served(s)[Levels[d]])
  <2>1. CASE d = 1
    BY <1>2, <2>1, FourLevels DEF groups
  <2>2. CASE d = 2
    BY <1>2, <2>2, FourLevels DEF questions
  <2>3. CASE d = 3
    BY <1>2, <2>3, FourLevels DEF options
  <2> QED BY <2>1, <2>2, <2>3
<1> QED BY <1>2, <1>3, FourLevels

LEMMA ServedFew ==
  ASSUME NEW s, DOMAIN s = Level, FewGroups(s) PROVE FewGroups(Served(s))
<1>1. /\ Served(s)["questionnaire"] = s["questionnaire"]
      /\ Served(s)["group"] = Below(s["group"], DOMAIN s["questionnaire"])
  BY ServedByLevel, FourLevels, 1 \in 1..3
<1> SUFFICES ASSUME NEW qn \in DOMAIN s["questionnaire"]
             PROVE  /\ IsFiniteSet(GroupsOf(Served(s), qn))
                    /\ Cardinality(GroupsOf(Served(s), qn)) <= MaxRounds + 1
  BY <1>1 DEF FewGroups
<1>2. GroupsOf(Served(s), qn) \subseteq GroupsOf(s, qn)
  BY <1>1 DEF GroupsOf, Below, Restrict
<1>3. IsFiniteSet(GroupsOf(s, qn)) /\ Cardinality(GroupsOf(s, qn)) <= MaxRounds + 1
  BY DEF FewGroups
<1>4. /\ IsFiniteSet(GroupsOf(Served(s), qn))
      /\ Cardinality(GroupsOf(Served(s), qn)) <= Cardinality(GroupsOf(s, qn))
  BY <1>2, <1>3, FS_Subset
<1>5. /\ Cardinality(GroupsOf(Served(s), qn)) \in Nat /\ Cardinality(GroupsOf(s, qn)) \in Nat
      /\ MaxRounds \in Nat
  BY <1>3, <1>4, FS_CardinalityType, QuestionnaireAssumption
<1> QED BY <1>3, <1>4, <1>5

LEMMA GatedInit == Init => Gated
<1> SUFFICES ASSUME Init PROVE Gated
  OBVIOUS
<1>1. Empty = [level \in Level |-> Empty[level]]
  BY DEF Empty
<1>2. Shapes
  BY <1>1, QuestionnaireAssumption, FS_EmptySet DEF Init, Shapes, Processes
<1> QED BY <1>2 DEF Init, Gated, LoadsOnce, LoadedWhatIsServed, VerdictIsLast, Judged,
                    Processes

(* The rows of the next level are those that are served, if all above are. *)
LEMMA LoadGated ==
  ASSUME Serial, Gated, NEW j \in Jobs, Load(j) PROVE Gated'
<1> DEFINE d == depth[j]
           S == Served(tables)
           level == Levels[d + 1]
           rows == IF d = 0 THEN tables[level]
                   ELSE Below(tables[level], DOMAIN loaded[j][Levels[d]])
<1>1. /\ pc[j] = "load" /\ d \in 0..3 /\ j \in Processes
      /\ loaded' = [loaded EXCEPT ![j] = [loaded[j] EXCEPT ![level] = rows]]
      /\ depth' = [depth EXCEPT ![j] = d + 1]
      /\ since' = IF d = 0 THEN [since EXCEPT ![j] = {S}] ELSE since
      /\ UNCHANGED <<edited, voted, cache, pc, request>>
  BY Zenon, SMT DEF Load, Deepest, Gated, Shapes, Processes
<1>2. level \in Level /\ \A i \in 1..d : Levels[i] # level
  BY <1>1, FourLevels
<1> HIDE DEF level, rows
<1>3. /\ loaded' = [p \in Processes |-> loaded'[p]]
      /\ \A q \in Jobs : loaded'[q] = [l \in Level |-> loaded'[q][l]]
      /\ loaded'[j][level] = rows
      /\ \A q \in Jobs \ {j} : loaded'[q] = loaded[q]
      /\ \A i \in 1..d : loaded'[j][Levels[i]] = loaded[j][Levels[i]]
  <2>1. /\ loaded = [p \in Processes |-> loaded[p]]
        /\ \A q \in Jobs : loaded[q] = [l \in Level |-> loaded[q][l]]
        /\ Jobs \subseteq Processes
    BY DEF Gated, Shapes, Processes
  <2>2. /\ loaded' = [p \in Processes |-> loaded'[p]]
        /\ loaded'[j] = [loaded[j] EXCEPT ![level] = rows]
        /\ \A q \in Jobs \ {j} : loaded'[q] = loaded[q]
    BY <1>1, <2>1
  <2>3. \A i \in 1..d : Levels[i] \in Level
    BY <1>1, FourLevels
  <2> QED BY <1>2, <2>1, <2>2, <2>3
<1>4. /\ DOMAIN since' = Jobs /\ \A q \in Jobs : IsFiniteSet(since'[q])
      /\ \A q \in Jobs \ {j} : since'[q] = since[q]
      /\ d = 0 => since'[j] = {S}
      /\ d # 0 => since'[j] = since[j]
  BY <1>1, FS_Singleton DEF Gated, Shapes
<1>5. /\ \A q \in Jobs : depth'[q] = IF q = j THEN d + 1 ELSE depth[q]
      /\ depth' = [p \in Processes |-> depth'[p]]
  BY <1>1 DEF Gated, Shapes, Processes
<1>6. S \in since'[j]
  BY <1>1, <1>4 DEF Gated, LoadedWhatIsServed
<1>7. ASSUME since'[j] = {S}, NEW i \in 1..d + 1
      PROVE  loaded'[j][Levels[i]] = S[Levels[i]]
  <2>1. \A k \in 1..d : loaded[j][Levels[k]] = S[Levels[k]]
    BY <1>1, <1>4, <1>7 DEF Gated, LoadedWhatIsServed
  <2>2. rows = S[level]
    <3>1. CASE d = 0
      <4>1. level = Levels[1] /\ rows = tables[level]
        BY <3>1 DEF level, rows
      <4> QED BY <4>1, ServedByLevel DEF Gated, Shapes
    <3>2. CASE d # 0
      <4>1. d \in 1..3 /\ d \in 1..d
        BY <1>1, <3>2
      <4>2. rows = Below(tables[level], DOMAIN S[Levels[d]])
        BY <2>1, <3>2, <4>1 DEF rows
      <4> QED BY <4>1, <4>2, ServedByLevel DEF Gated, Shapes, level
    <3> QED BY <3>1, <3>2
  <2>3. CASE i \in 1..d
    BY <1>3, <2>1, <2>3
  <2>4. CASE i = d + 1
    BY <1>3, <2>2, <2>4 DEF level
  <2> QED BY <1>1, <2>3, <2>4
<1>8. Served(tables)' = S /\ pc' = pc /\ tables' = tables /\ request' = request
      /\ papers' = papers /\ verdict' = verdict
  BY <1>1 DEF edited, voted
<1>9. LoadedWhatIsServed'
  <2> SUFFICES ASSUME NEW q \in Jobs, pc'[q] = "load", depth'[q] > 0
               PROVE  /\ S \in since'[q]
                      /\ since'[q] = {S} =>
                           \A i \in 1..depth'[q] : loaded'[q][Levels[i]] = S[Levels[i]]
    BY <1>8 DEF LoadedWhatIsServed
  <2>1. CASE q = j
    BY <1>5, <1>6, <1>7, <2>1
  <2>2. CASE q # j
    BY <1>3, <1>4, <1>5, <1>8, <2>2 DEF Gated, LoadedWhatIsServed
  <2> QED BY <2>1, <2>2
<1>10. Shapes' /\ LoadsOnce' /\ VerdictIsLast'
  <2>1. Shapes'
    <3>1. \A q \in Jobs : depth'[q] \in 0..4
      BY <1>1, <1>5 DEF Gated, Shapes
    <3>2. DOMAIN tables' = Level /\ verdict' \in [Jobs -> BOOLEAN]
      BY <1>8 DEF Gated, Shapes
    <3> QED BY <1>3, <1>4, <1>5, <3>1, <3>2 DEF Shapes
  <2>2. LoadsOnce' /\ VerdictIsLast'
    BY <1>1, <1>5, <1>8 DEF Gated, LoadsOnce, VerdictIsLast
  <2> QED BY <2>1, <2>2
<1>11. Judged'
  <2> SUFFICES ASSUME NEW q \in Jobs, NEW s \in since'[q], verdict[q],
                      pc[q] \in {"release", "delete"}, since'[q] = {s}
               PROVE  TrulyComplete(s, AnswersOf(request[q].voter)')
    BY <1>8 DEF Judged
  <2>1. q # j
    BY <1>1
  <2>2. AnswersOf(request[q].voter)' = AnswersOf(request[q].voter)
    BY <1>8 DEF AnswersOf, LatestBatch
  <2> QED BY <1>4, <2>1, <2>2 DEF Gated, Judged
<1> QED BY <1>9, <1>10, <1>11 DEF Gated

(* What the gate has loaded by then is the only structure there was. *)
LEMMA VerdictGated ==
  ASSUME Serial, Gated, FewGroups(tables), NEW j \in Jobs, GateVerdict(j) PROVE Gated'
<1> DEFINE v == request[j].voter
           S == Served(tables)
<1>1. /\ pc[j] = "load" /\ depth[j] = 4
      /\ verdict' = [verdict EXCEPT ![j] = IsComplete(loaded[j], AnswersOf(v))]
      /\ pc' = [pc EXCEPT ![j] = "release"]
      /\ UNCHANGED <<tables, papers, request, loaded, depth, since>>
  BY DEF GateVerdict, HasLoaded, Deepest, Goto, edited
<1>2. ASSUME NEW s \in since[j], since[j] = {s}, IsComplete(loaded[j], AnswersOf(v))
      PROVE  TrulyComplete(s, AnswersOf(v))
  <2>1. s = S /\ since[j] = {S} /\ \A i \in 1..4 : loaded[j][Levels[i]] = S[Levels[i]]
    BY <1>1, <1>2 DEF Gated, LoadedWhatIsServed
  <2>2. loaded[j] = S
    <3>1. \A level \in Level : loaded[j][level] = S[level]
      BY <2>1, FourLevels
    <3>2. S = [level \in Level |-> S[level]]
      BY ServedByLevel DEF Gated, Shapes
    <3>3. loaded[j] = [level \in Level |-> loaded[j][level]]
      BY DEF Gated, Shapes
    <3> HIDE DEF S
    <3> QED BY <3>1, <3>2, <3>3
  <2>3. FewGroups(S)
    BY ServedFew DEF Gated, Shapes
  <2> QED BY <1>2, <2>1, <2>2, <2>3, CompleteIsTrue
<1>3. IsComplete(loaded[j], AnswersOf(v)) \in BOOLEAN
  BY DEF IsComplete
<1>4. /\ verdict' \in [Jobs -> BOOLEAN]
      /\ \A q \in Jobs \ {j} : verdict'[q] = verdict[q] /\ pc'[q] = pc[q]
      /\ verdict'[j] => IsComplete(loaded[j], AnswersOf(v))
      /\ pc'[j] = "release"
  BY <1>1, <1>3 DEF Gated, Shapes, Serial, Types, Processes
<1>5. Judged'
  <2> SUFFICES ASSUME NEW q \in Jobs, NEW s \in since[q], verdict'[q],
                      pc'[q] \in {"release", "delete"}, since[q] = {s}
               PROVE  TrulyComplete(s, AnswersOf(request[q].voter)')
    BY <1>1 DEF Judged
  <2>1. AnswersOf(request[q].voter)' = AnswersOf(request[q].voter)
    BY <1>1 DEF AnswersOf, LatestBatch
  <2>2. CASE q = j
    BY <1>2, <1>4, <2>1, <2>2
  <2>3. CASE q # j
    BY <1>4, <2>1, <2>3 DEF Gated, Judged
  <2> QED BY <2>2, <2>3
<1>6. Shapes' /\ LoadsOnce' /\ VerdictIsLast'
  BY <1>1, <1>4 DEF Gated, Shapes, LoadsOnce, VerdictIsLast
<1>7. LoadedWhatIsServed'
  BY <1>1, <1>4 DEF Gated, LoadedWhatIsServed
<1> QED BY <1>5, <1>6, <1>7 DEF Gated

(* Papers change under the lock of their voter only. *)
LEMMA InsertGated ==
  ASSUME Serial, Gated, NEW j \in Jobs, InsertPaper(j) PROVE Gated'
<1> DEFINE v == request[j].voter
<1>1. /\ pc[j] = "insert" /\ pc' = [pc EXCEPT ![j] = "release"]
      /\ papers' = [papers EXCEPT ![v] =
           Append(@, [attempt |-> prev[j] + 1, rows |-> request[j].paper])]
      /\ UNCHANGED <<tables, verdict, request, loaded, depth, since>>
  BY DEF InsertPaper, Goto, edited
<1>2. ~ verdict[j]
  BY <1>1 DEF Gated, VerdictIsLast, Ended
<1>3. \A q \in Jobs : pc'[q] = IF q = j THEN "release" ELSE pc[q]
  BY <1>1 DEF Serial, Types, Processes
<1>4. Judged'
  <2> SUFFICES ASSUME NEW q \in Jobs, NEW s \in since[q], verdict[q],
                      pc'[q] \in {"release", "delete"}, since[q] = {s}
               PROVE  TrulyComplete(s, AnswersOf(request[q].voter)')
    BY <1>1 DEF Judged
  <2>1. q # j /\ pc[q] \in {"release", "delete"}
    BY <1>2, <1>3
  <2>2. request[q].voter # v
    BY <1>1, <2>1 DEF Serial, Exclusive, Holds
  <2>3. request'[q].voter = request[q].voter /\ papers'[request[q].voter] = papers[request[q].voter]
    BY <1>1, <2>2 DEF Serial, Types
  <2>4. AnswersOf(request[q].voter)' = AnswersOf(request[q].voter)
    BY <2>3 DEF AnswersOf, LatestBatch
  <2> QED BY <2>1, <2>4 DEF Gated, Judged
<1>5. Shapes' /\ LoadsOnce' /\ VerdictIsLast'
  <2>1. Shapes'
    BY <1>1 DEF Gated, Shapes
  <2>2. LoadsOnce' /\ VerdictIsLast'
    BY <1>1, <1>2, <1>3 DEF Gated, LoadsOnce, VerdictIsLast
  <2> QED BY <2>1, <2>2
<1>6. LoadedWhatIsServed'
  BY <1>1, <1>3 DEF Gated, LoadedWhatIsServed
<1> QED BY <1>4, <1>5, <1>6 DEF Gated

(* A step that only moves one process on, and not into the end of a load. *)
Moves(p, label) ==
  /\ pc' = [pc EXCEPT ![p] = label]
  /\ UNCHANGED <<tables, papers, verdict, since>>
  /\ \A j \in Jobs : loaded'[j] = loaded[j] /\ depth'[j] = depth[j]
  /\ loaded' = [q \in Processes |-> loaded'[q]]
  /\ depth' = [q \in Processes |-> depth'[q]]
  /\ \A j \in Jobs : pc[j] # "new" => request'[j] = request[j]

LEMMA MovesGated ==
  ASSUME Serial, Gated, NEW p \in Processes, NEW label, Moves(p, label),
         p \in Jobs =>
           /\ label = "load" => depth[p] = 0
           /\ label \in {"new", "get", "lock", "answers"} => depth[p] = 0
           /\ verdict[p] => label \in {"release", "delete"} \cup Ended
           /\ label \in {"release", "delete"} =>
                pc[p] \in {"release", "delete"} \/ ~ verdict[p]
  PROVE  Gated'
<1>1. \A j \in Jobs : pc'[j] = IF j = p THEN label ELSE pc[j]
  BY DEF Serial, Types, Processes, Moves
<1>2. Shapes' /\ LoadsOnce' /\ VerdictIsLast' /\ LoadedWhatIsServed'
  <2>1. Shapes'
    BY DEF Moves, Gated, Shapes
  <2>2. LoadsOnce' /\ VerdictIsLast'
    BY <1>1 DEF Moves, Gated, LoadsOnce, VerdictIsLast
  <2>3. LoadedWhatIsServed'
    <3> SUFFICES ASSUME NEW j \in Jobs, pc'[j] = "load", depth'[j] > 0
                 PROVE  /\ Served(tables) \in since[j]
                        /\ since[j] = {Served(tables)} =>
                             \A i \in 1..depth[j] : loaded[j][Levels[i]] = Served(tables)[Levels[i]]
      BY DEF Moves, LoadedWhatIsServed
    <3>1. depth[j] > 0 /\ pc[j] = "load"
      BY <1>1 DEF Moves
    <3> QED BY <3>1 DEF Gated, LoadedWhatIsServed
  <2> QED BY <2>1, <2>2, <2>3
<1>3. Judged'
  <2> SUFFICES ASSUME NEW q \in Jobs, NEW s \in since[q], verdict[q],
                      pc'[q] \in {"release", "delete"}, since[q] = {s}
               PROVE  TrulyComplete(s, AnswersOf(request[q].voter)')
    BY DEF Judged, Moves
  <2>1. pc[q] \in {"release", "delete"}
    BY <1>1
  <2>2. request'[q].voter = request[q].voter /\ papers' = papers
    BY <2>1 DEF Moves
  <2>3. AnswersOf(request[q].voter)' = AnswersOf(request[q].voter)
    BY <2>2 DEF AnswersOf, LatestBatch
  <2> QED BY <2>1, <2>3 DEF Gated, Judged
<1> QED BY <1>2, <1>3 DEF Gated

LEMMA JobGated ==
  ASSUME Serial, Gated, FewGroups(tables), NEW j \in Jobs,
         \/ Step(j)
         \/ \E task \in Tasks : AskStructure(j, task) \/ AskVoter(j, task)
  PROVE  Gated'
<1> USE DEF Goto, edited, voted
<1>1. /\ j \in Processes /\ loaded = [q \in Processes |-> loaded[q]]
      /\ depth = [q \in Processes |-> depth[q]]
      /\ pc[j] \in {"new", "get", "lock", "answers"} => depth[j] = 0
      /\ verdict[j] => pc[j] \in {"release", "delete"} \cup Ended
      /\ request = [q \in Processes |-> request[q]]
  BY DEF Gated, Shapes, LoadsOnce, VerdictIsLast, Processes, Serial, Types
<1> USE DEF Moves, Ended
<1>2. CASE GetCached(j) \/ SetCached(j)
  <2>1. \E label \in {"done", "load"} : Moves(j, label)
                                        /\ (label = "load" => pc[j] = "get")
    BY <1>1, <1>2 DEF GetCached, SetCached
  <2> QED BY <1>1, <2>1, MovesGated
<1>3. CASE Lock(j)
  <2> DEFINE label == CASE request[j].kind = "gate" -> "answers"
                       [] request[j].paper = <<>> -> "release"
                       [] OTHER -> "load"
  <2>1. Moves(j, label) /\ pc[j] = "lock"
    BY <1>1, <1>3, Zenon DEF Lock
  <2>2. label \in {"answers", "release", "load"}
    OBVIOUS
  <2> HIDE DEF label
  <2> QED BY <1>1, <2>1, <2>2, MovesGated
<1>4. CASE LockTaken(j)
  <2>1. Moves(j, "failed") /\ pc[j] = "lock"
    BY <1>1, <1>4 DEF LockTaken
  <2> QED BY <1>1, <2>1, MovesGated
<1>5. CASE CheckPaper(j)
  <2>1. \E label \in {"insert", "release"} : Moves(j, label) /\ pc[j] = "load"
    BY <1>1, <1>5 DEF CheckPaper, HasLoaded
  <2> QED BY <1>1, <2>1, MovesGated
<1>6. CASE GateAnswers(j)
  <2>1. \E label \in {"release", "load"} : Moves(j, label) /\ pc[j] = "answers"
    BY <1>1, <1>6 DEF GateAnswers
  <2> QED BY <1>1, <2>1, MovesGated
<1>7. CASE ReadLock(j)
  <2>1. \E label \in {"delete", "done"} : Moves(j, label) /\ pc[j] = "release"
    BY <1>1, <1>7 DEF ReadLock
  <2> QED BY <1>1, <2>1, MovesGated
<1>8. CASE DeleteLock(j)
  <2>1. Moves(j, "done")
    BY <1>1, <1>8 DEF DeleteLock
  <2> QED BY <1>1, <2>1, MovesGated
<1>9. ASSUME NEW task \in Tasks, AskStructure(j, task) \/ AskVoter(j, task) PROVE Gated'
  <2>1. /\ pc[j] = "new" /\ request' = [request EXCEPT ![j] = task]
        /\ UNCHANGED <<tables, papers, verdict, depth, since, loaded>>
        /\ pc' = [pc EXCEPT ![j] = "get"] \/ pc' = [pc EXCEPT ![j] = "lock"]
    BY <1>9 DEF AskStructure, AskVoter
  <2>2. \A q \in Jobs : pc[q] # "new" => request'[q] = request[q]
    BY <1>1, <2>1
  <2>3. Moves(j, "get") \/ Moves(j, "lock")
    BY <1>1, <2>1, <2>2
  <2> QED BY <1>1, <2>1, <2>3, MovesGated
<1> QED BY <1>2, <1>3, <1>4, <1>5, <1>6, <1>7, <1>8, <1>9, LoadGated, VerdictGated,
           InsertGated DEF Step

(* A commit tells every job that is loading what is served from now on. *)
LEMMA CommitGated ==
  ASSUME Serial, Gated, NEW e \in Editors, NEW s, DOMAIN s = Level, Commit(e, s),
         UNCHANGED <<papers, verdict, depth, loaded, request>>
  PROVE  Gated'
<1>1. /\ tables' = s /\ since' = [j \in Jobs |-> IF pc[j] = "load" THEN since[j] \cup {Served(s)}
                                                 ELSE since[j]]
      /\ \A j \in Jobs : pc'[j] = pc[j]
  BY QuestionnaireAssumption DEF Commit, Goto, Serial, Types, Processes
<1>2. \A j \in Jobs : IsFiniteSet(since'[j])
  <2> TAKE j \in Jobs
  <2>1. IsFiniteSet(since[j]) /\ IsFiniteSet(since[j] \cup {Served(s)})
    BY FS_AddElement DEF Gated, Shapes
  <2> QED BY <1>1, <2>1
<1>3. Shapes' /\ LoadsOnce' /\ VerdictIsLast'
  BY <1>1, <1>2 DEF Gated, Shapes, LoadsOnce, VerdictIsLast
<1>4. LoadedWhatIsServed'
  <2> SUFFICES ASSUME NEW j \in Jobs, pc[j] = "load", depth[j] > 0
               PROVE  /\ Served(s) \in since'[j]
                      /\ since'[j] = {Served(s)} =>
                           \A i \in 1..depth[j] : loaded[j][Levels[i]] = Served(s)[Levels[i]]
    BY <1>1 DEF LoadedWhatIsServed
  <2>1. since'[j] = since[j] \cup {Served(s)}
    BY <1>1
  <2>2. Served(tables) \in since[j]
    BY DEF Gated, LoadedWhatIsServed
  <2>3. ASSUME since'[j] = {Served(s)}
        PROVE  \A i \in 1..depth[j] : loaded[j][Levels[i]] = Served(s)[Levels[i]]
    <3>1. Served(tables) = Served(s) /\ since[j] = {Served(tables)}
      BY <2>1, <2>2, <2>3
    <3> QED BY <3>1 DEF Gated, LoadedWhatIsServed
  <2> QED BY <2>1, <2>3
<1>5. Judged'
  <2> SUFFICES ASSUME NEW q \in Jobs, NEW t \in since'[q], verdict[q],
                      pc[q] \in {"release", "delete"}, since'[q] = {t}
               PROVE  TrulyComplete(t, AnswersOf(request[q].voter)')
    BY <1>1 DEF Judged
  <2>1. AnswersOf(request[q].voter)' = AnswersOf(request[q].voter)
    BY DEF AnswersOf, LatestBatch
  <2>2. since'[q] = since[q]
    BY <1>1
  <2> QED BY <2>1, <2>2 DEF Gated, Judged
<1> QED BY <1>3, <1>4, <1>5 DEF Gated

(* An assignment to one process leaves the others what they have. *)
LEMMA ExceptOne ==
  ASSUME NEW f, f = [q \in Processes |-> f[q]], NEW e \in Processes, NEW x, NEW g,
         g = [f EXCEPT ![e] = x]
  PROVE  /\ g = [q \in Processes |-> g[q]]
         /\ \A q \in Processes : q # e => g[q] = f[q]
<1>1. g = [q \in Processes |-> IF q = e THEN x ELSE f[q]]
  OBVIOUS
<1> QED BY <1>1

LEMMA EditorGated ==
  ASSUME Serial, Gated, NEW e \in Editors,
         EditStep(e) \/ \E edit \in Edits : Route(e, edit)
  PROVE  Gated'
<1>1. /\ e \in Processes /\ e \notin Jobs /\ loaded = [q \in Processes |-> loaded[q]]
      /\ depth = [q \in Processes |-> depth[q]] /\ pc = [q \in Processes |-> pc[q]]
      /\ request = [q \in Processes |-> request[q]]
  BY QuestionnaireAssumption DEF Gated, Shapes, Processes, Serial, Types
<1>2. CASE Check(e)
  <2>1. /\ UNCHANGED <<tables, papers, verdict, since, request>>
        /\ \E label \in {"failed", "commit", "load"} : pc' = [pc EXCEPT ![e] = label]
    BY <1>2 DEF Check, Goto, edited, voted
  <2>2. /\ \E rows : loaded' = [loaded EXCEPT ![e] = rows]
        /\ \E d : depth' = [depth EXCEPT ![e] = d]
    <3>1. CASE UNCHANGED <<loaded, depth>>
      <4>1. loaded' = [loaded EXCEPT ![e] = loaded[e]] /\ depth' = [depth EXCEPT ![e] = depth[e]]
        BY <1>1, <3>1
      <4> QED BY <4>1
    <3>2. CASE ~ UNCHANGED <<loaded, depth>>
      <4>1. /\ \E level, rows : loaded' = [loaded EXCEPT ![e][level] = rows]
            /\ \E d : depth' = [depth EXCEPT ![e] = d]
        BY <1>2, <3>2, Zenon DEF Check
      <4> QED BY <4>1
    <3> QED BY <3>1, <3>2
  <2>3. /\ loaded' = [q \in Processes |-> loaded'[q]] /\ depth' = [q \in Processes |-> depth'[q]]
        /\ \A j \in Jobs : loaded'[j] = loaded[j] /\ depth'[j] = depth[j]
    <3>1. PICK rows : loaded' = [loaded EXCEPT ![e] = rows]
      BY <2>2
    <3>2. PICK d : depth' = [depth EXCEPT ![e] = d]
      BY <2>2
    <3>3. /\ loaded' = [q \in Processes |-> loaded'[q]]
          /\ \A q \in Processes : q # e => loaded'[q] = loaded[q]
      BY <1>1, <3>1, ExceptOne
    <3>4. /\ depth' = [q \in Processes |-> depth'[q]]
          /\ \A q \in Processes : q # e => depth'[q] = depth[q]
      BY <1>1, <3>2, ExceptOne
    <3> QED BY <1>1, <3>3, <3>4 DEF Processes
  <2>4. \E label \in {"failed", "commit", "load"} : Moves(e, label)
    BY <2>1, <2>3 DEF Moves
  <2> QED BY <1>1, <2>4, MovesGated
<1>3. CASE Load(e)
  <2>2. /\ \E level, rows : loaded' = [loaded EXCEPT ![e][level] = rows]
        /\ depth' = [depth EXCEPT ![e] = @ + 1]
        /\ pc[e] = "load" /\ pc' = pc
        /\ UNCHANGED <<tables, papers, verdict, since, request>>
    BY <1>1, <1>3, Zenon DEF Load, edited, voted
  <2>3. pc' = [pc EXCEPT ![e] = "load"]
    BY <1>1, <2>2
  <2>4. /\ \E rows : loaded' = [loaded EXCEPT ![e] = rows]
        /\ \E d : depth' = [depth EXCEPT ![e] = d]
    BY <2>2
  <2>5. /\ loaded' = [q \in Processes |-> loaded'[q]] /\ depth' = [q \in Processes |-> depth'[q]]
        /\ \A j \in Jobs : loaded'[j] = loaded[j] /\ depth'[j] = depth[j]
    <3>1. PICK rows : loaded' = [loaded EXCEPT ![e] = rows]
      BY <2>4
    <3>2. PICK d : depth' = [depth EXCEPT ![e] = d]
      BY <2>4
    <3>3. /\ loaded' = [q \in Processes |-> loaded'[q]]
          /\ \A q \in Processes : q # e => loaded'[q] = loaded[q]
      BY <1>1, <3>1, ExceptOne
    <3>4. /\ depth' = [q \in Processes |-> depth'[q]]
          /\ \A q \in Processes : q # e => depth'[q] = depth[q]
      BY <1>1, <3>2, ExceptOne
    <3> QED BY <1>1, <3>3, <3>4 DEF Processes
  <2>1. Moves(e, "load")
    BY <2>2, <2>3, <2>5 DEF Moves
  <2> QED BY <1>1, <2>1, MovesGated
<1>4. CASE Finish(e)
  <2>1. Moves(e, "done")
    BY <1>1, <1>4 DEF Finish, Moves, Goto, edited, voted
  <2> QED BY <1>1, <2>1, MovesGated
<1>5. ASSUME NEW edit \in Edits, Route(e, edit) PROVE Gated'
  <2>2. /\ request' = [request EXCEPT ![e] = edit]
        /\ pc' = [pc EXCEPT ![e] = "check"]
        /\ UNCHANGED <<tables, papers, verdict, since, loaded, depth>>
    BY <1>5 DEF Route, QuestionnaireRoute, GroupRoute, QuestionRoute, OptionRoute,
       ImportRoute, Begin, Goto, edited, voted
  <2>1. Moves(e, "check")
    BY <1>1, <2>2 DEF Moves
  <2> QED BY <1>1, <2>1, MovesGated
<1>6. CASE Create(e) \/ Update(e) \/ Delete(e) \/ Import(e)
  <2>1. UNCHANGED <<papers, verdict, depth, loaded, request>>
    BY <1>6 DEF Create, Update, Delete, Import, voted
  <2>2. CASE Reject(e)
    <3>1. Moves(e, "failed")
      BY <1>1, <2>1, <2>2 DEF Reject, Moves, Goto
    <3> QED BY <1>1, <3>1, MovesGated
  <2>3. CASE ~ Reject(e)
    <3>1. \E s : DOMAIN s = Level /\ Commit(e, s)
      <4>1. CASE Create(e)
        BY <2>3, <4>1, Zenon DEF Create, Union
      <4>2. CASE Update(e)
        BY <2>3, <4>2 DEF Update, Gated, Shapes
      <4>3. CASE Delete(e)
        BY <4>3, Zenon DEF Delete, Without
      <4>4. CASE Import(e)
        BY <2>3, <4>4, Zenon DEF Import, Union
      <4> QED BY <1>6, <4>1, <4>2, <4>3, <4>4
    <3> QED BY <2>1, <3>1, CommitGated
  <2> QED BY <2>2, <2>3
<1> QED BY <1>2, <1>3, <1>4, <1>5, <1>6 DEF EditStep

LEMMA GatedStep ==
  ASSUME Serial, Gated, FewGroups(tables), [Next]_vars PROVE Gated'
<1>1. ASSUME NEW p \in Processes, Crash(p) PROVE Gated'
  <2>1. Moves(p, "crashed")
    BY <1>1 DEF Crash, Moves, Goto, edited, voted, Gated, Shapes
  <2> QED BY <2>1, MovesGated DEF Ended
<1>2. CASE (\E v \in Voters : ExpireLock(v)) \/ ExpireCache \/ AllEnded \/ UNCHANGED vars
  <2>1. UNCHANGED <<tables, papers, verdict, depth, since, loaded, request, pc>>
    BY <1>2 DEF ExpireLock, ExpireCache, AllEnded, vars, edited, voted
  <2>2. \A v : AnswersOf(v)' = AnswersOf(v)
    BY <2>1 DEF AnswersOf, LatestBatch
  <2>3. Judged'
    <3> SUFFICES ASSUME NEW q \in Jobs, NEW t \in since[q], verdict[q],
                        pc[q] \in {"release", "delete"}, since[q] = {t}
                 PROVE  TrulyComplete(t, AnswersOf(request[q].voter)')
      BY <2>1 DEF Judged
    <3>1. AnswersOf(request[q].voter)' = AnswersOf(request[q].voter)
      BY <2>1 DEF AnswersOf, LatestBatch
    <3> QED BY <3>1 DEF Gated, Judged
  <2> QED BY <2>1, <2>3 DEF Gated, Shapes, LoadsOnce, LoadedWhatIsServed, VerdictIsLast
<1> QED BY <1>1, <1>2, JobGated, EditorGated DEF Next

(* _require_questionnaire: whoever passes has answered every group shown    *)
(* to him, if no edit was committed meanwhile and no questionnaire has more *)
(* groups than the rounds of _visible_group_ids can open.                   *)
THEOREM GateIsSound ==
  MayOverrun = FALSE /\ Spec /\ []FewGroups(tables) => []GateSoundWhenUnedited
<1> SUFFICES ASSUME MayOverrun = FALSE
             PROVE  Spec /\ []FewGroups(tables) => []GateSoundWhenUnedited
  OBVIOUS
<1>1. Serial /\ [Next]_vars => Serial'
  BY SerialStep
<1>2. Serial /\ Gated /\ FewGroups(tables) /\ [Next]_vars => Gated'
  BY GatedStep
<1>3. Gated => GateSoundWhenUnedited
  <2> SUFFICES ASSUME Gated, NEW j \in Jobs, verdict[j], pc[j] \in {"release", "delete"},
                      Cardinality(since[j]) = 1, NEW s \in since[j]
               PROVE  TrulyComplete(s, AnswersOf(request[j].voter))
    BY DEF GateSoundWhenUnedited
  <2>1. since[j] = {s}
    <3>1. \E x : since[j] = {x}
      BY FS_Singleton DEF Gated, Shapes
    <3> QED BY <3>1
  <2> QED BY <2>1 DEF Gated, Judged
<1> QED BY <1>1, <1>2, <1>3, SerialInit, GatedInit, PTL DEF Spec

-----------------------------------------------------------------------------
(* Types of the whole component, with or without the lock. *)

(* Who has loaded what, and what the tables and the cache are. *)
Stored ==
  /\ DOMAIN tables = Level /\ ParentsGiven(tables)
  /\ serial \in [Level -> Nat]
  /\ cache = None \/ DOMAIN cache = Level
  /\ DOMAIN loaded = Processes /\ \A j \in Jobs : DOMAIN loaded[j] = Level
  /\ depth \in [Processes -> 0..4]
  /\ verdict \in [Jobs -> BOOLEAN]
  /\ \A e \in Editors : pc[e] # "new" => request[e] \in Edits

LEMMA TypesInit == Init => Types /\ Stored
<1> SUFFICES ASSUME Init PROVE Types /\ Stored
  OBVIOUS
<1>1. Types
  BY SerialInit DEF Serial
<1>2. tables \in Structures /\ serial = [level \in Level |-> 0] /\ cache = None
      /\ loaded = [p \in Processes |-> Empty] /\ depth = [p \in Processes |-> 0]
      /\ verdict = [j \in Jobs |-> FALSE] /\ pc = [p \in Processes |-> "new"]
  BY DEF Init
<1>3. DOMAIN Empty = Level
  BY DEF Empty
<1> QED BY <1>1, <1>2, <1>3, QuestionnaireAssumption DEF Stored, Processes

(* The papers and the lock, without the order that only the lock gives. *)
LEMMA TypesStep ==
  ASSUME Types, [Next]_vars PROVE Types'
<1> USE QuestionnaireAssumption DEF Types, Processes, Working, Ended, Goto, voted
<1>1. ASSUME NEW j \in Jobs, InsertPaper(j) PROVE Types'
  <2> DEFINE v == request[j].voter
             b == [attempt |-> prev[j] + 1, rows |-> request[j].paper]
  <2>1. request[j] \in Tasks /\ prev[j] \in Nat
    BY <1>1 DEF InsertPaper
  <2>2. v \in Voters /\ b \in Batch
    BY <2>1 DEF Batch, Papers
  <2>3. papers' = [papers EXCEPT ![v] = Append(papers[v], b)] /\ papers[v] \in Seq(Batch)
    BY <1>1, <2>2 DEF InsertPaper
  <2>4. papers' \in [Voters -> Seq(Batch)]
    BY <2>2, <2>3
  <2> QED BY <1>1, <2>4 DEF InsertPaper
<1>2. ASSUME NEW j \in Jobs, CheckPaper(j) PROVE Types'
  <2> DEFINE v == request[j].voter
  <2>1. v \in Voters
    BY <1>2 DEF CheckPaper, HasLoaded
  <2>2. prev' \in [Jobs -> Nat]
    <3>1. CASE UNCHANGED prev
      BY <3>1
    <3>2. CASE papers[v] = <<>> /\ prev' = [prev EXCEPT ![j] = 0]
      BY <3>2
    <3>3. ASSUME NEW i \in LatestBatch(v), prev' = [prev EXCEPT ![j] = papers[v][i].attempt]
          PROVE  prev' \in [Jobs -> Nat]
      <4>1. papers[v][i] \in Batch
        BY <2>1 DEF LatestBatch
      <4> QED BY <3>3, <4>1 DEF Batch
    <3> QED BY <1>2, <3>1, <3>2, <3>3 DEF CheckPaper, ReadHighest
  <2>3. pc[j] # "new" /\ UNCHANGED <<papers, lock, request>>
    BY <1>2 DEF CheckPaper, HasLoaded
  <2>4. pc' \in [Processes -> {"new"} \cup Working \cup Ended]
        /\ \A q \in Jobs \ {j} : pc'[q] = pc[q]
    BY <1>2 DEF CheckPaper
  <2> QED BY <2>2, <2>3, <2>4
<1>3. ASSUME NEW j \in Jobs, \/ GetCached(j) \/ SetCached(j) \/ Load(j) \/ Lock(j) \/ LockTaken(j)
                             \/ GateAnswers(j) \/ GateVerdict(j) \/ ReadLock(j) \/ DeleteLock(j)
      PROVE  Types'
  <2>1. CASE GetCached(j) \/ SetCached(j)
    BY <2>1 DEF GetCached, SetCached, HasLoaded
  <2>2. CASE Load(j)
    BY <2>2 DEF Load
  <2>3. CASE Lock(j)
    BY <2>3 DEF Lock
  <2>6. CASE LockTaken(j)
    BY <2>6 DEF LockTaken
  <2>4. CASE GateAnswers(j) \/ GateVerdict(j)
    BY <2>4 DEF GateAnswers, GateVerdict, HasLoaded
  <2>5. CASE ReadLock(j) \/ DeleteLock(j)
    BY <2>5 DEF ReadLock, DeleteLock
  <2> QED BY <1>3, <2>1, <2>2, <2>3, <2>4, <2>5, <2>6
<1>4. ASSUME NEW j \in Jobs, NEW task \in Tasks, AskStructure(j, task) \/ AskVoter(j, task)
      PROVE  Types'
  BY <1>4 DEF AskStructure, AskVoter
<1>5. ASSUME NEW e \in Editors, EditStep(e) PROVE Types'
  <2>1. UNCHANGED <<voted, request>> /\ \/ UNCHANGED pc
                                        \/ \E label \in {"failed", "commit", "load", "finish", "done"} :
                                             pc' = [pc EXCEPT ![e] = label]
    <3>1. CASE Check(e)
      BY <3>1 DEF Check
    <3>2. CASE Load(e) \/ Finish(e)
      BY <3>2 DEF Load, Finish
    <3>3. CASE Create(e) \/ Update(e) \/ Delete(e) \/ Import(e)
      BY <3>3 DEF Create, Update, Delete, Import, Commit, Reject
    <3> QED BY <1>5, <3>1, <3>2, <3>3 DEF EditStep
  <2> QED BY <2>1
<1>6. ASSUME NEW e \in Editors, NEW edit \in Edits, Route(e, edit) PROVE Types'
  <2>1. /\ request' = [request EXCEPT ![e] = edit] /\ pc' = [pc EXCEPT ![e] = "check"]
        /\ UNCHANGED voted
    BY <1>6 DEF Route, QuestionnaireRoute, GroupRoute, QuestionRoute, OptionRoute, ImportRoute,
       Begin
  <2> QED BY <2>1
<1>7. ASSUME NEW p \in Processes, Crash(p) PROVE Types'
  BY <1>7 DEF Crash
<1>8. ASSUME NEW v \in Voters, ExpireLock(v) PROVE Types'
  BY <1>8 DEF ExpireLock
<1>9. CASE ExpireCache \/ AllEnded \/ UNCHANGED vars
  BY <1>9 DEF ExpireCache, AllEnded, vars
<1> QED BY <1>1, <1>2, <1>3, <1>4, <1>5, <1>6, <1>7, <1>8, <1>9 DEF Next, Step

LEMMA NumberedIsFinite ==
  ASSUME Stored, NEW tree, NEW level \in Level, IsFiniteSet(DOMAIN tree[level])
  PROVE  Cardinality(DOMAIN Numbered(tree)[level]) \in Nat
<1> DEFINE D == DOMAIN tree[level]
           f == [y \in D |-> serial[level] + y]
           I == {serial[level] + y : y \in D}
<1>1. DOMAIN Numbered(tree)[level] = I
  BY DEF Numbered
<1>2. I = {f[y] : y \in D}
  OBVIOUS
<1>3. f \in [D -> I]
  OBVIOUS
<1> HIDE DEF I, f, D
<1>4. f \in Surjection(D, I)
  BY <1>2, <1>3 DEF Surjection
<1>5. IsFiniteSet(I)
  BY <1>4, FS_Surjection DEF D
<1> QED BY <1>1, <1>5, FS_CardinalityType

(* A step that stores nothing. *)
LEMMA StoresNothing ==
  ASSUME Types, Stored, UNCHANGED <<tables, serial, loaded, depth, verdict>>,
         cache' = None \/ DOMAIN cache' = Level,
         \A e \in Editors : pc'[e] # "new" => request'[e] \in Edits
  PROVE  Stored'
  BY DEF Stored, ParentsGiven

LEMMA LoadStores ==
  ASSUME Types, Stored, NEW p \in Processes, Load(p) PROVE Stored'
<1>1. PICK level, rows : loaded' = [loaded EXCEPT ![p][level] = rows]
  BY Zenon DEF Load
<1>2. DOMAIN loaded' = Processes /\ \A j \in Jobs : DOMAIN loaded'[j] = Level
  BY <1>1 DEF Stored, Processes
<1>3. /\ depth' = [depth EXCEPT ![p] = @ + 1] /\ depth[p] < Deepest(p)
      /\ UNCHANGED <<tables, serial, cache, verdict, pc, request>>
  BY DEF Load, edited, voted
<1>4. depth' \in [Processes -> 0..4]
  BY <1>3 DEF Stored, Deepest
<1> QED BY <1>2, <1>3, <1>4 DEF Stored, ParentsGiven

LEMMA JobStores ==
  ASSUME Types, Stored, NEW j \in Jobs,
         \/ Step(j)
         \/ \E task \in Tasks : AskStructure(j, task) \/ AskVoter(j, task)
  PROVE  Stored'
<1>1. j \in Processes /\ j \notin Editors
  BY QuestionnaireAssumption DEF Processes
<1>2. \A label : pc' = [pc EXCEPT ![j] = label] => \A e \in Editors : pc'[e] = pc[e]
  BY <1>1 DEF Types, Processes
<1>3. \A x : request' = [request EXCEPT ![j] = x] => \A e \in Editors : request'[e] = request[e]
  BY <1>1 DEF Types, Processes
<1>4. \A e \in Editors : pc[e] # "new" => request[e] \in Edits
  BY DEF Stored
<1>5. cache = None \/ DOMAIN cache = Level
  BY DEF Stored
<1> USE DEF Goto, edited, voted
<1>6. CASE GetCached(j) \/ LockTaken(j) \/ GateAnswers(j) \/ ReadLock(j)
  BY <1>2, <1>4, <1>5, <1>6, StoresNothing DEF GetCached, LockTaken, GateAnswers, ReadLock
<1>7. CASE Lock(j) \/ InsertPaper(j) \/ DeleteLock(j)
  BY <1>2, <1>4, <1>5, <1>7, StoresNothing DEF Lock, InsertPaper, DeleteLock
<1>8. CASE CheckPaper(j)
  BY <1>2, <1>4, <1>5, <1>8, StoresNothing DEF CheckPaper
<1>9. CASE SetCached(j)
  <2>1. cache' = None \/ DOMAIN cache' = Level
    BY <1>5, <1>9 DEF SetCached, Stored
  <2> QED BY <1>2, <1>4, <1>9, <2>1, StoresNothing DEF SetCached
<1>10. CASE Load(j)
  BY <1>1, <1>10, LoadStores
<1>11. CASE GateVerdict(j)
  <2>1. IsComplete(loaded[j], AnswersOf(request[j].voter)) \in BOOLEAN
    BY DEF IsComplete
  <2>2. verdict' \in [Jobs -> BOOLEAN] /\ UNCHANGED <<tables, serial, cache, request, loaded, depth>>
        /\ \A e \in Editors : pc'[e] = pc[e]
    BY <1>2, <1>11, <2>1 DEF GateVerdict, Stored
  <2> QED BY <2>2 DEF Stored, ParentsGiven
<1>12. CASE \E task \in Tasks : AskStructure(j, task) \/ AskVoter(j, task)
  BY <1>2, <1>3, <1>4, <1>5, <1>12, StoresNothing DEF AskStructure, AskVoter
<1> QED BY <1>6, <1>7, <1>8, <1>9, <1>10, <1>11, <1>12 DEF Step

(* A commit that the constraints let through, or one that is refused. *)
LEMMA CommitStores ==
  ASSUME Types, Stored, NEW e \in Editors, NEW s,
         \/ Commit(e, s) /\ DOMAIN s = Level /\ ParentsGiven(s)
         \/ Reject(e),
         pc[e] # "new",
         serial' \in [Level -> Nat], UNCHANGED <<voted, cache, request, loaded, depth>>
  PROVE  Stored'
<1>1. DOMAIN tables' = Level /\ ParentsGiven(tables')
  BY DEF Commit, Reject, Stored
<1>2. ParentsGiven(tables)'
  BY <1>1 DEF ParentsGiven
<1>3. \A d \in Editors : pc'[d] # "new" => request'[d] \in Edits
  BY DEF Commit, Reject, Goto, Stored, Types, Processes
<1> QED BY <1>1, <1>2, <1>3 DEF Stored, voted

LEMMA EditorStores ==
  ASSUME Types, Stored, NEW e \in Editors,
         EditStep(e) \/ \E edit \in Edits : Route(e, edit)
  PROVE  Stored'
<1>1. e \in Processes /\ e \notin Jobs
  BY QuestionnaireAssumption DEF Processes
<1>2. ASSUME NEW label, pc' = [pc EXCEPT ![e] = label], pc[e] # "new", UNCHANGED request
      PROVE  \A d \in Editors : pc'[d] # "new" => request'[d] \in Edits
  BY <1>2 DEF Types, Stored, Processes
<1>3. Ready(e) => pc[e] # "new"
  BY DEF Ready, HasLoaded
<1>4. cache = None \/ DOMAIN cache = Level
  BY DEF Stored
<1>5. CASE Check(e)
  <2>1. /\ pc[e] = "check" /\ UNCHANGED <<tables, serial, cache, verdict, request>>
        /\ \A d \in Editors : pc'[d] # "new" => request'[d] \in Edits
    BY <1>2, <1>5 DEF Check, Goto, edited, voted
  <2>2. CASE UNCHANGED <<loaded, depth>>
    BY <1>4, <2>1, <2>2, StoresNothing
  <2>3. CASE ~ UNCHANGED <<loaded, depth>>
    <3>1. /\ \E level, rows : loaded' = [loaded EXCEPT ![e][level] = rows]
          /\ request[e].op = "delete"
          /\ depth' = [depth EXCEPT ![e] = Min({3, CHOOSE i \in 1..4 : Levels[i] = request[e].level})]
      BY <1>5, <2>3, Zenon DEF Check
    <3>2. request[e].level \in Level
      BY <2>1, <3>1, QuestionnaireAssumption DEF Stored
    <3>3. \E i \in 1..4 : Levels[i] = request[e].level
      BY <3>2, FourLevels
    <3> DEFINE k == CHOOSE i \in 1..4 : Levels[i] = request[e].level
    <3>4. k \in 1..4
      BY <3>3
    <3> HIDE DEF k
    <3>5. Min({3, k}) \in 0..4
      BY <3>4 DEF Min
    <3>6. depth' \in [Processes -> 0..4]
      BY <3>1, <3>5 DEF k, Stored
    <3>7. DOMAIN loaded' = Processes /\ \A j \in Jobs : DOMAIN loaded'[j] = Level
      BY <1>1, <3>1 DEF Stored, Processes
    <3> QED BY <2>1, <3>6, <3>7 DEF Stored, ParentsGiven
  <2> QED BY <2>2, <2>3
<1>6. CASE Load(e)
  BY <1>1, <1>6, LoadStores
<1>7. CASE Create(e)
  <2> DEFINE edit == request[e]
             id == serial[edit.level] + 1
             s == Union(tables, [Empty EXCEPT ![edit.level] = [x \in {id} |-> edit.row]])
  <2>1. Ready(e) /\ edit.op = "create" /\ UNCHANGED <<voted, cache, request, loaded, depth>>
        /\ serial' = [serial EXCEPT ![edit.level] = id]
        /\ ((Commit(e, s) /\ ParentsGiven(s)) \/ Reject(e))
    BY <1>7 DEF Create, Constraints
  <2>2. edit.level \in Level
    BY <1>3, <2>1, QuestionnaireAssumption DEF Stored
  <2>3. serial' \in [Level -> Nat]
    BY <2>1, <2>2 DEF Stored
  <2>4. DOMAIN s = Level
    BY DEF Union
  <2> HIDE DEF s
  <2> QED BY <1>3, <2>1, <2>3, <2>4, CommitStores
<1>8. CASE Update(e)
  <2>1. PICK s : DOMAIN s = Level /\ ((Commit(e, s) /\ ParentsGiven(s)) \/ Reject(e))
    BY <1>8 DEF Update, Constraints, Stored
  <2>2. Ready(e) /\ UNCHANGED <<voted, serial, cache, request, loaded, depth>>
    BY <1>8 DEF Update
  <2>3. serial' \in [Level -> Nat]
    BY <2>2 DEF Stored
  <2> QED BY <1>3, <2>1, <2>2, <2>3, CommitStores
<1>9. CASE Delete(e)
  <2>1. Commit(e, Without(e)) /\ Ready(e) /\ UNCHANGED <<voted, serial, cache, request, loaded, depth>>
    BY <1>9 DEF Delete
  <2>2. DOMAIN Without(e) = Level /\ ParentsGiven(Without(e))
    BY DEF Without, Restrict, ParentsGiven, Stored
  <2>3. serial' \in [Level -> Nat]
    BY <2>1 DEF Stored
  <2> QED BY <1>3, <2>1, <2>2, <2>3, CommitStores
<1>10. CASE Import(e)
  <2> DEFINE tree == request[e].tree
             new == IF request[e].explicit THEN tree ELSE Numbered(tree)
             s == Union(Without(e), new)
  <2>1. /\ Ready(e) /\ request[e].op = "import" /\ UNCHANGED <<voted, cache, request, loaded, depth>>
        /\ ((Commit(e, s) /\ ParentsGiven(s)) \/ Reject(e))
        /\ \/ UNCHANGED serial
           \/ serial' = [level \in Level |-> serial[level] + Cardinality(DOMAIN Numbered(tree)[level])]
    BY <1>10 DEF Import, Constraints
  <2>2. \A level \in Level : IsFiniteSet(DOMAIN tree[level])
    BY <1>3, <2>1, QuestionnaireAssumption DEF Stored
  <2>3. \A level \in Level : Cardinality(DOMAIN Numbered(tree)[level]) \in Nat
    BY <2>2, NumberedIsFinite
  <2>4. serial' \in [Level -> Nat]
    BY <2>1, <2>3 DEF Stored
  <2>5. DOMAIN s = Level
    BY DEF Union
  <2> HIDE DEF s
  <2> QED BY <1>3, <2>1, <2>4, <2>5, CommitStores
<1>11. CASE Finish(e)
  <2>1. cache' = None \/ DOMAIN cache' = Level
    BY <1>4, <1>11 DEF Finish, Invalidate
  <2> QED BY <1>2, <1>11, <2>1, StoresNothing DEF Finish, Goto, edited, voted
<1>12. ASSUME NEW edit \in Edits, Route(e, edit) PROVE Stored'
  <2>1. /\ request' = [request EXCEPT ![e] = edit] /\ Invalidate
        /\ pc' = [pc EXCEPT ![e] = "check"]
        /\ UNCHANGED <<tables, serial, verdict, loaded, depth>>
    BY <1>12 DEF Route, QuestionnaireRoute, GroupRoute, QuestionRoute, OptionRoute,
       ImportRoute, Begin, Goto, edited, voted
  <2>2. \A d \in Editors : pc'[d] # "new" => request'[d] \in Edits
    BY <1>1, <2>1 DEF Types, Stored, Processes
  <2> QED BY <1>4, <2>1, <2>2, StoresNothing DEF Invalidate
<1> QED BY <1>5, <1>6, <1>7, <1>8, <1>9, <1>10, <1>11, <1>12 DEF EditStep

(* Questionnaire: every stored row has its parent's id, ids only grow, logs  *)
(* hold batches of papers, locks are held by jobs, a cached structure has    *)
(* its four levels - for any edits, papers, crashes and lost locks.          *)
THEOREM PaperTypes == Spec => []TypeOK
<1>1. Types /\ Stored /\ [Next]_vars => (Types /\ Stored)'
  <2> SUFFICES ASSUME Types, Stored, [Next]_vars PROVE Stored'
    BY TypesStep
  <2>1. ASSUME NEW p \in Processes, Crash(p) PROVE Stored'
    BY <2>1, StoresNothing DEF Crash, Goto, Stored, Types, Processes, Working, edited, voted
  <2>2. CASE ExpireCache \/ AllEnded \/ UNCHANGED vars \/ \E v \in Voters : ExpireLock(v)
    BY <2>2, StoresNothing DEF ExpireCache, ExpireLock, AllEnded, vars, Stored, edited, voted
  <2> QED BY <2>1, <2>2, JobStores, EditorStores DEF Next
<1>2. Types /\ Stored => TypeOK
  BY FourLevels DEF Types, Stored, TypeOK
<1> QED BY <1>1, <1>2, TypesInit, PTL DEF Spec
=============================================================================
