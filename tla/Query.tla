------------------------------- MODULE Query -------------------------------
(***************************************************************************)
(* The constraint language of the advanced search: dsl.py and subset.py.   *)
(*                                                                         *)
(* A query is a tree of "and" and "or" over five kinds of conditions; what *)
(* the two categories of names share is one kind with a category. A normal *)
(* form is a tree again, whose lists are in canonical order; here that is  *)
(* one order, whichever, for each set, and one for each bag.               *)
(***************************************************************************)
EXTENDS Integers, Sequences, SequencesExt, FiniteSetsExt

CONSTANTS
  Categories,  \* "character" and "music"
  Characters,  \* the category whose names a pair is made of
  QueryNames,  \* names in queries
  Tokens,      \* ids on ballots: a candidate's id, its old id, unknown ids
  Canonical,   \* Canonical[t]: Whitelist.canonical(t), the token itself if None
  Named,       \* Named[cat][n]: the candidates called n, {} for an unknown name
  MaxAtoms,    \* 20
  MaxDepth     \* 5

ASSUME QueryAssumption ==
  /\ Characters \in Categories
  /\ Canonical \in [Tokens -> Tokens]
  /\ Named \in [Categories -> [QueryNames -> SUBSET Tokens]]
  /\ MaxAtoms \in Nat \ {0}
  /\ MaxDepth \in Nat \ {0}

(* What a voter handed in: the four sections of votes, per candidate token. *)
Ballot == [picks   : [Categories -> SUBSET Tokens],
           first   : [Categories -> SUBSET Tokens],
           pairs   : SUBSET Seq(Tokens),
           answers : SUBSET (STRING \X STRING)]

Choice(question, option) == [op |-> "q", question |-> question, option |-> option]
AnyOf(cat, names) == [op |-> "any", cat |-> cat, names |-> names]
First(cat, name) == [op |-> "first", cat |-> cat, name |-> name]
Pair(names) == [op |-> "cp", names |-> names]
All(kids) == [op |-> "and", kids |-> kids]
Some(kids) == [op |-> "or", kids |-> kids]

Group == {"and", "or"}

Conditions ==
  [op : {"q"}, question : STRING, option : STRING]
  \cup [op : {"any"}, cat : Categories, names : Seq(QueryNames)]
  \cup [op : {"first"}, cat : Categories, name : QueryNames]
  \cup [op : {"cp"}, names : Seq(QueryNames)]

(* Trees[d]: the queries of at most d levels. *)
Trees[d \in 1..MaxDepth] ==
  IF d = 1 THEN Conditions ELSE Trees[d - 1] \cup [op : Group, kids : Seq(Trees[d - 1])]

(* What a query may be; nothing deeper is evaluated. *)
Sentences == Trees[MaxDepth]

-----------------------------------------------------------------------------
(* dsl.py *)

Atoms[n \in Sentences] ==
  IF n.op \in Group THEN SumFunction([i \in DOMAIN n.kids |-> Atoms[n.kids[i]]]) ELSE 1

(* _check_limits, on the tree as it was typed. *)
WithinLimits(n) == n \in Sentences /\ Atoms[n] <= MaxAtoms

(* sorted(set(...)) *)
SortedOnce(S) == SetToSeq(S)

(* The permutations of a list. *)
Arrangements(s) ==
  {[i \in DOMAIN s |-> s[p[i]]] : p \in Bijection(DOMAIN s, DOMAIN s)}

(* Mutant of PairMembers: the names of a pair lose their repetitions too. *)
PairMembersOnce(names) == SortedOnce(Range(names))

(* sorted(names), not sorted(set(names)). *)
PairMembers(names) == CHOOSE s \in Arrangements(names) : TRUE

(* normalize: groups lose order and repetition, a group within a group of  *)
(* its kind dissolves, and a group of one is its only member.              *)
Normalize[n \in Sentences] ==
  CASE n.op \in Group ->
         LET Flat(k) == IF k.op = n.op THEN Range(k.kids) ELSE {k}
             flat == UNION {Flat(Normalize[n.kids[i]]) : i \in DOMAIN n.kids}
         IN  IF \E k \in flat : flat = {k} THEN CHOOSE k \in flat : TRUE
             ELSE [n EXCEPT !.kids = SortedOnce(flat)]
    [] n.op = "any" -> [n EXCEPT !.names = SortedOnce(Range(n.names))]
    [] n.op = "cp"  -> [n EXCEPT !.names = PairMembers(n.names)]
    [] OTHER        -> n

-----------------------------------------------------------------------------
(* subset.py *)

Mentioned[n \in Sentences] ==
  CASE n.op \in Group  -> UNION {Mentioned[n.kids[i]] : i \in DOMAIN n.kids}
    [] n.op = "any"    -> {<<n.cat, name>> : name \in Range(n.names)}
    [] n.op = "first"  -> {<<n.cat, n.name>>}
    [] n.op = "cp"     -> {<<Characters, name>> : name \in Range(n.names)}
    [] OTHER           -> {}

(* resolve_names: every name of the query is a candidate's. *)
AllKnown(n) == \A m \in Mentioned[n] : Named[m[1]][m[2]] # {}

Canon(tokens) == {Canonical[t] : t \in tokens}

(* Some permutation of the names fits the members one by one. *)
Fits(members, names) ==
  /\ Len(members) = Len(names)
  /\ \E order \in Arrangements(names) :
       \A i \in DOMAIN members : Canonical[members[i]] \in Named[Characters][order[i]]

(* evaluate_subset for one voter: does ballot b satisfy the query n? *)
Holds(n, b) ==
  LET ok[k \in Sentences] ==
        CASE k.op = "and"   -> \A i \in DOMAIN k.kids : ok[k.kids[i]]
          [] k.op = "or"    -> \E i \in DOMAIN k.kids : ok[k.kids[i]]
          [] k.op = "q"     -> <<k.question, k.option>> \in b.answers
          [] k.op = "any"   -> \E i \in DOMAIN k.names :
                                 Named[k.cat][k.names[i]] \cap Canon(b.picks[k.cat]) # {}
          [] k.op = "first" -> Named[k.cat][k.name] \cap Canon(b.first[k.cat]) # {}
          [] OTHER          -> \E members \in b.pairs : Fits(members, k.names)
  IN  ok[n]
=============================================================================
