------------------------------ MODULE MCTally ------------------------------
(* Small sets for checking Tally with TLC: three candidates, the old id of *)
(* the first one and an unknown token.                                     *)
EXTENDS Tally, TLC

MCCandidates == 1..3
MCTokens == {"1", "2", "3", "old1", "gone"}
MCCanonical == ("1" :> 1) @@ ("2" :> 2) @@ ("3" :> 3) @@ ("old1" :> 1) @@ ("gone" :> 0)
MCSystemId == <<2, 1, 1>>

One(t, f) == [members |-> <<t>>, first |-> f]
Two(t, u, f) == [members |-> <<t, u>>, first |-> f]

MCCategories == {"character", "cp"}
MCBallots ==
  [g \in MCCategories |->
     IF g = "character"
     THEN {<<One("1", TRUE), One("2", FALSE), One("gone", FALSE)>>,
           <<One("old1", FALSE), One("2", TRUE), One("3", FALSE), One("1", FALSE)>>,
           <<>>, <<One("1", TRUE), One("2", TRUE)>>}
     ELSE {<<Two("1", "2", TRUE), Two("3", "3", FALSE), Two("2", "gone", FALSE)>>,
           <<Two("2", "old1", FALSE), Two("3", "3", TRUE)>>,
           <<Two("1", "2", FALSE), Two("2", "1", TRUE)>>,
           <<[members |-> <<"1", "3", "1">>, first |-> TRUE]>>}]

MCLegacy ==
  [g \in MCCategories |->
     IF g = "character"
     THEN {[items |-> <<One("1", TRUE), One("2", FALSE), One("gone", FALSE)>>,
            created |-> -1, invalidated |-> FALSE, attempt |-> 0]}
     ELSE {[items |-> <<Two("2", "old1", FALSE), Two("3", "3", TRUE)>>,
            created |-> -1, invalidated |-> FALSE, attempt |-> 0]}]

MCPapers == {[items |-> <<[question |-> "age", option |-> "old"],
                          [question |-> "gender", option |-> "opt1"]>>, complete |-> TRUE],
             [items |-> <<>>, complete |-> TRUE],
             [items |-> <<[question |-> "gender", option |-> "opt9"]>>, complete |-> FALSE]}
MCLabel == [opt1 |-> "male", opt2 |-> "female"]

(* Voters and computations are interchangeable. *)
Interchange == Permutations(Voters) \cup Permutations(Computations)

MCTimes == {-1, 5}  \* before the start, after the end
=============================================================================
