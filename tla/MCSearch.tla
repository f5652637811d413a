------------------------------ MODULE MCSearch ------------------------------
(* Model values and small sets for checking Search with TLC. *)
EXTENDS Search, TLC

CONSTANTS a, b, old, m,  \* two characters, the old id of a, a piece of music
          c1, c2, here, v1, v2,
          pair, pick, neither, spelling, respelling, nobody

MCCategories == {"character", "music"}
MCCanonical == [t \in Tokens |-> IF t = old THEN a ELSE t]

(* Both characters are called "B" as well, "Z" is nobody's name. *)
MCNamed == [cat \in MCCategories |-> [n \in QueryNames |->
  CASE cat = "music" -> IF n = "M" THEN {m} ELSE {}
    [] n = "A" -> {a}
    [] n = "B" -> {a, b}
    [] OTHER -> {}]]

MCAddress == [c \in Callers |-> IF c = c1 THEN here ELSE NoAddress]
MCLimit == [s \in Counters |-> 1]

Of(char, music) == [cat \in MCCategories |-> IF cat = "music" THEN music ELSE char]

(* Ballots that satisfy the query by a pair only, by a character and an answer,
   and not at all, although the same names occur. *)
MCContent ==
  pair    :> [picks |-> Of({old}, {}), first |-> Of({}, {}),
              pairs |-> {<<a, old, b>>}, answers |-> {<<"1", "2">>}] @@
  pick    :> [picks |-> Of({old}, {m}), first |-> Of({}, {}),
              pairs |-> {<<a, b>>}, answers |-> {<<"1", "1">>}] @@
  neither :> [picks |-> Of({b}, {m}), first |-> Of({b}, {}),
              pairs |-> {<<a, a, a>>}, answers |-> {<<"1", "2">>}]

MCEarly == [v \in Voters |-> CASE v = v1 -> Nothing [] v = v2 -> pick [] OTHER -> neither]
MCLate == [v \in Voters |-> IF v = v1 THEN {pair} ELSE {}]

Yes == Choice("1", "1")
BestMusic == First("music", "M")

(* Two spellings of one query, and a query about nobody. *)
MCTyped ==
  spelling   :> Some(<<All(<<AnyOf("character", <<"B", "A">>), All(<<Yes, Yes>>)>>),
                       BestMusic, Pair(<<"A", "B", "A">>)>>) @@
  respelling :> Some(<<Pair(<<"A", "A", "B">>),
                       Some(<<BestMusic,
                              All(<<Yes, AnyOf("character", <<"A", "B", "A">>)>>)>>)>>) @@
  nobody     :> First("character", "Z")

MCAsks == [c \in Callers |-> IF c = c1 THEN {spelling, NoQuery} ELSE {respelling, nobody}]
=============================================================================
