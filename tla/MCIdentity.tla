----------------------------- MODULE MCIdentity -----------------------------
(* Model values and small sets for checking Identity with TLC. *)
EXTENDS Identity, TLC

CONSTANTS old, fresh,    \* an imported account and an id not used yet
          m1, m2, q1, q2 \* two e-mail addresses and two openids

MCProvider == [s \in Subjects |-> IF s \in {m1, m2} THEN "email" ELSE "qq"]

Row(u, s) == [user |-> u, subject |-> s, by |-> Import]
OneImported == {Row(old, m1)}

Symmetry == Permutations(Requests)
=============================================================================
