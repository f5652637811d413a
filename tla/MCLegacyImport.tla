--------------------------- MODULE MCLegacyImport ---------------------------
(* A dump of four voters for checking LegacyImport with TLC. *)
EXTENDS LegacyImport

Voter(email, phone, qq, seen, born) ==
  [email |-> email, phone |-> phone, qq |-> qq, seen |-> seen, born |-> born]

(* Two records of one address, the later one with the phone and with the   *)
(* activity; a voter with a phone only; and an account with QQ.            *)
MCDump == << Voter("a", "None", "None", 0, 1),
             Voter("a", "p", "None", 2, 2),
             Voter("None", "t", "None", 0, 3),
             Voter("b", "None", "q", 1, 1) >>
MCSkipped == {}
WholeDump == {4}
PartOfDump == {1, 4}
=============================================================================
