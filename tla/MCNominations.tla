---------------------------- MODULE MCNominations ----------------------------
(* Two requests of one voter over four urls, for checking Nominations. *)
EXTENDS Nominations

MCUrls == 1..4
MCTitle == <<2, 1, 3, 4>>
MCWorkOf == <<"A", "B", "C", "D">>
MCUdid == <<"a", "b", "c", "d">>
MCAllowed == {1, 2, 3}
MCDate == <<"inside", "unknown", "outside", "inside">>
MCBatches == [r1 |-> {<<1, 2>>, <<1, 1, 1>>}, r2 |-> {<<3, 1>>, <<4, 1>>}]
MCVoterOf == [r1 |-> "v1", r2 |-> "v1"]
MCRequests == DOMAIN MCVoterOf
=============================================================================
