---------------------------- MODULE MCVoteSubmit ----------------------------
(* Model values and small sets for checking VoteSubmit with TLC. *)
EXTENDS VoteSubmit, TLC

CONSTANTS bot, human   \* two fill times that a check can tell apart

MCFillTimes == {bot, human}

(* A voter has no synced row, or one whose paper is empty (the rows written *)
(* before validate_paper rejected empty papers).                            *)
MCLegacyTables ==
  {<<>>, <<[attempt |-> 0, fill |-> bot, created |-> 0, server |-> TRUE,
            full |-> FALSE, invalidated |-> FALSE]>>}

Symmetry == Permutations(Requests)
=============================================================================
