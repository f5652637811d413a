----------------------------- MODULE BallotBox -----------------------------
(***************************************************************************)
(* What the append-only vote store promises (SubmitDAO._upsert, the class  *)
(* docstring): every accepted submit appends ONE ballot to the voter's     *)
(* log, numbered one more than the ballot before it, and every edit keeps  *)
(* the fill time the voter reported the first time.  A casting is one      *)
(* atomic step here; VoteSubmit shows what it takes to get there with a    *)
(* Redis lock, a SELECT and an INSERT.                                     *)
(***************************************************************************)
EXTENDS Naturals, Sequences

CONSTANTS Categories,    \* the raw_* tables
          Voters,        \* vote_id values
          LegacyTables,  \* what a voter's table may hold before the vote opens
          Ballots        \* the ballots a submit may hand to the store

VARIABLE box             \* box[c][v]: the ballots of voter v in table c

(* A ballot that follows the log "s": renumbered, the first fill time kept. *)
Following(s, b) ==
  IF s = <<>> \/ s[Len(s)].attempt = 0
    THEN [b EXCEPT !.attempt = 1]
    ELSE [b EXCEPT !.attempt = s[Len(s)].attempt + 1, !.fill = s[Len(s)].fill]

Init == box \in [Categories -> [Voters -> LegacyTables]]

Cast(c, v) ==
  \E b \in Ballots :
    box' = [box EXCEPT ![c][v] = Append(@, Following(box[c][v], b))]

(* The administrator marks a ballot void, or restores it. *)
Mark(c, v, i, value) ==
  box' = [box EXCEPT ![c][v][i].invalidated = value]

Next ==
  \E c \in Categories, v \in Voters :
    \/ Cast(c, v)
    \/ \E i \in DOMAIN box[c][v], value \in BOOLEAN : Mark(c, v, i, value)

Spec == Init /\ [][Next]_box
=============================================================================
