----------------------------- MODULE PaperRules -----------------------------
(***************************************************************************)
(* The pure part of the questionnaire: how stored rows are assembled into  *)
(* the structure that is served (assembler.py, structure_index.py), which  *)
(* papers are valid against it (validation.py) and which are complete      *)
(* (completion.py).                                                        *)
(*                                                                         *)
(* A structure has one table per level, a function from ids to rows; a row *)
(* names its parent in "up".  Texts, codes and the order of siblings are   *)
(* left out, except whether a group comes first.                           *)
(***************************************************************************)
EXTENDS Integers, Sequences, FiniteSetsExt, Functions

CONSTANTS
  None,        \* no id: the parent of a questionnaire, an untouched group
  MaxRounds    \* rounds of _visible_group_ids

Levels == <<"questionnaire", "group", "question", "option">>
Level == Range(Levels)

(* The level of a row's parent; questionnaires have none. *)
Above(level) == Levels[(CHOOSE i \in 1..4 : Levels[i] = level) - 1]

NoRows == [x \in {} |-> None]
Empty == [level \in Level |-> NoRows]

(* The rows of one table that hang below the given parents. *)
Below(table, parents) == Restrict(table, {x \in DOMAIN table : table[x].up \in parents})

(* What load_structure_rows returns when no edit comes between its queries: *)
(* rows without a parent in the tables are never reached.                   *)
Served(s) ==
  LET groups == Below(s["group"], DOMAIN s["questionnaire"])
      questions == Below(s["question"], DOMAIN groups)
  IN  [s EXCEPT !["group"] = groups,
                !["question"] = questions,
                !["option"] = Below(s["option"], DOMAIN questions)]

-----------------------------------------------------------------------------
(* StructureIndex *)

GroupsOf(s, qn) == DOMAIN Below(s["group"], {qn})
QuestionsOf(s, g) == DOMAIN Below(s["question"], {g})
OptionsOf(s, q) == DOMAIN Below(s["option"], {q})

(* question_group.get: the group of a question id that may not exist. *)
GroupOf(s, q) == IF q \in DOMAIN s["question"] THEN s["question"][q].up ELSE None

Answerable(s, qn) == {g \in GroupsOf(s, qn) : QuestionsOf(s, g) # {}}

-----------------------------------------------------------------------------
(* validation.py.  A row of a paper: length is that of the text, blank     *)
(* whether it consists of white space.                                     *)

FitsGroup(s, row) ==
  /\ row.group \in DOMAIN s["group"]
  /\ s["group"][row.group].up = row.qn

FitsQuestion(s, row) ==
  row.question # None => GroupOf(s, row.question) = row.group

FitsOptions(s, row) ==
  /\ IsInjective(row.options)
  /\ row.options # <<>> =>
       /\ row.question # None
       /\ Range(row.options) \subseteq OptionsOf(s, row.question)

FitsText(s, row) ==
  row.length > 0 =>
    /\ row.question # None
    /\ row.length <= s["question"][row.question].limit

(* validate_answer_rows *)
Valid(s, paper) ==
  /\ \A i \in DOMAIN paper :
       /\ FitsGroup(s, paper[i])
       /\ FitsQuestion(s, paper[i])
       /\ FitsOptions(s, paper[i])
       /\ FitsText(s, paper[i])
  /\ \A i, j \in DOMAIN paper :
       i # j => <<paper[i].qn, paper[i].group>> # <<paper[j].qn, paper[j].group>>

(* is_done_row: real content for a question that still exists. *)
IsDone(s, row) ==
  /\ row.question \in DOMAIN s["question"]
  /\ GroupOf(s, row.question) = row.group
  /\ IF s["question"][row.question].input
       THEN row.length > 0 /\ ~ row.blank
       ELSE Range(row.options) \cap OptionsOf(s, row.question) # {}

-----------------------------------------------------------------------------
(* completion.py.  The rows of a voter come as a set.                      *)

(* The groups that the rows of group g open: those of the questions that a *)
(* selected option of the row's question is related to.                    *)
Opens(s, rows, qn, g) ==
  {GroupOf(s, related) : related \in
     UNION {s["option"][o].related :
              o \in UNION {Range(row.options) \cap OptionsOf(s, row.question) :
                row \in {r \in rows : /\ <<r.qn, r.group>> = <<qn, g>>
                                      /\ GroupOf(s, r.question) = g}}}}
    \cap GroupsOf(s, qn)

ShownByDefault(s, qn) ==
  {g \in Answerable(s, qn) : s["group"][g].first \/ ~ s["group"][g].hidden}

(* Mutant of Visible: the groups that are hidden by default stay hidden. *)
VisibleByDefault(s, rows, qn) == ShownByDefault(s, qn)

(* _visible_group_ids: at most MaxRounds rounds. *)
Visible(s, rows, qn) ==
  LET round[n \in 0..MaxRounds] ==
        IF n = 0 THEN ShownByDefault(s, qn)
        ELSE round[n - 1] \cup UNION {Opens(s, rows, qn, g) : g \in round[n - 1]}
  IN  round[MaxRounds]

(* completed_questionnaire_ids, for one questionnaire; a questionnaire that *)
(* has no question yet only asks for a row per group.                       *)
Completed(s, rows, qn) ==
  LET Answered(g) ==
        \E row \in rows : <<row.qn, row.group>> = <<qn, g>> /\ IsDone(s, row)
      visible == Visible(s, rows, qn) \cap Answerable(s, qn)
  IN  IF Answerable(s, qn) = {}
        THEN \A g \in GroupsOf(s, qn) :
               \E row \in rows : <<row.qn, row.group>> = <<qn, g>>
        ELSE visible # {} /\ \A g \in visible : Answered(g)

(* is_complete *)
IsComplete(s, rows) ==
  \A qn \in DOMAIN s["questionnaire"] :
    s["questionnaire"][qn].required => Completed(s, rows, qn)

-----------------------------------------------------------------------------
(* What "complete" is documented to mean: the groups the voter is shown are *)
(* the smallest set that holds the default ones and is closed under Opens,  *)
(* and each has a substantive answer.                                       *)

Shown(s, rows, qn) ==
  LET closed == {S \in SUBSET GroupsOf(s, qn) :
                   /\ ShownByDefault(s, qn) \subseteq S
                   /\ \A g \in S : Opens(s, rows, qn, g) \subseteq S}
  IN  {g \in GroupsOf(s, qn) : \A S \in closed : g \in S}

TrulyComplete(s, rows) ==
  \A qn \in DOMAIN s["questionnaire"] :
    /\ s["questionnaire"][qn].required
    /\ Answerable(s, qn) # {}
    => /\ ShownByDefault(s, qn) # {}
       /\ \A g \in Shown(s, rows, qn) \cap Answerable(s, qn) :
            \E row \in rows :
              /\ row.qn = qn
              /\ row.group = g
              /\ IsDone(s, row)

=============================================================================
