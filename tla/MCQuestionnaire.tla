-------------------------- MODULE MCQuestionnaire --------------------------
(* Small questionnaires, papers and edits for checking Questionnaire with TLC. *)
EXTENDS Questionnaire, TLC

CONSTANTS v1

Qn(key, required) == [up |-> None, key |-> key, required |-> required]
Group(up, first, hidden) == [up |-> up, first |-> first, hidden |-> hidden]
Question(up, input) == [up |-> up, input |-> input, limit |-> 3]
Option(up, related) == [up |-> up, related |-> related]

Tables(qns, groups, questions, options) ==
  [level \in Level |-> CASE level = "questionnaire" -> qns
                         [] level = "group" -> groups
                         [] level = "question" -> questions
                         [] level = "option" -> options]

(* Option 1 of the first question opens the hidden group. *)
Base == Tables(1 :> Qn("main", TRUE),
               1 :> Group(1, TRUE, FALSE) @@ 2 :> Group(1, FALSE, TRUE),
               1 :> Question(1, FALSE) @@ 2 :> Question(2, TRUE),
               1 :> Option(1, {2}) @@ 2 :> Option(1, {}))

(* A revision that keeps the id of the questionnaire. *)
Revised == Tables(1 :> Qn("main", TRUE),
                  3 :> Group(1, TRUE, FALSE),
                  3 :> Question(3, TRUE),
                  NoRows)

(* A tree without ids. *)
Fresh == Tables(1 :> Qn("extra", FALSE), 1 :> Group(1, TRUE, FALSE), NoRows, NoRows)

MCStructures == {Base}

Answer(g, q, options, length) ==
  [qn |-> 1, group |-> g, question |-> q, options |-> options, length |-> length,
   blank |-> FALSE]

(* One row per group, as the front end sends them. *)
Untouched == <<Answer(1, None, <<>>, 0), Answer(2, None, <<>>, 0)>>
Opened == <<Answer(1, 1, <<1>>, 0), Answer(2, None, <<>>, 0)>>
Full == <<Answer(1, 1, <<1>>, 0), Answer(2, 2, <<>>, 3)>>
Short == <<Answer(1, 1, <<2>>, 0)>>
TooLong == <<Answer(1, 3, <<>>, 4)>>

MCOldPapers == {Full}
UntouchedOnly == {Untouched}

Task(kind, paper) == [kind |-> kind, voter |-> v1, paper |-> paper]
MCTasks == {Task("structure", <<>>), Task("gate", <<>>)}
             \cup {Task("paper", p) : p \in {<<>>, Opened}}

Node(op, level, id, row) == [op |-> op, level |-> level, id |-> id, row |-> row]
Tree(tree, explicit) == [op |-> "import", level |-> "all", tree |-> tree, explicit |-> explicit]

MCEdits == {Node("create", "option", None, Option(1, {2})),
            Node("update", "questionnaire", 1, [key |-> "other"]),
            Node("update", "group", 2, [up |-> None]),
            Node("delete", "group", 2, <<>>),
            Node("delete", "question", 1, <<>>),
            Tree(Revised, TRUE), Tree(Fresh, FALSE)}

(* One reader of the gate against one import. *)
GateTasks == {Task("gate", <<>>)}
Imports == {Tree(Revised, TRUE)}

(* A group is moved below a questionnaire that a later import brings. *)
Moves == {Node("update", "group", 2, [up |-> 2]),
          Tree([Revised EXCEPT !["questionnaire"] = 2 :> Qn("main", TRUE),
                               !["group"] = 1 :> Group(2, TRUE, FALSE)], TRUE)}
=============================================================================
