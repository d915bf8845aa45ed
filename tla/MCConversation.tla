--------------------------- MODULE MCConversation ---------------------------
(***************************************************************************)
(* Conversation on questionnaires small enough for TLC that between them   *)
(* have every operator of a condition, an e-mail question, a question that *)
(* is never askable and two questions of the same order.                   *)
(***************************************************************************)
EXTENDS Conversation

MCKeys == {"a", "b", "c"}

Ask(type, order) ==
  [type |-> type, required |-> TRUE, order |-> order, condition |-> Unconditional,
   options |-> {}, scaleMin |-> 1, scaleMax |-> 3]

On(key, operator, value) == [questionKey |-> key, operator |-> operator, value |-> value]

When(q, c) == [q EXCEPT !.condition = c, !.required = FALSE]

\* A branch taken on "yes", with a question of its own under it.
Branching ==
  [a |-> Ask("yes_no", 1),
   b |-> When(Ask("email", 2), On("a", "truthy", Undefined)),
   c |-> When(Ask("free_text", 3), On("a", "not_equals", Bool(1)))]

\* A scale that opens a question below a limit, one above it, and both at it, so that
\* their order matters; one of them comes before the question it depends on.
Graded ==
  [a |-> When(Ask("email", 1), On("b", "gte", Num(2))),
   b |-> Ask("scale", 2),
   c |-> When(Ask("datetime", 3), On("b", "lte", Num(2)))]

\* Two questions of one order, and one whose condition names itself.
Tied ==
  [a |-> Ask("free_text", 1),
   b |-> Ask("budget", 1),
   c |-> When(Ask("phone", 2), On("c", "equals", Text(1)))]

\* An assistant without questions.
Empty == [k \in {} |-> Ask("free_text", 1)]

MCQuestionnaires == {Branching, Graded, Tied, Empty}
=============================================================================
