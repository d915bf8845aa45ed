-------------------------- MODULE MCCallLifecycle --------------------------
(***************************************************************************)
(* CallLifecycle on one questionnaire: an e-mail address and a date, so    *)
(* that the caller's mail and the appointment both happen.                 *)
(***************************************************************************)
EXTENDS CallLifecycle

MCKeys == {"email", "date"}

Ask(type, order) ==
  [type |-> type, required |-> TRUE, order |-> order, condition |-> Unconditional,
   options |-> {}, scaleMin |-> 1, scaleMax |-> 1]

MCQuestionnaires == {[email |-> Ask("email", 1), date |-> Ask("datetime", 2)]}
=============================================================================
