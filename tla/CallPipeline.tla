---------------------------- MODULE CallPipeline ----------------------------
(***************************************************************************)
(* What the processing of a call promises, whoever performs it and however *)
(* often it is started: nothing is processed without the caller's consent, *)
(* and the effects of the processing appear in one order.  A caller is     *)
(* never mailed about a call that is not billed, no call is "completed"    *)
(* without its summary, and so on.                                         *)
(***************************************************************************)

VARIABLES
  consent,    \* the caller agreed to the processing
  performed   \* the effects the processing has had so far

Effects == {"llm", "summary", "completed", "billed", "tenant_mail", "caller_mail", "appointment"}

\* The effects that come before an effect.
Prerequisites ==
  [llm         |-> {},
   summary     |-> {"llm"},
   completed   |-> {"summary"},
   billed      |-> {"completed"},
   tenant_mail |-> {"billed"},
   caller_mail |-> {"tenant_mail"},
   appointment |-> {"tenant_mail"}]

Init == consent = FALSE /\ performed = {}

GiveConsent ==
  /\ consent' = TRUE
  /\ UNCHANGED performed

Perform(e) ==
  /\ consent
  /\ Prerequisites[e] \subseteq performed
  /\ performed' = performed \cup {e}
  /\ UNCHANGED consent

Next == GiveConsent \/ \E e \in Effects : Perform(e)

Spec == Init /\ [][Next]_<<consent, performed>>
=============================================================================
