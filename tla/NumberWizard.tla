---------------------------- MODULE NumberWizard ----------------------------
(***************************************************************************)
(* The phone page of the dashboard and its wizard for adding a number      *)
(* (NumberWizard.tsx, phone/page.tsx).  A wizard that is closed is gone,   *)
(* but its request is not: the API still serves it, and the callback of a  *)
(* purchase still runs.                                                    *)
(***************************************************************************)
EXTENDS Naturals, FiniteSets

CONSTANTS
  Wizards,       \* openings of the wizard
  NoWizard,
  DidsToBuy      \* numbers a search may find

ASSUME WizardAssumption == NoWizard \notin Wizards

VARIABLES
  assistantCount,   \* how many assistants the page has loaded, "several" as 2
  provisioning, \* canProvision of the API's telephony information
  current,      \* the wizard on the page
  wizard,       \* wizard[w]: its state variables
  call,         \* call[w]: its request, and whether the API has served it
  created,      \* numbers the tenant has got: <<wizard, number>>
  listed,       \* numbers the page shows
  lost,         \* history: wizards one of whose replies did not arrive
  leftEarly     \* history: a wizard was closed before its result was confirmed

wizardVars == <<assistantCount, provisioning, current, wizard, call, created, listed, lost, leftEarly>>

Modes == {"choose", "carrier", "forward-setup", "forward-done", "purchase", "sip"}
PoolNumber == "pool"  \* the routing number keep-number assigns

NewWizard == [mode |-> "choose", own |-> FALSE, assistant |-> assistantCount = 1, busy |-> FALSE,
              results |-> {}, routing |-> {}]
\* An opening that has not happened yet, or is over: its state is gone.
Unmounted(mode) == [mode |-> mode, own |-> FALSE, assistant |-> FALSE, busy |-> FALSE,
                    results |-> {}, routing |-> {}]
NoCall == [kind |-> "none", at |-> "idle", number |-> PoolNumber]

WizardInit ==
  /\ assistantCount \in 0 .. 2 /\ provisioning \in BOOLEAN
  /\ current = NoWizard
  /\ wizard = [w \in Wizards |-> Unmounted("unopened")]
  /\ call = [w \in Wizards |-> NoCall]
  /\ created = {} /\ listed = {} /\ lost = {} /\ leftEarly = FALSE

Config == <<assistantCount, provisioning>>
Server == <<call, created, listed, lost, leftEarly>>

---------------------------------------------------------------------------
(* What the user does.                                                      *)

OpenWizard(w) ==
  /\ current = NoWizard /\ wizard[w].mode = "unopened"
  /\ current' = w
  /\ wizard' = [wizard EXCEPT ![w] = NewWizard]
  /\ UNCHANGED <<Config, Server>>

\* The wizard on the page, if there is one, is closed.
Unmount ==
  /\ current' = NoWizard
  /\ wizard' = [w \in Wizards |-> IF w = current THEN Unmounted("closed") ELSE wizard[w]]

\* The cross, the backdrop and the button of the SIP page: allowed at any time.
CloseWizard(w) ==
  /\ current = w
  /\ Unmount
  /\ leftEarly' = (leftEarly \/ call[w] # NoCall \/ wizard[w].mode = "forward-done")
  /\ UNCHANGED <<Config, call, created, listed, lost>>

\* The buttons that only change the mode; none of them looks at busy.
Steps == {<<"choose", "carrier">>, <<"choose", "purchase">>, <<"choose", "sip">>,
          <<"carrier", "choose">>, <<"carrier", "forward-setup">>, <<"forward-setup", "carrier">>,
          <<"purchase", "choose">>, <<"sip", "choose">>}

ChooseMode(w, mode) ==
  /\ current = w /\ <<wizard[w].mode, mode>> \in Steps
  /\ mode = "purchase" => provisioning
  /\ wizard' = [wizard EXCEPT ![w].mode = mode]
  /\ UNCHANGED <<Config, current, Server>>

EnterNumber(w) ==
  /\ current = w /\ wizard[w].mode = "forward-setup" /\ ~wizard[w].own
  /\ wizard' = [wizard EXCEPT ![w].own = TRUE]
  /\ UNCHANGED <<Config, current, Server>>

SelectAssistant(w) ==
  /\ current = w /\ wizard[w].mode \in {"forward-setup", "purchase"} /\ assistantCount > 0
  /\ wizard' = [wizard EXCEPT ![w].assistant = TRUE]
  /\ UNCHANGED <<Config, current, Server>>

AssistantOk(w) == assistantCount > 0 /\ (assistantCount > 1 => wizard[w].assistant)

Send(w, kind, number) ==
  /\ wizard' = [wizard EXCEPT ![w].busy = TRUE]
  /\ call' = [call EXCEPT ![w] = [kind |-> kind, at |-> "sent", number |-> number]]
  /\ UNCHANGED <<Config, current, created, listed, lost, leftEarly>>

\* saveForward, with a number in E.164 form.
SaveForward(w) ==
  /\ current = w /\ wizard[w].mode = "forward-setup" /\ ~wizard[w].busy
  /\ wizard[w].own /\ AssistantOk(w)
  /\ Send(w, "keep", PoolNumber)

SearchNumbers(w) ==
  /\ current = w /\ wizard[w].mode = "purchase" /\ ~wizard[w].busy
  /\ Send(w, "search", PoolNumber)

BuyNumber(w, n) ==
  /\ current = w /\ wizard[w].mode = "purchase" /\ ~wizard[w].busy
  /\ n \in wizard[w].results /\ AssistantOk(w)
  /\ Send(w, "buy", n)

\* "Fertig": onCreated.
Finish(w) ==
  /\ current = w /\ wizard[w].mode = "forward-done"
  /\ Unmount /\ listed' = created
  /\ UNCHANGED <<Config, call, created, lost, leftEarly>>

\* The page loads its list, as after a removal or a reassignment.
ReloadList == listed' = created /\ UNCHANGED <<Config, current, wizard, call, created, lost, leftEarly>>

---------------------------------------------------------------------------
(* The API and its answers.                                                 *)

Serve(w) ==
  /\ call[w].at = "sent"
  /\ \/ /\ call' = [call EXCEPT ![w].at = "ok"]
        /\ created' = IF call[w].kind = "search" THEN created ELSE created \cup {<<w, call[w].number>>}
     \/ call' = [call EXCEPT ![w].at = "error"] /\ UNCHANGED created
  /\ UNCHANGED <<Config, current, wizard, listed, lost, leftEarly>>

\* A component that is gone ignores what its promises set.
SetState(w, r) == wizard' = IF current = w THEN [wizard EXCEPT ![w] = r] ELSE wizard

Answered(w) == call' = [call EXCEPT ![w] = NoCall] /\ UNCHANGED <<Config, created>>

\* Mutant: the assigned number is noted, but the wizard stays where it is.
KeepReturns_SameMode(w) ==
  /\ call[w].kind = "keep" /\ call[w].at = "ok" /\ Answered(w)
  /\ SetState(w, [wizard[w] EXCEPT !.routing = {call[w].number}, !.busy = FALSE])
  /\ UNCHANGED <<current, listed, lost, leftEarly>>

KeepReturns(w) ==
  /\ call[w].kind = "keep" /\ call[w].at = "ok" /\ Answered(w)
  /\ SetState(w, [wizard[w] EXCEPT !.routing = {call[w].number}, !.mode = "forward-done", !.busy = FALSE])
  /\ UNCHANGED <<current, listed, lost, leftEarly>>

SearchReturns(w) ==
  /\ call[w].kind = "search" /\ call[w].at = "ok" /\ Answered(w)
  /\ \E found \in SUBSET DidsToBuy : SetState(w, [wizard[w] EXCEPT !.results = found, !.busy = FALSE])
  /\ UNCHANGED <<current, listed, lost, leftEarly>>

\* onCreated closes whichever wizard is on the page by now.
BuyReturns(w) ==
  /\ call[w].kind = "buy" /\ call[w].at = "ok" /\ Answered(w)
  /\ Unmount /\ listed' = created
  /\ leftEarly' = (leftEarly \/ current \notin {w, NoWizard})
  /\ UNCHANGED lost

\* An error status, or no answer at all.
CallFails(w) ==
  /\ call[w] # NoCall /\ Answered(w)
  /\ lost' = IF call[w].at = "error" THEN lost ELSE lost \cup {w}
  /\ SetState(w, [wizard[w] EXCEPT !.busy = FALSE])
  /\ UNCHANGED <<current, listed, leftEarly>>

WizardNext ==
  \/ ReloadList
  \/ \E w \in Wizards :
       \/ OpenWizard(w) \/ CloseWizard(w) \/ EnterNumber(w) \/ SelectAssistant(w)
       \/ \E mode \in Modes : ChooseMode(w, mode)
       \/ SaveForward(w) \/ SearchNumbers(w) \/ \E n \in DidsToBuy : BuyNumber(w, n)
       \/ Finish(w) \/ Serve(w) \/ KeepReturns(w) \/ SearchReturns(w) \/ BuyReturns(w) \/ CallFails(w)

WizardSpec == WizardInit /\ [][WizardNext]_wizardVars

---------------------------------------------------------------------------
(* Properties.                                                              *)

WizardTypeOK ==
  /\ assistantCount \in 0 .. 2 /\ provisioning \in BOOLEAN
  /\ current \in Wizards \cup {NoWizard}
  /\ wizard \in [Wizards -> [mode : Modes \cup {"unopened", "closed"}, own : BOOLEAN, assistant : BOOLEAN,
                             busy : BOOLEAN, results : SUBSET DidsToBuy, routing : SUBSET {PoolNumber}]]
  /\ call \in [Wizards -> [kind : {"none", "keep", "search", "buy"}, at : {"idle", "sent", "ok", "error"},
                           number : DidsToBuy \cup {PoolNumber}]]
  /\ created \subseteq Wizards \X (DidsToBuy \cup {PoolNumber}) /\ listed \subseteq created
  /\ lost \subseteq Wizards /\ leftEarly \in BOOLEAN

CreatedBy(w) == {c \in created : c[1] = w}
Announces(w) == current = w /\ wizard[w].mode = "forward-done" /\ wizard[w].routing # {}

\* However a user goes back and forth while a request runs, one wizard brings the tenant
\* at most one number, and shows it or has the page list it (NumberWizard.tsx:79, 116) -
\* unless a reply was lost or a wizard was closed before its end.
WizardDeliversUnlessDisturbed ==
  \A w \in Wizards \ lost :
    /\ Cardinality(CreatedBy(w)) <= 1
    /\ call[w] = NoCall /\ ~leftEarly => CreatedBy(w) \subseteq listed \/ Announces(w)
=============================================================================
