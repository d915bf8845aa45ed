-------------------------- MODULE MCAdministration --------------------------
(***************************************************************************)
(* What the users of the dashboard and of the operator's console do, and   *)
(* what is stored of a call, each part on a small instance.                *)
(* They have no variable in common, so that in a behaviour one of them     *)
(* moves, the focus, and the others stay in one of their initial states:   *)
(* what holds of a part alone holds of it in any interleaving.             *)
(***************************************************************************)
EXTENDS Accounts, CallRecords, QuestionnaireEditor, WebSession, NumberWizard, CalendarPage,
        PromptVersions, TLC

VARIABLE focus

\* The sets of actors have the same elements, which keeps the group small: an element
\* stands for an actor of the part that moves.
MCSymmetry ==
  UNION {Permutations(S) : S \in {Users, Records, Saves, Tabs, Wizards, Operators, PromptTasks}}

Only(part, Next, others) == focus = part /\ Next /\ UNCHANGED <<focus, others>>

\* Bound: one call is worked on, and none under a retention period, without which none grows
\* old; the others arrive, are given up, found and removed.
WorkedOn(c) ==
  Stored(c) /\ \/ record[c].transcript \/ record[c].summarised \/ record[c].from = Anonymized
               \/ \E w \in Turns \cup Finalisers : writer[c][w] # "idle"

RecordsBound ==
  /\ \A c, d \in Records : WorkedOn(c) /\ WorkedOn(d) => c = d
  /\ \A c \in Records : IF setting = 0 THEN record[c].age = 0 ELSE ~WorkedOn(c)

\* Bound: the history leads back in one tab, and the tabs have one request in flight besides
\* that for the account.
WebBound ==
  /\ \A t, u \in Tabs : tab[t].returned /\ tab[u].returned => t = u
  /\ \A t, u \in Tabs : \A a \in pending[t], b \in pending[u] : <<t, a>> = <<u, b>>

MCInit ==
  /\ focus \in {"accounts", "records", "editor", "web", "wizard", "page", "prompts"}
  /\ AccountsInit
  /\ RecordsInit /\ (focus = "records" \/ setting = 0)
  /\ EditorInit /\ (focus = "editor" \/ stored = <<>>)
  /\ WebInit
  /\ WizardInit /\ (focus = "wizard" \/ (assistantCount = 0 /\ ~provisioning))
  /\ PageInit
  /\ PromptInit /\ (focus = "prompts" \/ prompts = NoPrompts)

MCNext ==
  \/ Only("accounts", AccountsNext, <<recordVars, editorVars, webVars, wizardVars, pageVars, promptVars>>)
  \/ Only("records", RecordsNext /\ RecordsBound', <<accountVars, editorVars, webVars, wizardVars, pageVars, promptVars>>)
  \/ Only("editor", EditorNext, <<accountVars, recordVars, webVars, wizardVars, pageVars, promptVars>>)
  \/ Only("web", WebNext /\ WebBound', <<accountVars, recordVars, editorVars, wizardVars, pageVars, promptVars>>)
  \/ Only("wizard", WizardNext, <<accountVars, recordVars, editorVars, webVars, pageVars, promptVars>>)
  \/ Only("page", PageNext, <<accountVars, recordVars, editorVars, webVars, wizardVars, promptVars>>)
  \/ Only("prompts", PromptNext, <<accountVars, recordVars, editorVars, webVars, wizardVars, pageVars>>)

MCSpec ==
  MCInit /\ [][MCNext]_<<focus, accountVars, recordVars, editorVars, webVars, wizardVars, pageVars, promptVars>>

\* The rows, the requests and the pages of the part that moves have their types.
AdministrationTypeOK ==
  /\ focus = "accounts" => AccountsTypeOK
  /\ focus = "records" => RecordsTypeOK
  /\ focus = "editor" => EditorTypeOK
  /\ focus = "web" => WebTypeOK
  /\ focus = "wizard" => WizardTypeOK
  /\ focus = "page" => PageTypeOK
  /\ focus = "prompts" => PromptsTypeOK
=============================================================================
