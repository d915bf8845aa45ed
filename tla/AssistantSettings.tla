-------------------------- MODULE AssistantSettings --------------------------
(***************************************************************************)
(* The two pages that write a tenant's assistant (onboarding/page.tsx,     *)
(* assistant/personality/page.tsx with useAssistant) and the requests they *)
(* send (routes/assistants.ts, routes/settings.ts).  The onboarding reuses *)
(* an assistant it finds and creates one otherwise; the settings page has  *)
(* two forms, its texts and the expert's prompt, that are saved apart.     *)
(***************************************************************************)
EXTENDS Naturals, Sequences, FiniteSets

CONSTANTS
  Windows,   \* openings of either page, in one tab or several
  MaxTyped,  \* bound: inputs that change what is sent
  MaxLate    \* bound: requests of the API that nobody waits for

ASSUME SettingsAssumption == MaxTyped \in Nat /\ MaxLate \in Nat

VARIABLES
  assistants,  \* the Assistant rows of the tenant
  window,      \* window[w]: the state variables of an opening
  fetch,       \* fetch[w][f]: the request of form f that w waits for
  late,        \* requests the API still has, that nobody waits for
  typed,       \* inputs so far: the value of the next one
  createsOverlapped,  \* history: a finish found no assistant while another was about to create one
  disrupted    \* history: windows whose row somebody else wrote, whose reply was lost, or
               \* whose user went on typing while it was being saved

settingsVars == <<assistants, window, fetch, late, typed, createsOverlapped, disrupted>>

\* The columns, by the form that saves them: name, language, voice and both texts; and
\* the system prompt.  Their values are the numbers of the inputs they come from.
Forms == {"texts", "prompt"}
Columns(texts, prompt) == [texts |-> texts, prompt |-> prompt]

NoFetch == [op |-> "none", at |-> "idle", id |-> 0, row |-> Columns(0, 0), fields |-> {}]
Sent(op, id, row, fields) == [op |-> op, at |-> "sent", id |-> id, row |-> row, fields |-> fields]

\* The state variables of a page that has just been mounted.
Mounted(page) == [page |-> page, step |-> 0, company |-> FALSE, assistant |-> 0,
                  texts |-> 0, prompt |-> 0, value |-> 0, busy |-> {}, saved |-> {}]
\* The company, the choices (five steps of the code, one here) and the summary.
LastStep == 2

SettingsInit ==
  /\ assistants \in {<<>>, <<Columns(0, 0)>>}
  /\ window = [w \in Windows |-> Mounted("unopened")]
  /\ fetch = [w \in Windows |-> [f \in Forms |-> NoFetch]]
  /\ late = {} /\ typed = 0 /\ createsOverlapped = FALSE /\ disrupted = {}

Kept == <<assistants, late, createsOverlapped>>
Inputs == <<typed, disrupted>>

OnPage(w, page) == window[w].page = page

Ask(w, f, r) == fetch' = [fetch EXCEPT ![w][f] = r]

---------------------------------------------------------------------------
(* Onboarding.                                                              *)

OpenOnboarding(w) ==
  /\ OnPage(w, "unopened")
  /\ window' = [window EXCEPT ![w] = Mounted("onboarding")]
  /\ UNCHANGED <<Kept, Inputs, fetch>>

\* The user types the name of the company, or deletes it.
NameCompany(w) ==
  /\ OnPage(w, "onboarding") /\ window[w].step = 0
  /\ window' = [window EXCEPT ![w].company = ~@]
  /\ UNCHANGED <<Kept, Inputs, fetch>>

\* It is filled in from the settings where nothing has been typed.
PrefillCompany(w) ==
  /\ OnPage(w, "onboarding")
  /\ window' = [window EXCEPT ![w].company = TRUE]
  /\ UNCHANGED <<Kept, Inputs, fetch>>

CanNext(w) == window[w].step < LastStep /\ (window[w].step = 0 => window[w].company)

StepOn(w) ==
  /\ OnPage(w, "onboarding") /\ CanNext(w)
  /\ window' = [window EXCEPT ![w].step = @ + 1]
  /\ UNCHANGED <<Kept, Inputs, fetch>>

StepBack(w) ==
  /\ OnPage(w, "onboarding") /\ window[w].step > 0 /\ window[w].busy = {}
  /\ window' = [window EXCEPT ![w].step = @ - 1]
  /\ UNCHANGED <<Kept, Inputs, fetch>>

\* Task, language or voice.  The website and the number go into no assistant.
ChooseOption(w) ==
  /\ OnPage(w, "onboarding") /\ window[w].step = 1 /\ typed < MaxTyped
  /\ typed' = typed + 1
  /\ window' = [window EXCEPT ![w].texts = typed']
  /\ UNCHANGED <<Kept, disrupted, fetch>>

ShowsSummary(w) == OnPage(w, "onboarding") /\ window[w].step = LastStep

\* The prompt is built from the same choices.
BuildAssistant(w) == Columns(window[w].texts, window[w].texts)

ClickFinish(w) ==
  /\ ShowsSummary(w) /\ window[w].busy = {}
  /\ window' = [window EXCEPT ![w].busy = {"texts"}]
  /\ Ask(w, "texts", Sent("list", 0, BuildAssistant(w), {}))
  /\ UNCHANGED <<Kept, Inputs>>

Arrived(w, f, op) == fetch[w][f].op = op /\ fetch[w][f].at = "ok"

\* finish goes on, on its page or off it: an assistant that exists is reused.
ListReturns(w) ==
  /\ Arrived(w, "texts", "list")
  /\ Ask(w, "texts", Sent(IF fetch[w]["texts"].id = 0 THEN "create" ELSE "rename",
                          0, fetch[w]["texts"].row, {}))
  /\ UNCHANGED <<Kept, Inputs, window>>

CreateReturns(w) ==
  /\ Arrived(w, "texts", "create")
  /\ Ask(w, "texts", Sent("rename", 0, Columns(0, 0), {}))
  /\ UNCHANGED <<Kept, Inputs, window>>

\* However the renaming ended, the page is left.
RenameReturns(w) ==
  /\ fetch[w]["texts"].op = "rename"
  /\ Ask(w, "texts", NoFetch)
  /\ window' = [window EXCEPT ![w] = Mounted("left")]
  /\ UNCHANGED <<Kept, Inputs>>

---------------------------------------------------------------------------
(* Personality: the texts and, in expert mode, the prompt.                  *)

OpenSettings(w) ==
  /\ OnPage(w, "unopened")
  /\ window' = [window EXCEPT ![w] = Mounted("settings")]
  /\ Ask(w, "texts", Sent("load", 0, Columns(0, 0), {}))
  /\ UNCHANGED <<Kept, Inputs>>

\* The first assistant of the list, or none and no form.
LoadReturns(w) ==
  LET r == fetch[w]["texts"] IN
  /\ Arrived(w, "texts", "load")
  /\ Ask(w, "texts", NoFetch)
  /\ window' = IF ~OnPage(w, "settings") THEN window
               ELSE [window EXCEPT ![w].assistant = r.id, ![w].texts = r.row.texts,
                                   ![w].prompt = r.row.prompt, ![w].value = r.row.prompt]
  /\ UNCHANGED <<Kept, Inputs>>

ShowsForm(w) == OnPage(w, "settings") /\ window[w].assistant # 0

\* An input of the first form takes its message away.
EditTexts(w) ==
  /\ ShowsForm(w) /\ typed < MaxTyped
  /\ typed' = typed + 1
  /\ window' = [window EXCEPT ![w].texts = typed', ![w].saved = @ \ {"texts"}]
  /\ disrupted' = IF "texts" \in window[w].busy THEN disrupted \cup {w} ELSE disrupted
  /\ UNCHANGED <<Kept, fetch>>

EditPrompt(w) ==
  /\ ShowsForm(w) /\ typed < MaxTyped
  /\ typed' = typed + 1
  /\ window' = [window EXCEPT ![w].value = typed']
  /\ UNCHANGED <<Kept, disrupted, fetch>>

Save(w, f, row, fields) ==
  /\ ShowsForm(w) /\ f \notin window[w].busy
  /\ window' = [window EXCEPT ![w].busy = @ \cup {f}, ![w].saved = @ \ {f}]
  /\ Ask(w, f, Sent("put", window[w].assistant, row, fields))
  /\ UNCHANGED <<Kept, Inputs>>

\* Mutant: the page sends the whole assistant it holds.
SaveTexts_WholeAssistant(w) == Save(w, "texts", Columns(window[w].texts, window[w].prompt), Forms)

SaveTexts(w) == Save(w, "texts", Columns(window[w].texts, 0), {"texts"})

SavePrompt(w) == Save(w, "prompt", Columns(0, window[w].value), {"prompt"})

\* onSaved is an input of the first form as well: its message goes.
PutReturns(w, f) ==
  /\ Arrived(w, f, "put")
  /\ Ask(w, f, NoFetch)
  /\ window' = IF ~OnPage(w, "settings") THEN window
               ELSE [window EXCEPT ![w].busy = @ \ {f},
                       ![w].saved = IF f = "prompt" THEN {f} ELSE @ \cup {f},
                       ![w].prompt = IF f = "prompt" THEN fetch[w][f].row.prompt ELSE @]
  /\ UNCHANGED <<Kept, Inputs>>

---------------------------------------------------------------------------
(* The API.                                                                 *)

\* Windows that show row id, or are about to.
Showing(id) ==
  {w \in Windows : window[w].assistant = id
                   \/ (Arrived(w, "texts", "load") /\ fetch[w]["texts"].id = id)}

\* What a committed request leaves; w is the window that waits for it, if any.
Commit(r, w) ==
  /\ assistants' = CASE r.op = "create" -> Append(assistants, r.row)
                     [] r.op = "put" -> [assistants EXCEPT ![r.id] =
                                           [f \in Forms |-> IF f \in r.fields THEN r.row[f] ELSE @[f]]]
                     [] OTHER -> assistants
  /\ disrupted' = IF r.op = "put" THEN disrupted \cup (Showing(r.id) \ w) ELSE disrupted

\* A finish has found no assistant, and not created one yet.
AboutToCreate == (\E l \in late : l.op = "create") \/ \E w \in Windows :
  LET r == fetch[w]["texts"] IN
  \/ r.op = "list" /\ r.at = "ok" /\ r.id = 0
  \/ r.op = "create" /\ r.at = "sent"

\* findMany has no order: any row may be the first of the list.
ServeRead(w) ==
  LET r == fetch[w]["texts"] IN
  /\ r.op \in {"list", "load"} /\ r.at = "sent"
  /\ \/ assistants = <<>> /\ Ask(w, "texts", [r EXCEPT !.at = "ok"])
     \/ \E i \in DOMAIN assistants :
          Ask(w, "texts", [r EXCEPT !.at = "ok", !.id = i,
                                    !.row = IF r.op = "load" THEN assistants[i] ELSE @])
  /\ createsOverlapped' = (createsOverlapped \/ (r.op = "list" /\ assistants = <<>> /\ AboutToCreate))
  /\ UNCHANGED <<assistants, late, window, Inputs>>

ServeWrite(w, f) ==
  LET r == fetch[w][f] IN
  /\ r.op \in {"create", "put", "rename"} /\ r.at = "sent"
  /\ Commit(r, {w}) /\ Ask(w, f, [r EXCEPT !.at = "ok"])
  /\ UNCHANGED <<late, createsOverlapped, window, typed>>

ServeLate(r) ==
  /\ r \in late /\ late' = late \ {r}
  /\ Commit(r, {})
  /\ UNCHANGED <<createsOverlapped, window, fetch, typed>>

DropLate(r) ==
  /\ r \in late /\ late' = late \ {r}
  /\ UNCHANGED <<assistants, createsOverlapped, window, fetch, Inputs>>

\* Nobody waits for rs any more, but the API goes on with those that write.
Abandon(rs) ==
  /\ late' = late \cup {r \in rs : r.at = "sent" /\ r.op \in {"create", "put"}}
  /\ Cardinality(late') <= MaxLate

\* A refusal, or no answer: the request may have been served, and may still be.
FetchFails(w, f) ==
  LET r == fetch[w][f] IN
  /\ r.op \in {"load", "list", "create", "put"}
  /\ Ask(w, f, NoFetch)
  /\ window' = [window EXCEPT ![w].busy = @ \ {f}]
  /\ \/ r.at = "sent" /\ UNCHANGED <<late, disrupted>>
     \/ /\ Abandon({r})
        /\ disrupted' = IF r.op = "put" THEN disrupted \cup {w} ELSE disrupted
  /\ UNCHANGED <<assistants, createsOverlapped, typed>>

\* A link of the navigation: the page goes, what it has begun goes on.
Leave(w) ==
  /\ window[w].page \in {"onboarding", "settings"}
  /\ window' = [window EXCEPT ![w] = Mounted("left")]
  /\ UNCHANGED <<Kept, Inputs, fetch>>

\* "Spaeter einrichten", a reload or the end of the tab: what it has begun goes too.
Unload(w) ==
  /\ window[w].page # "unopened"
  /\ window' = [window EXCEPT ![w] = Mounted("left")]
  /\ Abandon({fetch[w][f] : f \in Forms})
  /\ fetch' = [fetch EXCEPT ![w] = [f \in Forms |-> NoFetch]]
  /\ UNCHANGED <<assistants, createsOverlapped, Inputs>>

SettingsNext ==
  \/ \E r \in late : ServeLate(r) \/ DropLate(r)
  \/ \E w \in Windows :
       \/ OpenOnboarding(w) \/ NameCompany(w) \/ PrefillCompany(w) \/ StepOn(w) \/ StepBack(w)
       \/ ChooseOption(w) \/ ClickFinish(w) \/ ListReturns(w) \/ CreateReturns(w) \/ RenameReturns(w)
       \/ OpenSettings(w) \/ LoadReturns(w) \/ EditTexts(w) \/ EditPrompt(w)
       \/ SaveTexts(w) \/ SavePrompt(w) \/ ServeRead(w) \/ Leave(w) \/ Unload(w)
       \/ \E f \in Forms : PutReturns(w, f) \/ ServeWrite(w, f) \/ FetchFails(w, f)

SettingsSpec == SettingsInit /\ [][SettingsNext]_settingsVars

---------------------------------------------------------------------------
(* Properties.                                                              *)

SettingsTypeOK ==
  /\ \A i \in DOMAIN assistants : assistants[i] \in [Forms -> 0 .. MaxTyped]
  /\ window \in [Windows -> [page : {"unopened", "onboarding", "settings", "left"}, step : 0 .. LastStep,
                             company : BOOLEAN, assistant : Nat, texts : 0 .. MaxTyped, prompt : 0 .. MaxTyped,
                             value : 0 .. MaxTyped, busy : SUBSET Forms, saved : SUBSET Forms]]
  /\ \A w \in Windows, f \in Forms :
       /\ window[w].assistant \in 0 .. Len(assistants)
       /\ fetch[w][f].op \in {"none", "list", "create", "rename", "load", "put"}
       /\ f \in window[w].busy => fetch[w][f] # NoFetch
  /\ \A r \in late : r.op \in {"create", "put"}
  /\ typed \in 0 .. MaxTyped /\ createsOverlapped \in BOOLEAN /\ disrupted \subseteq Windows

\* "Reuse the existing assistant if one exists; otherwise create it" (onboarding/page.tsx:46):
\* a tenant has one assistant however often the onboarding is finished, left and
\* retried, and the settings page shows what is stored wherever it says so - the prompt
\* as soon as its request is over, the texts under their message - unless two finishes
\* overlap, somebody else writes or a reply is lost.
SettingsHoldUnlessDisrupted ==
  /\ ~createsOverlapped => Len(assistants) <= 1
  /\ \A w \in {v \in Windows \ disrupted : ShowsForm(v)} :
       LET row == assistants[window[w].assistant] IN
       /\ "prompt" \notin window[w].busy => row.prompt = window[w].prompt
       /\ "texts" \in window[w].saved => row.texts = window[w].texts
=============================================================================
