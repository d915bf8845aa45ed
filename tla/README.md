# Formal models of the AI phone platform

TLA+ specifications of this repository's API and of the dashboard pages that write through it, the
TLC configurations that check them on small instances, and TLAPS proofs of the properties that
matter most for every instance. Paths below are relative to `src/`; `api/` stands for `apps/api/src/`
and `web/` for `apps/web/src/`.

    tlc -config MCConversation.cfg MCConversation      # a run, see "Runs"
    tlapm CallLifecycle_proofs.tla                     # a proof module, see "Proofs"

## The system

A tenant has an assistant with a questionnaire and a phone number. A caller dials the number; the
voice webhook creates a `Call` row and greets with the consent text. From then on the state of a
call is its row (`status`, `consentGiven`, `callerEmailConsent`, `durationSeconds`, the JSON column
`state`), its `CallAnswer` rows, its `CallSummary` and its `UsageEvent`. Nothing is kept in memory
between two requests of the turn-based flow, there is no transaction around a request and no lock
on a call: every request reads the call once, works on its copy, and writes in single statements.
The requests of the dashboard and of the operator's console are of the same kind, and the pages that
send them keep a copy of what they have loaded.

| Component | State | Operations | Interacts with | Module |
|---|---|---|---|---|
| Questionnaire engine (`packages/shared/src/questionnaire-engine.ts`) | none (pure) | conditions, next question, completeness, normaliser | conversation, realtime agent | `QuestionnaireEngine` |
| Turn-based conversation (`api/services/conversation.service.ts`) | call row, `state`, answers | `handleTurn` by phase | gather webhook, simulator, relay fallback | `Conversation` |
| Status callback (`api/routes/webhooks.ts`, `api/lib/call-lifecycle.ts`) | call row, usage event | finalise, abandon, backfill, ignore | Twilio, finalisation | `CallLifecycle` |
| Call finalisation (`api/services/summary.service.ts`) | summary, status, usage, mails, calendar | `finalizeCall` | last turn, callback, realtime session | `CallLifecycle`, `CallPipeline` |
| Realtime agent (`api/realtime/`) | one session: history, consent flag, counters, `ended`, abort controller | utterance, interruption, time limit, tools, close | call row, finalisation, relay action | `RealtimeAgent` |
| Numbers (`api/services/routing-pool.service.ts`, `api/routes/phone-numbers.ts`, `admin.ts`) | pool rows, tenant numbers, the provider's account | claim, buy, link, roll back, release, delete, call routing | telephony provider, voice webhook | `NumberPool`, `NumberLease` |
| Usage and budget (`api/services/cost.service.ts`) | usage events, limit, paused flag | `recordUsage`, thresholds, pause, resume | finalisation, callback, voice webhook | `Budget` |
| Calendar (`api/services/calendar.service.ts`, `api/lib/calendar-*.ts`) | connection, tokens, appointments | connect, refresh, check, book, test, disconnect | conversation, finalisation | `CalendarBooking`, `CalendarAvailability` |
| What the end of a call computes (`api/realtime/answer-validate.ts`, `packages/shared/src/lead-scoring.ts`, `cost.ts`, `api/lib/calendar-appointment.ts`) | none (pure); the answers, the usage and the date of a call | check a value, score the lead, price the usage, read the date | realtime agent, finalisation | `CallEvaluation` |
| Dates (`packages/shared/src/datetime-nl.ts`, `api/lib/timezone.ts`) | none; one date question of a call | parse, convert, offer slots | conversation, calendar | `AppointmentDialogue` |
| Tenants and users (`api/routes/tenants.ts`, `users.ts`, `auth.ts`) | tenants, users, memberships, session tokens | provision, invite, change a role, remove, sign in | console | `Accounts` |
| GDPR and retention (`api/routes/gdpr.ts`, `api/services/retention.service.ts`) | what is stored of calls | erase, anonymise, delete, clean up | turns and finalisers that write | `CallRecords` |
| Questionnaire editor (`web/.../assistant/questionnaire`, `api/routes/questionnaires.ts`) | questions, the page's copy | load, edit, save | calls that start | `QuestionnaireEditor` |
| Assistant settings (`web/.../onboarding`, `assistant/personality`, `api/routes/assistants.ts`) | assistants, the pages' copies | create once, save texts, save prompt | - | `AssistantSettings` |
| Calendar page (`web/.../company/integrations`, `api/routes/integrations.ts`) | connection, default calendar, the page's copies | connect, choose, test, disconnect | OAuth consent page | `CalendarPage` |
| Number wizard (`web/components/NumberWizard.tsx`, `web/.../phone`) | the wizard, the list of numbers | keep, search, buy, close | numbers | `NumberWizard` |
| Browser session (`web/lib/api.ts`, `useMe.ts`, layouts, sign-in pages) | token in `localStorage`, cached account of a tab | sign in, sign out, 401, navigation | all pages | `WebSession` |
| Prompt versions (`api/routes/admin.ts`, `web/app/admin/ai`) | versions, which one is active | draft, activate, roll back | - | `PromptVersions` |

Not modelled: see the last section.

What is hard here: two requests of one call at the same time (a redelivered gather request, the
status callback of a caller who hangs up during the last turn, the close of the realtime session
against the relay action); an outage between two statements of a request, which leaves what was
written; decisions on what a request read before somebody else wrote; pages that show, and send
back, what they loaded before; replies that are late or lost while the user goes on; a questionnaire
whose conditions depend on answers that are still to come. What makes each component correct is
listed with its properties below; `PROJECT.json` lists the hazards, each at its line.

## Modules

| Module | State and actions |
|---|---|
| `QuestionnaireEngine` | operators named after the functions. A JavaScript value is a record of `typeof` and a number, so that `===`, `typeof` and truthiness are what the language defines; `NormalizedValues`, `CanBeClear` and `CanBeUnclear` give the outcomes of the normaliser as a set per question type |
| `Conversation` | `call`, `state`, `answers` are the row, its JSON column and the answer rows; `turn[t]` is a request in flight with its copy of what it loaded. One action per run of code between two database statements |
| `CallPipeline` | the promise of the processing: a set of effects, each allowed after its prerequisites and after the consent |
| `CallLifecycle` | extends `Conversation`; `finalizer[p]` is `finalizeCall` as run by request `p`, `callback[c]` a status callback, `effects[e]` counts how often an effect has happened, `raced` remembers that some request began while another was in flight |
| `RealtimeAgent` | `agent` holds the fields of the class, `prompt[p]` the handler of an utterance with its place among the awaits, `openTools` the tool calls in the history that lack a result, `timer`, `socket`, `closer` and `action` the other handlers; `raced` remembers an utterance that arrived during a turn |
| `NumberLease` | the promise of the pool: a number is free, held by one request, or used by one tenant number, and changes hands only through being free |
| `NumberPool` | `pool`, `phones` are the rows, `owned` what the provider has sold, `job[r]` a request at its next statement (`Choose`, `Claim`, `Fetch`, `Search`, `Buy`, `Record`, `CreatePhone`, `LinkRoutingNumber`, `ReleaseClaim`, ...). A request may fail at a statement, or the process may stop there. `mixed` remembers numbers both pooled and in use by one of the named accidents |
| `CalendarAvailability` | `isSlotFree` and `proposeFreeSlots` as operators |
| `CalendarBooking` | `conn` is the row, an OAuth grant a number counted up, so that tokens of different connections differ; `task[b]` is a booking, check or test with the copy of the row it works on; `withdrawn` and `bookRaced` are history |
| `CallEvaluation` | `answers`, `used` and `date` grow as a call goes on; the code's functions are operators on them. Money is counted in millionths, which is what the code rounds to; a value the model passes is a kind and a number |
| `Budget` | `recorder[r]` is a run of `recordUsage` between its statements, `usage[c]` the event of a call, `alerted` the thresholds mailed, `Spend` the sum of a month as a number of units; `overlapped` and `overruled` say when the budget need not hold |
| `AppointmentDialogue` | an instant is a number of quarters of an hour, a wall clock reading is the instant it would be in UTC, a zone two offsets and the instant of the change; the caller says a phrase or takes an offer |
| `Accounts` | `member` and `session` are kept apart: what a user may do is read from his token, which outlives his role; requests are split at their statements |
| `CallRecords` | what is left of a call (number, transcript, name), `writer[c][w]` the next statement of a turn or finaliser, the data-subject requests and the retention job, which reads the setting once. `handleTurn` looks at no status, so a turn takes any stored call, and the turn that finalises one still speaks; `resumed` and `unsummarised` are history |
| `QuestionnaireEditor` | `page[p]` is what a tab shows, `save[s]` a click on the save button, which stays enabled; PUT is a transaction of two statements, POST one |
| `AssistantSettings` | `window[w]` is an opening of a page, `fetch[w][f]` the request a form waits for, `late` what the API still has though nobody waits; the value of a column is the number of the input it comes from |
| `CalendarPage` | `conn` is the row, `panel` the page's variables, `calls` its requests, `consent` the state token; the other provider of the page appears as what it does to the shared `busy` flag |
| `NumberWizard` | `wizard[w]` is an opening of the wizard, which may be closed while `call[w]` runs; `created` and `listed` are what the tenant has and what the page shows |
| `WebSession` | `token` is shared by the tabs, `tab[t]` holds the module variables of a tab, which survive navigation by links, back and forward, and not a page load; `returned` says that the history led back to a page that signs in |
| `PromptVersions` | `task[t]` is a request with its transaction: the snapshot its first statement saw and the rows it has locked |
| `MC*`, `*_proofs` | instances, see "Runs"; theorems, see "Proofs" |

**Turn.** Correspondence of a turn (`conversation.service.ts` 163-288) with actions: `LoadCall` is
the query, and from it on the turn uses its copy. `GiveConsent` then `StartQuestions`, `StoreAnswer`
then `Advance`, `GiveUp` then `Advance`, `AnswerEmailConsent` then `CloseDialogue`, and
`ConfirmSummary`/`TakeCorrection` then finalisation are the places where one turn writes twice; the
program counter between the two writes is where other requests and failures (`Throw`) get in.
`saveMessage` writes the transcript, which no condition reads, and is part of the neighbouring
action. `state` is overwritten as a whole, from the turn's copy.

**Finalisation.** In `Conversation` alone, `finalize()` is the abstract pair `FinalizeSucceeds` /
`FinalizeFails`. `CallLifecycle` replaces the pair by the statements of `finalizeCall`: `ReadCall`
(with the check of "completed", the only guard against a second run), `GenerateSummary`,
`UpsertSummary`, `CompleteCall`, `BillCall`, `MailTenant`, `MailCaller`, `BookAppointment`;
`FinalizeThrows` is an error at any of them and what the caller of `finalizeCall` does about it. The
callback's actions follow `webhooks.ts` 233-283 in the same way.

**Realtime.** In `RealtimeAgent` an action is what an awaited call does, with the code up to the next
await: the process has one thread, so nothing gets in between. Utterances do not wait for one
another: every message of the socket starts `onCallerText` anew, and the handlers share the agent.
`NextHop` is the head of the tool loop (a new abort controller, a new generation), `RunTools` the
loop over the tool calls, which deals with rejected calls at once and awaits `save_answer` and
`end_call`. `addUsage` is two statements, `ReadUsage` and `WriteUsage`. The close handler runs
`finalizeCall`, of which this module keeps the statements that touch its own columns;
`CallLifecycle` has the rest.

**Database.** A statement is one action; `$transaction` is one action where its statements touch one
row, and is split where what another transaction does in between can be seen: PostgreSQL runs them
at READ COMMITTED, where a statement takes a snapshot of its own, waits for rows that another
transaction has changed, and looks at them again (`StartDelete`/`DeleteRows`/`InsertRows` in
`QuestionnaireEditor`, `ScanActive`/`WriteActive`/`CommitPrompt` in `PromptVersions`).

The history of a tab is not kept: `Traverse` leads from any page to any other, which is more than a
browser allows. `FollowLinkAgain` goes back to a login link, which signs in again while it is good.
A page that the browser restores whole after a page load (back/forward cache) is left out.

**Pages.** A React handler runs to its next await in one action; a reply is an action, and so is its
absence. Two kinds of leaving are told apart: a link unmounts the page and lets its handlers go on,
a page load ends them, and the API serves what it has received either way.

Abstractions. Utterances are the classes the regular expressions and the truthiness test tell
apart. Values of an answer are what conditions and truthiness tell apart. Durations are zero,
estimated by this server, or reported by Twilio. A usage event is absent, without tokens, or full.
One recipient stands for the tenant's list of recipients. A mail and a calendar entry count as had
effect when the call to the service is made: `sendEmail` and the calendar errors are caught in the
code and do not change its control. A reply of the language model is its sequence of tool calls,
each of which is accepted, rejected or ends the call. Two questions of equal order are asked in
either order, because the query that loads them has no `orderBy` and the sort is by `order` alone.
`findMany` without an order returns rows in any order. Text fields are the number of the input they
come from; a form stands for the columns it saves.

## Runs

| Run | Configuration | Shows |
|---|---|---|
| `conversation` | `MCConversation.cfg` | one turn at a time, by phone or simulator, four questionnaires, two outages |
| `lifecycle` | `MCCallLifecycle.cfg` | one turn and two callbacks in every interleaving, one outage; with the liveness of a callback that decided to finalise |
| `realtime` | `RealtimeAgent.cfg` | two overlapping utterances and two turns, with interruptions, time limit and close |
| `time_limit` | `TimeLimit.cfg` | liveness of the time limit, with two outages |
| `operations` | `MCOperations.cfg` | number pool, calendar, budget, appointment dialogue, assistant settings, what the end of a call computes |
| `administration` | `MCAdministration.cfg` | users, stored calls, questionnaire editor, browser session, number wizard, calendar page, prompt versions |
| `give_up`, `callback_settles`, `runs_once`, `realtime_consent`, `relay_action`, `editor` | one each | a sentence of a comment or document that the code does not keep |

Where a property has a name in `...Unless...`, the premise names the interleaving or accident without
which it holds; that it fails with it was seen by checking it without the premise, and is a hazard
or a finding. Every property of a passing run has a mutant of the code, an operator beside the
definition it replaces, which the run refutes.

**conversation.** `ConsentFirst`: no phase after the consent, no answer and no finalisation before
the row records the consent. `PendingIsNext`: the pending question is the engine's next one given
the other answers - also after an outage between storing an answer and moving the state on, when
the caller answers a question that already has an answer. `AnswersAreActive`: every stored answer
answers a question whose condition the stored answers satisfy. `ConfirmedIsComplete`: the summary is
read back only when no question is open. `AnswersEnd` (no fairness needed): no behaviour stores
answers for ever. (`EmailOfferHasAddress`, the offer is made only with an address stored, is proved
and needs no run.) The questionnaires have every condition operator, a question whose dependency
comes later, one that depends on itself, two of equal order, and none at all; three questions are
enough for a dependency, its dependent, and one besides. Two outages allow a failure while
recovering from a failure.

**lifecycle.** `ImplementsPipeline`: the effects keep the order of `CallPipeline`, whichever request
performs them. `NoLlmWithoutConsent`. As long as requests do not overlap (`~raced`), outages
included: `MailsHoldUnlessRaced` (tenant, caller and calendar hear of a call once, the caller only
with his consent), `ResultsAreWholeUnlessRaced` (every answer is in the summary, and the full cost
is never replaced by one without tokens), the action property `ReportedDurationKeptUnlessRaced`,
and, without an outage, `SettledUnlessRaced`. Nothing in the code serialises the requests of a call,
and without `~raced` they fail. Two callbacks are the least at which a backfill follows a
finalisation by another callback; the one questionnaire has an address and a date so that the
caller's mail and the appointment happen. Two turns at a time are left to the theorems.
`FinalizeCallbackDelivers` is checked under `FairLifecycleSpec`: weak fairness of the steps of
requests that have begun, which Node's event loop and the database driver (every statement returns
or throws) justify. No fairness of callers, hang-ups or callbacks is assumed.

**realtime.** Whatever overlaps: `LlmAfterYes` (the model runs only for an agent that was told yes),
`NoGenerationAfterEnd`, and in `SessionTypeOK` that generations are at most turns times hops,
although overlapping turns share the counter. While the caller waits for each turn:
`InterruptibleUnlessRaced` (the generation that runs is the one a barge-in cancels), and, without
outages, `ConsentStoredUnlessRaced`, `UsageCountedUnlessRaced` and `HistoryAnsweredUnlessRaced`.
With overlapping utterances these four fail: a second turn replaces the controller of the first, an
utterance behind the "yes" reaches the model before the row has the consent, token counts are lost,
and a turn is sent the history of another one's unfinished tool calls. Two utterances are the least
that overlap, two turns the least at which they compete for the counter, two generations per turn
the least at which a tool result is sent back; a third utterance meets the turn limit. This run has
no outage; the theorems allow any number.

**time_limit.** `TimeLimitEnds` is a liveness property: once the limit fires, the agent and the relay
end, or the wrap-up itself has failed (`timer = "failed"`). No other outage is excused. The case that
needs care is a turn that is itself ending the agent when the limit fires: the wrap-up finds the
agent ended and turns back, so that the relay ends only because that turn does it, or fails and the
session's `catch` does. Its fairness is that of the handlers that are ending the session, `TimerStep`
and a turn's `LastStep`: statements that return or throw. None is assumed of the model, whose reply is
awaited without a limit, or of the caller. Two outages are one for each of two overlapping turns.

**operations** and **administration** put modules that share no variable into one run. `focus` names
the module that moves; the others keep one of their initial states. As they are independent, what
holds of each alone holds of every interleaving, and the product of their states would show no more.
The sets of actors of the modules share their elements, so that one symmetry permutes the actors of
whichever moves. To keep the run short, `MCOperations` cuts what does not meet or repeats:
`AtMostTwo` requests for numbers under way at a time, `OneUserStory` of the calendar, one call time
for each zone, and `OneAspect` of a call's end; `MCAdministration` cuts `RecordsBound` and `WebBound`.
The theorems are without these cuts.

| Property | Says |
|---|---|
| `ClaimIsExclusive` | a routing number is held by one request at most, and neither free nor linked while it is held |
| `PoolIsConsistentUnlessAccident` | a link names the tenant number with that very number and its tenant, and is the only one; a free number is in use only during its deletion, or after a claim rolled back late, a deletion that failed after the release, or a number both typed in and pooled |
| `ImplementsLease` | `NumberPool` implements `NumberLease` |
| `NoDoubleBookingUnlessRaced` | no two events of a calendar overlap unless one came between the check and the creation of a booking, whatever fails or is refreshed, chosen or disconnected |
| `DisconnectHolds` | no refresh, test or booking in flight brings a disconnected connection back or gives its tokens to a later one |
| `BudgetEnforcedUnlessRaced` | once every usage is checked, the thresholds reached were mailed and a tenant at its limit is paused, unless two recordings overlap, a check fails, or an administrator changes or lifts it |
| `OffersHold` | a slot the caller takes is the one stored, though it goes through spoken words, the wall clock and back; offered slots lie ahead and within business hours. Excepted, with the reason at the definition: slots today or more than a week ahead, next to a change of the clocks, or repeated with the day of the month |
| `EvaluationIsFair` | an answer more never lowers the score, the category or the urgency of the recommended action; no part of a call makes it cheaper, in spite of the roundings; where a date is read in the German format it is as written, but for a minute above 59, which is carried. A date that format refuses goes to the parser of JavaScript, of which nothing is claimed |
| `SettingsHoldUnlessDisrupted` | a tenant gets one assistant however often the onboarding is left, repeated and retried, unless two finishes overlap; the settings page shows what is stored where it says so |
| `AdminRemainsUnlessWaived` | a provisioned tenant keeps an administrator through invitations, demotions and removals in any order, unless the operator intervened or a request was carried out for somebody who was none any more, or on himself |
| `RemovalHoldsUnlessRaced` | an anonymised call gets no words back unless a turn was working on it or has been taken since, whoever finalises it and whenever they read it; it gets no name or address back if it had a summary, whatever turns and finalisers do to its status and write again; the retention job deletes nothing the setting keeps unless it was lengthened meanwhile |
| `StoredWasSentUnlessOverlapped` | a reader of a questionnaire sees exactly the questions of one save, unless two PUTs overlap |
| `ShownIsSignedInUnlessDisturbed` | the account a tab shows is the one its requests are sent as, also after back and forward, unless another tab changed the token or somebody else signed in on a page the history led back to |
| `WizardDeliversUnlessDisturbed` | one opening of the wizard brings at most one number, and shows it or has it listed, unless a reply is lost or the wizard is closed early |
| `DefaultHoldsUnlessMeddled` | appointments go into a calendar of the connected account, and the page at rest selects that one, unless requests overlap, a consent is given twice or an answer is lost |
| `OneVersionIsActiveUnlessOverlapped` | the platform never loses its active prompt, whatever overlaps or fails; without overlap it is the one activated last, and the page that changed it shows so |

### Bounds

`MaxToolCalls` bounds the tool calls of one reply; `MaxTurns` and `MaxHops` stand for the code's own
limits, 40 and 4. `MaxFaults` bounds the outages of a behaviour, `Turns` and `Callbacks` the requests
in flight at once (a turn identifier is reused; a callback is sent once). Deadlock is not checked: a
call that ended, a job that is done or a page that was left has no further step.

| Module | Instance | Enough for |
|---|---|---|
| `NumberPool` | 2 numbers in two countries, 3 requests, of which two are under way at once and the third only keeps or deletes a number, 1 tenant, `MaxAttempts` 2 (6 in the code), `PoolFaults` 1 | two claims that compete and a deletion, by operator or tenant, between their statements; a retry; a purchase. Tenants and any number of faults: theorems |
| `CalendarBooking` | 2 tasks, 1 start, `Duration` 2, 1 calendar besides "primary", `MaxGrants` 2, `MaxUserEvents` 1, the user enters an event or connects a second time | a booking against another one or a user's event; a connection, its disconnection and the next. Several starts: theorems |
| `Budget` | 2 calls of cost 3 or 4, 2 recorders, limit 0 or 4, `MaxMonths` 2 | below, at and above each threshold, recording again at another cost, carry-over |
| `AppointmentDialogue` | 2 zones, in each a call next to midnight, 2 busy sets, 5 phrases, `MaxWait` 1 | next to midnight, over a weekend, across a change of the clocks east and west of UTC, an empty and a full calendar |
| `CallEvaluation` | 6 questions of as many types, two of them for the concern, 8 values of the model, dates around the ends of months and days, rates that do not divide, `MaxSeconds` 40 | a signal that two questions give, a correction, a rounding up in one part and down in another. Every questionnaire, all prices and lengths: theorems |
| `AssistantSettings` | 2 windows, `MaxTyped` 1, `MaxLate` 1 | two finishes, two editors, an edit during a save, a late write |
| `Accounts` | 2 users and the operator | mutual removal and demotion |
| `CallRecords` | 2 calls, 2 callers, 1 turn and 1 finaliser of each, periods 1 and 2, `MaxAge` 2; one call is worked on, and none under a retention period | one call erased while another is kept; an anonymisation between any two statements of a turn, a finaliser or both; the setting lengthened under the job. Any number of turns and finalisers, of both calls: theorem |
| `QuestionnaireEditor` | 1 page, 2 saves, `MaxQuestions` 2, `MaxEdits` 3, `MaxVisits` 1 | overlapping creations and replacements, a reload after them |
| `WebSession` | 2 tabs, a customer, an operator; the history leads back in one tab, one request besides that for the account | every change of account under a tab, by the other tab, by itself, or by going back. Any number of either: theorem |
| `NumberWizard` | 2 openings, 1 number to buy, 1 of the pool | a reply to a wizard that is gone or shows something else |
| `CalendarPage` | 2 accounts, `MaxCalls` 2 | connecting as somebody else, a save overtaken by a list |
| `PromptVersions` | 2 operators, 2 requests, `MaxPrompts` 2 | two activations that overlap; draft, activation and rollback |

### Where the code and its documentation differ

Checked, each by a run that finds the counterexample:

1. `give_up`: "Give up on this question after repeated failures; skip it." The code clears the
   pending key and asks `nextQuestion`, which returns the same question.
2. `callback_settles`: the status callback is there so that calls do not stay in progress for ever.
   A turn that loaded the call before the hang-up writes `in_progress` over the `failed` of the
   callback, and no other callback follows.
3. `runs_once`: "`services/summary.service.ts` runs once per call". The last turn and the callback
   can both pass the check of "completed" and both mail the tenant.
4. `realtime_consent`: "No consent means no LLM processing", says the classification of the status
   callback, and "until the caller says yes, the LLM never runs", says the agent. The close handler
   of a realtime session finalises every call whose agent has ended - after a refusal, or after the
   time limit without a consent, too - and `finalizeCall` sends the transcript to the model.
5. `relay_action`: "If the conversation is finished we hang up". The agent sets no final status; the
   close handler's `finalizeCall` does, after it has awaited the model. The action request that
   comes meanwhile reads `in_progress` and starts the turn-based dialogue at the consent.
6. `editor`: "can immediately edit the Assistent ... and Fragebogen" (`docs/GO_LIVE.md:90`). The
   schema of a save takes no null for `options`, `scaleMin` and `scaleMax`; the rows loaded hold
   null there, and the page sends them back.

Stated in a module as what a comment or document promises, and seen to fail in the same way, without
a run of their own: `NoDoubleBooking` (`calendar.service.ts:8`; two bookings check before either one
creates), `BudgetEnforced` (`cost.service.ts:3`; two recordings before either
check), `ReleasedOnDelete` (`prisma/schema.prisma:553`; deleting a tenant cascades past the pool),
`ErasureSucceeds` (`docs/GDPR.md:50`; an anonymised call among the tenant's makes the search fail),
`OwnRoleKept` (`users.ts:74`; inviting oneself overwrites the role), `StaffUseConsole`
(`(dashboard)/layout.tsx:22`; a staff member whose account has not been loaded sees the app),
`TargetIsOwn` (`schema.prisma:520`; a second consent for another account keeps the calendar of the
first), and `TakenOfferIsStored` without its exceptions (`conversation.service.ts:136`).

Seen while modelling and in the models as the code has them, with nothing in the repository that
says otherwise: a callback counts as wanted though the question was answered with no
(`summary.service.ts`, which asks for an answer, not for a yes); a null or a blank string given for
an urgency, or for a scale that begins at 0, is stored as 0 (`Number("")` is 0); the minutes of a
German date may exceed 59 and are carried to the next hour; a German date that is refused goes to
the parser of JavaScript, which reads the month first; dates of the realtime agent are read on the
clock of the server instead of the tenant's; after two PUTs of a questionnaire that overlap, an
order may exceed the number of questions (`EditorTypeOK` therefore says no more than that it is
positive); a turn stores its words on a call that is completed or anonymised, because neither
`handleTurn` nor the gather route nor the simulator looks at the status (`conversation.service.ts:170`,
`simulate.ts:47`); a call anonymised before it has a summary gets one made of its answers, which the
anonymisation keeps; going back to `/login`, or to the page of a login link, and signing in as
somebody else shows the account of before, whose cache these pages do not clear (`login/page.tsx:25`,
`useMe.ts:15`).

## Proofs

Every invariant and action property that a passing run checks is a theorem, and so are the two
refinements; liveness is not. The theorems hold for every questionnaire, every set of turns,
callbacks, requests, tasks, recorders, windows, tabs, calls and numbers, and any number of outages,
from the named assumptions on the constants: the null values are no values; every questionnaire is
well formed; channels are phone and simulator; callbacks are not turns; bounds, limits, prices and
durations are natural numbers (a markup may be negative, as the code allows); zones, busy sets,
phrases, rates and values of the model have their types; a tenant has finitely many calls, so that
their costs have a sum. `MC` modules restrict the initial states and the steps further; theorems
about the runs' compositions (`AdministrationTypeCorrect`, `OperationsTypeCorrect`) follow from
those about the parts.

- `QuestionnaireEngine_proofs`: `NextQuestionExists` (no next question means no askable question: a
  non-empty set of orders has a least element) and `NothingToAskIsComplete`. The lemma
  `ActiveIgnoresUnanswered` is what the dialogue rests on: giving a first answer to a question never
  deactivates another one, because a condition on an unanswered question is false for every
  operator, `not_equals` included.
- `Conversation_proofs`: `TypeCorrect`, `ConsentComesFirst`, `EmailOfferNeedsAddress`, all for
  overlapping turns. `ConsentFirst` is not inductive: a turn acts on its copy, so `ConsentInv` adds
  that a turn whose copy is past the consent was loaded after it. `EmailInv` adds that an address in
  a copy is stored, which holds because an answer may be overwritten but is never removed and every
  value of an e-mail question is truthy. There too, for one turn at a time: `SerialPendingIsNext`,
  `SerialAnswersAreActive` and `SerialConfirmedIsComplete`. The inductive invariant `SerialInv` says
  that the copy of a turn in flight is current, and (`PendingOK`) that the pending question is the
  next one *and no stored answer depends on its answer*: this second half is why answering a
  question again, after an outage or a redelivered utterance, cannot deactivate an answer that was
  given because of it. With two turns in flight the three fail: a delayed turn writes its old copy
  of the state over a newer one.
- `CallLifecycle_proofs`: `LifecycleTypeCorrect` (with `DurationKnown`: a callback stores a duration
  ahead of the finalisation only if Twilio sent one), `NoLlmBeforeConsent` and
  `LifecycleConsentFirst` (with `CallbackHasConsent`: a callback that decided to finalise read a
  consent, and no statement withdraws one), and `PipelineImplemented`, the refinement of
  `CallPipeline`. For the refinement, `EffectsInOrder` says that a run of `finalizeCall` stands at a
  statement only after the effect before it; the effects are shared by all runs and grow, so runs
  that overtake each other cannot break the order. `MailsHold`, `Settled` and `ResultsAreWhole` are
  for requests that do not overlap. Their inductive invariant, `SerialOK` while `~raced`, says that
  at most one request is in flight (`Solo`); that its copy is current and what follows from its
  place among the statements (`TurnOK`, `CallbackOK`); that a run of `finalizeCall` has read what is
  stored and performed no effect from where it stands on (`FinalizerOK`); and what a call keeps
  (`CallOK`): no mail and no bill before it is completed, no second mail after it. For the action
  property `ReportedDurationKept`, `ReportedOK` says that a duration is "reported" in the row, or in
  the copy of a finaliser, only if Twilio has sent one.
- `RealtimeAgent_proofs`: `LlmOnlyAfterYes` and `EndedAgentIsSilent` for any overlapping utterances,
  and `Interruptible`, `ConsentIsStored`, `HistoryIsAnswered`, `UsageIsCounted` for the caller who
  waits. The first rests on `ConsentGate`: a handler past the gate has been let through by an agent
  with the consent, and only a handler that finds none writes the flag. The others rest on
  `OneAtATime`: while nothing has overlapped, at most one handler runs, and what the row, the
  history and the controller contain is what its place among the awaits says (`StoredAt`,
  `CountedAt`, `OpenAt`, `HeldAt`). Every step of that handler keeps this, and the steps of the
  timer, the socket and the finaliser, summarised by `Aside`, do not touch it. `SessionTypeCorrect`
  caps the generations and the tokens for any overlap. Its invariant `LimitInv` adds up over the
  running turns: the generations started and those the running turns may still start are at most the
  hops of the turns allowed. A sum over a set of turns is the cardinality of a set of pairs, so that
  a step is a change of one pair.
- `NumberPool_proofs`: `NumbersTypeCorrect`, `ClaimsAreExclusive`, `PoolIsConsistent` and
  `PoolImplementsLease`. The inductive invariant `PoolInv` adds to the types that a request knows
  its number where it needs one (`JobsOK`), that only assigned rows are linked (`RowsOK`), that what
  a request holds it holds alone, in a row that is assigned or was removed under it (`HoldersOK`),
  that a tenant's number is the one its request was about (`PhonesOK`), that a link leads to the
  finished request that claimed the number (`LinksOK`), and that a number both pooled and a tenant's
  is in regular use, being deleted, or there by accident (`UseOK`). Exclusion needs the guard of
  `updateMany` and, for the claimed row that is read again, that nobody but the holder frees an
  unlinked number. For the refinement, `LeaseView` gives the lease of a number by the status of its
  row, and every action is shown to move at most one number, in a way `LeaseNext` allows.
- `CalendarBooking_proofs`: `CalendarTypeCorrect`, `DisconnectionHolds` and `NoDoubleBookings`. The
  inductive invariant `CalendarInv` says that the row and its tokens are younger than the last
  disconnection (`ConnOK`); that a task's copy of a row not yet disconnected has tokens that are not
  either (`TaskOK`), which is why a refresh that writes by the id of the row cannot do harm; and
  that what a booking has found free stays free until its creation, or `bookRaced` is set
  (`BookingsOK`). `SlotFreeMeansUnmet` connects the pure `isSlotFree` with the events.
- `Administration_proofs`, one part per module. `RemovalHolds`: no turn works on an anonymised call
  that none has resumed, and a summary that has lost its name is still there, so that finalisers
  update it and do not create it (`AnonymisedStayBare`); the job's copy of the setting is the setting
  or it is known to have changed (`JobKnowsSetting`). `OneVersionIsActive`: a
  transaction takes versions out of use only to put its own into use (`PromptTaskOK`), so that once
  one is active one always is (`ActiveKept`), and without overlap its snapshot and its locks are
  current (`AloneOK`). `AdminRemains`: a request that has passed its handler's check is not about
  its sender (`RequestsOK`), so whoever takes the role from another one keeps his own.
  `ShownIsSignedIn`: what an undisturbed tab keeps and what it has asked for are of the token
  (`Agrees`), and it shows nothing else (`Follows`); a login page holds another identity only after
  the history led back to it, and then a sign-in disturbs the tab. `DefaultHolds`: at most one change is under way (`Orderly`), and row, calls,
  selection and view of the page follow one another (`PageFollowsRow`). `WizardDelivers`: a request
  belongs to an opening that was begun and occupies it while it is shown (`OpeningOK`), and asks for
  a number only as long as the opening has none (`NumberOK`). `StoredWasSent`: a PUT that overlaps
  no other has every row of its questionnaire in its snapshot (`SnapshotOK`), so that it deletes all
  it replaces.
- `Operations_proofs`, likewise. `BudgetIsEnforced`: the invariant `BudgetInv` says that while
  recordings do not overlap at most one usage is unchecked (`OneUnchecked`), and that the spend
  without it has been answered by mails and a pause (`SpendOK`). This needs that the sum changes by
  the one cost that is written; `Spend` is a number of units, which makes it a fact about
  cardinalities. `SettingsAreKept`: `SettingsInv` with a single creator of the assistant among
  windows and late requests (`OneCreator`), and what a window shows for what it says it has saved
  (`Shown`). `OffersAreKept`: a slot within the week is the only one with its weekday and time of
  day (`SlotUnderstood`), the offers of a dialogue stay as they were while the clock moves, and
  nothing is taken before it is offered. `EarliestAreOffered` is about `proposeFreeSlots` alone:
  what is offered is free, within business hours, the earliest such, and three unless there are no
  more; its recursion over the count is unrolled for the count of three the code passes.
  `EvaluationFair`: more signals score no less, through every weight, cut-off and rounding
  (`SignalsGrow`, `LeadGrows`); a rounded price grows with what is priced (`CostGrows`); the date
  read names the day and the time written (`DateIsRead`). `EvaluationTypeCorrect` rests on
  `ValidatedFits`, which says that what `validateAnswerValue` lets through fits the question, for
  every question and value.

Only model-checked: liveness (`AnswersEnd`, `FinalizeCallbackDelivers`, `TimeLimitEnds`), which is
out of the prover's reach, and the six disagreements above, which are counterexamples. Not proved
either is what a recursive definition computes for every input; the models have one such place,
`proposeFreeSlots` for other counts than three.

## Plan

Done: the call (`QuestionnaireEngine` to `RealtimeAgent`), the pool, the calendar, the budget, the
appointment dialogue, the end of a call, tenants and users, stored calls, the pages that write, and
the proofs of all their safety properties. Left, in this order:

1. The realtime agent composed with the turn-based fallback and the status callback, and the calls
   of `CallRecords` with those of `CallLifecycle`.
2. A questionnaire replaced under a call: the questionnaire is a constant of `Conversation`, and
   the proofs of the pending question rest on that.

## Not modelled

The words behind an urgency; mail and prompt wording, mail templates, TwiML and voice tables; the
HTTP adapters of telephony, calendar and mail providers; cryptography and tokens; read-only views,
statistics and exports of the dashboard and the console; rows changed by single statements that
nothing else depends on (mail recipients, branding, global AI settings, locks and passwords,
backups' metadata, reassigning a number to another assistant, pointing a number's webhook); logging,
audit, health, configuration and wiring, seeds other than the first prompt, scripts. The transcript
is not modelled: no decision depends on it. Time enters only through what the code compares.
