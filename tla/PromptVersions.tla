--------------------------- MODULE PromptVersions ---------------------------
(***************************************************************************)
(* The versions of the platform's system prompt (routes/admin.ts,          *)
(* web/src/app/admin/ai/page.tsx): drafts, activation, rollback.  The      *)
(* database runs a transaction at READ COMMITTED: a statement sees what is *)
(* committed when it starts, waits for the rows another transaction has    *)
(* changed and looks at them again before it changes them itself.          *)
(***************************************************************************)
EXTENDS Naturals

CONSTANTS
  Operators,    \* users of the console with the capability ai:write, a page each
  NoOperator,
  PromptTasks,  \* bound: requests at a time
  MaxPrompts    \* bound: versions

ASSUME PromptAssumption == NoOperator \notin Operators /\ MaxPrompts \in Nat \ {0}

VARIABLES
  prompts,    \* the committed rows: their version numbers, and the active ones
  shown,      \* shown[o]: the rows o's page has loaded
  task,       \* task[t]: a request and its transaction
  rolledTo,   \* history: the version activated last, and who asked for the last change
  overlapped  \* history: requests overlapped, or a page could not load what it has changed

promptVars == <<prompts, shown, task, rolledTo, overlapped>>

Numbered == 1 .. MaxPrompts
NoPrompts == [stored |-> {}, active |-> {}]
Rows == [stored : SUBSET Numbered, active : SUBSET Numbered]

\* by: whose page waits; id: the version concerned, 0 for a load; activate: does it become
\* active; locked: the rows the transaction changes; view: the answer of a load.
NoTask == [at |-> "idle", by |-> NoOperator, id |-> 0, activate |-> FALSE, locked |-> {},
           view |-> NoPrompts]

\* The seed creates an active version where there is none.
PromptInit ==
  /\ prompts \in {NoPrompts, [stored |-> {1}, active |-> {1}]}
  /\ shown = [o \in Operators |-> NoPrompts]
  /\ task = [t \in PromptTasks |-> NoTask]
  /\ rolledTo = [version |-> CHOOSE n \in 0 .. 1 : prompts.active = {n} \ {0}, by |-> NoOperator]
  /\ overlapped = FALSE

Busy == {t \in PromptTasks : task[t] # NoTask}
At(t, at) == task[t].at = at
Step(t, at) == task' = [task EXCEPT ![t].at = at]

---------------------------------------------------------------------------
(* The pages.  No button waits for the request before it.                   *)

Sends(t, r) ==
  /\ task[t] = NoTask /\ task' = [task EXCEPT ![t] = r]
  /\ overlapped' = (overlapped \/ Busy # {})
  /\ UNCHANGED <<prompts, shown, rolledTo>>

\* A page load: the answers the old page waits for go nowhere.
OpenPrompts(t, o) ==
  /\ task[t] = NoTask
  /\ task' = [q \in PromptTasks |->
       IF q = t THEN [NoTask EXCEPT !.at = "load", !.by = o]
       ELSE IF task[q].by = o THEN [task[q] EXCEPT !.by = NoOperator]
       ELSE task[q]]
  /\ shown' = [shown EXCEPT ![o] = NoPrompts]
  /\ overlapped' = (overlapped \/ Busy # {})
  /\ UNCHANGED <<prompts, rolledTo>>

\* The serial number of a new row, nobody else's; one that a failure leaves unused is
\* taken for the next.
FreeNumbers == Numbered \ (prompts.stored \cup {task[t].id : t \in PromptTasks})

\* POST /admin/ai/prompts: a draft, or a version that is activated at once.
CreatePrompt(t, o, activate) ==
  \E n \in FreeNumbers :
    /\ \A m \in FreeNumbers : n <= m
    /\ Sends(t, [NoTask EXCEPT !.at = IF activate THEN "scan" ELSE "write", !.by = o, !.id = n,
                                !.activate = activate])

\* POST /admin/ai/prompts/:id/activate, offered for the versions shown as inactive.
ActivatePrompt(t, o, n) ==
  /\ n \in shown[o].stored \ shown[o].active
  /\ Sends(t, [NoTask EXCEPT !.at = "scan", !.by = o, !.id = n, !.activate = TRUE])

---------------------------------------------------------------------------
(* The transactions.                                                        *)

LockedByOthers(t) == UNION {task[q].locked : q \in PromptTasks \ {t}}

\* updateMany where active: the rows of its snapshot,
ScanActive(t) ==
  /\ At(t, "scan")
  /\ task' = [task EXCEPT ![t].at = "lock", ![t].view = prompts]
  /\ UNCHANGED <<prompts, shown, rolledTo, overlapped>>

\* Mutant: the two updates are not one transaction.
WriteActive_CommitsAlone(t) ==
  /\ At(t, "lock") /\ task[t].view.active \cap LockedByOthers(t) = {}
  /\ prompts' = [prompts EXCEPT !.active = @ \ task[t].view.active]
  /\ task' = [task EXCEPT ![t].at = "write", ![t].view = NoPrompts]
  /\ UNCHANGED <<shown, rolledTo, overlapped>>

\* those of them that are still active once nobody else has them locked.
WriteActive(t) ==
  /\ At(t, "lock") /\ task[t].view.active \cap LockedByOthers(t) = {}
  /\ task' = [task EXCEPT ![t].at = "write", ![t].locked = task[t].view.active \cap prompts.active,
                          ![t].view = NoPrompts]
  /\ UNCHANGED <<prompts, shown, rolledTo, overlapped>>

\* The version itself, and the commit.
CommitPrompt(t) ==
  /\ At(t, "write") /\ task[t].id \notin LockedByOthers(t)
  /\ prompts' = [stored |-> prompts.stored \cup {task[t].id},
                 active |-> (prompts.active \ task[t].locked)
                              \cup (IF task[t].activate THEN {task[t].id} ELSE {})]
  /\ rolledTo' = [version |-> IF task[t].activate THEN task[t].id ELSE rolledTo.version,
                  by |-> task[t].by]
  /\ task' = [task EXCEPT ![t] = [NoTask EXCEPT !.at = "done", !.by = task[t].by]]
  /\ UNCHANGED <<shown, overlapped>>

\* A deadlock, the end of the transaction's time, a crash or a lost answer.
PromptFails(t) ==
  /\ task[t] # NoTask
  /\ task' = [task EXCEPT ![t] = NoTask]
  /\ overlapped' = (overlapped \/ task[t].at \in {"done", "load", "loaded"})
  /\ UNCHANGED <<prompts, shown, rolledTo>>

---------------------------------------------------------------------------
(* The page loads again once its change has been answered.                  *)

PromptAnswered(t) ==
  /\ At(t, "done")
  /\ IF task[t].by = NoOperator THEN task' = [task EXCEPT ![t] = NoTask] ELSE Step(t, "load")
  /\ UNCHANGED <<prompts, shown, rolledTo, overlapped>>

ServePrompts(t) ==
  /\ At(t, "load")
  /\ task' = [task EXCEPT ![t].at = "loaded", ![t].view = prompts]
  /\ UNCHANGED <<prompts, shown, rolledTo, overlapped>>

PromptsLoaded(t) ==
  /\ At(t, "loaded")
  /\ shown' = [o \in Operators |-> IF task[t].by = o THEN task[t].view ELSE shown[o]]
  /\ task' = [task EXCEPT ![t] = NoTask]
  /\ UNCHANGED <<prompts, rolledTo, overlapped>>

PromptNext ==
  \E t \in PromptTasks :
    \/ \E o \in Operators :
         \/ OpenPrompts(t, o)
         \/ \E activate \in BOOLEAN : CreatePrompt(t, o, activate)
         \/ \E n \in Numbered : ActivatePrompt(t, o, n)
    \/ ScanActive(t) \/ WriteActive(t) \/ CommitPrompt(t) \/ PromptFails(t)
    \/ PromptAnswered(t) \/ ServePrompts(t) \/ PromptsLoaded(t)

PromptSpec == PromptInit /\ [][PromptNext]_promptVars

---------------------------------------------------------------------------
(* Properties.                                                              *)

PromptsTypeOK ==
  /\ prompts \in Rows /\ prompts.active \subseteq prompts.stored
  /\ shown \in [Operators -> Rows]
  /\ task \in [PromptTasks -> [at : {"idle", "scan", "lock", "write", "done", "load", "loaded"},
                               by : Operators \cup {NoOperator}, id : 0 .. MaxPrompts,
                               activate : BOOLEAN, locked : SUBSET Numbered, view : Rows]]
  /\ rolledTo \in [version : 0 .. MaxPrompts, by : Operators \cup {NoOperator}]
  /\ overlapped \in BOOLEAN

\* "system-prompt versioning with rollback" (docs/ADMIN_CONSOLE.md:34): whatever overlaps
\* or fails, the platform never loses its active version; and unless requests overlap, it
\* is the one activated last, and the page that made the last change shows the rows.
OneVersionIsActiveUnlessOverlapped ==
  /\ rolledTo.version # 0 => prompts.active # {}
  /\ ~overlapped =>
       /\ prompts.active = {rolledTo.version} \ {0}
       /\ rolledTo.by # NoOperator /\ Busy = {} => shown[rolledTo.by] = prompts
=============================================================================
