------------------------------- MODULE Budget -------------------------------
(***************************************************************************)
(* The monthly budget of one tenant (services/cost.service.ts): calls      *)
(* record their usage, the spend of the month is compared with the limit,  *)
(* thresholds are mailed and the tenant is paused.  The console changes    *)
(* the limit, pauses and resumes; calls are erased with their usage.       *)
(*                                                                         *)
(* A recorder is one run of recordUsage, split at its statements.  Amounts *)
(* are in a unit of the billing currency.                                  *)
(***************************************************************************)
EXTENDS Integers, FiniteSets, FiniteSetsExt

CONSTANTS Calls, Recorders,
          Costs,      \* what a call may cost
          Limits,     \* limits a tenant may set, 0 for none
          MaxMonths   \* bound: months that pass

ASSUME BudgetAssumption ==
  /\ IsFiniteSet(Calls)
  /\ Costs \subseteq Nat \ {0} /\ Limits \subseteq Nat /\ MaxMonths \in Nat \ {0}

\* BUDGET_ALERT_THRESHOLDS, in tenths of the limit.
Thresholds == {5, 8, 10}

VARIABLES budget,     \* the tenant's row: limit, autoPause, paused
          served,     \* calls that were let in
          usage,      \* usage[c]: the usage event of call c, of month 0 if there is none
          month,
          recorder,   \* recorder[r]: a run of recordUsage, at its next statement
          alerted,    \* thresholds mailed this month
          overlapped, \* history: a usage was recorded between another one and its check
          overruled   \* history: the budget was changed, lifted or not checked

budgetVars == <<budget, served, usage, month, recorder, alerted, overlapped, overruled>>

NoUsage == [amount |-> 0, month |-> 0]
NoBudget == [limit |-> 0, autoPause |-> FALSE, paused |-> FALSE]

\* The recorder's copy of the tenant's row, and the cost it has just recorded; a
\* recorder that has finished forgets them and is used again.
IdleRecorder == [at |-> "idle", cost |-> 0, tenant |-> NoBudget]

BudgetInit ==
  /\ budget \in [limit : Limits, autoPause : BOOLEAN, paused : {FALSE}]
  /\ served = {} /\ usage = [c \in Calls |-> NoUsage] /\ month = 1
  /\ recorder = [r \in Recorders |-> IdleRecorder]
  /\ alerted = {} /\ overlapped = FALSE /\ overruled = FALSE

\* monthToDateSpend: by the month the event was created in.  The sum of the amounts is
\* the number of their units.
Units == UNION {{c} \X (1 .. usage[c].amount) : c \in {d \in Calls : usage[d].month = month}}
Spend == Cardinality(Units)

\* crossedBudgetThresholds
Crossed(before, after, limit) ==
  {t \in Thresholds : 10 * before < t * limit /\ 10 * after >= t * limit}

Recording(r) == recorder[r].at # "idle"
Unchecked(r) == recorder[r].at \in {"tenant", "aggregate"}
RecorderTo(r, a) ==
  recorder' = [recorder EXCEPT ![r] = IF a = "idle" THEN IdleRecorder ELSE [@ EXCEPT !.at = a]]

---------------------------------------------------------------------------
\* The voice webhook lets a call in (classifyInbound).
ServeCall(c) ==
  /\ c \notin served /\ ~budget.paused
  /\ served' = served \cup {c}
  /\ UNCHANGED <<budget, usage, month, recorder, alerted, overlapped, overruled>>

\* The usage event of a call is written, or written again by another finaliser or
\* the status callback; it keeps the date of its creation.
UpsertUsage(r, c, cost) ==
  /\ recorder[r].at = "idle" /\ c \in served
  /\ usage' = [usage EXCEPT ![c] = [amount |-> cost, month |-> IF @ = NoUsage THEN month ELSE @.month]]
  /\ recorder' = [recorder EXCEPT ![r] = [IdleRecorder EXCEPT !.at = "tenant", !.cost = cost]]
  /\ overlapped' = (overlapped \/ \E s \in Recorders : Unchecked(s))
  /\ UNCHANGED <<budget, served, month, alerted, overruled>>

\* enforceBudget reads the tenant.
ReadTenant(r) ==
  /\ recorder[r].at = "tenant"
  /\ IF budget.limit = 0 THEN RecorderTo(r, "idle")
     ELSE recorder' = [recorder EXCEPT ![r].at = "aggregate", ![r].tenant = budget]
  /\ UNCHANGED <<budget, served, usage, month, alerted, overlapped, overruled>>

\* Mutant: the new total has to exceed the threshold.
CheckThresholds_Exceeded(r) ==
  LET before == Spend - recorder[r].cost
      limit == recorder[r].tenant.limit
      crossed == {t \in Thresholds : 10 * before < t * limit /\ 10 * Spend > t * limit}
  IN
  /\ recorder[r].at = "aggregate"
  /\ IF crossed = {} THEN alerted' = alerted /\ RecorderTo(r, "idle")
     ELSE /\ alerted' = alerted \cup {Max(crossed)}
          /\ RecorderTo(r, IF Max(crossed) = 10 /\ recorder[r].tenant.autoPause THEN "pause" ELSE "idle")
  /\ UNCHANGED <<budget, served, usage, month, overlapped, overruled>>

\* The month's spend, with the recorded cost taken off again for what it was
\* before; the highest threshold crossed is mailed.
CheckThresholds(r) ==
  LET before == Spend - recorder[r].cost
      tenant == recorder[r].tenant
      crossed == Crossed(before, Spend, tenant.limit)
  IN
  /\ recorder[r].at = "aggregate"
  /\ IF crossed = {} THEN alerted' = alerted /\ RecorderTo(r, "idle")
     ELSE /\ alerted' = alerted \cup {Max(crossed)}
          /\ RecorderTo(r, IF Max(crossed) = 10 /\ tenant.autoPause /\ ~tenant.paused
                           THEN "pause" ELSE "idle")
  /\ UNCHANGED <<budget, served, usage, month, overlapped, overruled>>

AutoPause(r) ==
  /\ recorder[r].at = "pause"
  /\ budget' = [budget EXCEPT !.paused = TRUE]
  /\ RecorderTo(r, "idle")
  /\ UNCHANGED <<served, usage, month, alerted, overlapped, overruled>>

\* A statement fails after the usage was recorded.
RecordingFails(r) ==
  /\ Recording(r)
  /\ RecorderTo(r, "idle")
  /\ overruled' = TRUE
  /\ UNCHANGED <<budget, served, usage, month, alerted, overlapped>>

---------------------------------------------------------------------------
\* PUT /settings/tenant and PUT /admin/tenants/:id
ChangeBudget(limit, autoPause) ==
  /\ budget' = [budget EXCEPT !.limit = limit, !.autoPause = autoPause]
  /\ budget' # budget
  /\ overruled' = (overruled \/ Spend > 0 \/ \E r \in Recorders : Recording(r))
  /\ UNCHANGED <<served, usage, month, recorder, alerted, overlapped>>

\* POST /admin/tenants/:id/pause
PauseTenant ==
  /\ budget' = [budget EXCEPT !.paused = TRUE]
  /\ UNCHANGED <<served, usage, month, recorder, alerted, overlapped, overruled>>

\* POST /admin/tenants/:id/resume
ResumeTenant ==
  /\ budget.paused
  /\ budget' = [budget EXCEPT !.paused = FALSE]
  /\ overruled' = (overruled \/ Spend >= budget.limit \/ \E r \in Recorders : Recording(r))
  /\ UNCHANGED <<served, usage, month, recorder, alerted, overlapped>>

\* An erased call takes its usage event with it (by cascade).
EraseUsage(c) ==
  /\ usage[c] # NoUsage
  /\ usage' = [usage EXCEPT ![c] = NoUsage] /\ served' = served \ {c}
  /\ UNCHANGED <<budget, month, recorder, alerted, overlapped, overruled>>

\* Nothing in the code happens at the turn of the month: the spend starts at 0.
NextMonth ==
  /\ month < MaxMonths /\ month' = month + 1
  /\ alerted' = {}
  /\ UNCHANGED <<budget, served, usage, recorder, overlapped, overruled>>

RecorderStep(r) ==
  \/ ReadTenant(r) \/ CheckThresholds(r) \/ AutoPause(r) \/ RecordingFails(r)
  \/ \E c \in Calls, cost \in Costs : UpsertUsage(r, c, cost)

BudgetNext ==
  \/ \E r \in Recorders : RecorderStep(r)
  \/ \E c \in Calls : ServeCall(c) \/ EraseUsage(c)
  \/ \E limit \in Limits, autoPause \in BOOLEAN : ChangeBudget(limit, autoPause)
  \/ PauseTenant \/ ResumeTenant \/ NextMonth

BudgetSpec == BudgetInit /\ [][BudgetNext]_budgetVars

---------------------------------------------------------------------------
(* Properties.                                                              *)

BudgetType == [limit : Limits \cup {0}, autoPause : BOOLEAN, paused : BOOLEAN]

BudgetTypeOK ==
  /\ budget \in BudgetType
  /\ served \subseteq Calls
  /\ usage \in [Calls -> [amount : Costs \cup {0}, month : 0..MaxMonths]]
  /\ month \in 1..MaxMonths
  /\ recorder \in [Recorders -> [at : {"idle", "tenant", "aggregate", "pause"},
                                 cost : Costs \cup {0}, tenant : BudgetType]]
  /\ alerted \subseteq Thresholds
  /\ overlapped \in BOOLEAN /\ overruled \in BOOLEAN

\* The service "enforces the tenant's monthly budget (alerts at 50/80/100 %,
\* optional auto-pause at 100 %)" (cost.service.ts:3): once every recorded usage
\* has been checked, each threshold the spend has reached was mailed, itself or a
\* higher one, and a tenant at its limit is paused - unless an administrator
\* changed or lifted that, or a check failed.
BudgetEnforced ==
  budget.limit > 0 /\ ~overruled /\ (\A r \in Recorders : ~Recording(r)) =>
    /\ \A t \in Thresholds : 10 * Spend >= t * budget.limit => \E a \in alerted : a >= t
    /\ budget.autoPause /\ Spend >= budget.limit => budget.paused

\* The same as long as no two calls record their usage at the same time -
\* whatever is recorded again, erased, or carried over from another month.
BudgetEnforcedUnlessRaced == ~overlapped => BudgetEnforced
=============================================================================
