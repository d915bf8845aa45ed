-------------------------- MODULE Operations_proofs --------------------------
(***************************************************************************)
(* Theorems about what the platform keeps for its calls: the budget, the   *)
(* appointments that are offered, the assistant's settings and what the    *)
(* end of a call computes; and about all these parts side by side, with    *)
(* the number pool and the bookings that have proof modules of their own.  *)
(***************************************************************************)
EXTENDS MCOperations, NumberPool_proofs, CalendarBooking_proofs, QuestionnaireEngine_proofs,
        FiniteSetTheorems, SequenceTheorems

---------------------------------------------------------------------------
(***************************************************************************)
(* The budget: everything that has been recorded and checked was answered. *)
(***************************************************************************)

\* The copy of the tenant's row that a recorder holds.
Matches(copy, tenant) ==
  /\ copy.limit = tenant.limit /\ copy.autoPause = tenant.autoPause
  /\ copy.paused => tenant.paused

\* A spend of x was answered: every threshold it has reached was mailed, itself or a
\* higher one, and the tenant is paused for it or about to be.
Answered(x, tenant, mailed, pausing) ==
  /\ \A t \in Thresholds : 10 * x >= t * tenant.limit => \E a \in mailed : a >= t
  /\ tenant.autoPause /\ x >= tenant.limit => tenant.paused \/ pausing

Pausing == \E r \in Recorders : recorder[r].at = "pause"
AnsweredNow(x) == Answered(x, budget, alerted, Pausing)

OneUnchecked == \A r, s \in Recorders : Unchecked(r) /\ Unchecked(s) => r = s

\* While a recorder has its usage still to check, what the others have recorded was
\* answered.
SpendOK ==
  /\ (\A r \in Recorders : ~Unchecked(r)) => AnsweredNow(Spend)
  /\ \A r \in Recorders : Unchecked(r) => AnsweredNow(Spend - recorder[r].cost)
  /\ \A r \in Recorders : recorder[r].at = "aggregate" => Matches(recorder[r].tenant, budget)

MonthsOK == \A c \in Calls : usage[c].month <= month

Undisturbed == ~overlapped /\ ~overruled /\ budget.limit > 0

BudgetInv ==
  /\ BudgetTypeOK
  /\ MonthsOK
  /\ ~overlapped => OneUnchecked
  /\ Undisturbed => SpendOK

UsageEvent == [amount : Costs \cup {0}, month : 0..MaxMonths]
RecorderType == [at : {"idle", "tenant", "aggregate", "pause"}, cost : Costs \cup {0}, tenant : BudgetType]

LEMMA BudgetConstants ==
  /\ Costs \subseteq Nat /\ Limits \subseteq Nat /\ MaxMonths \in Nat /\ 0 <= MaxMonths
  /\ \A x \in Costs \cup {0} : x \in Nat
  /\ \A x \in Limits \cup {0} : x \in Nat
BY BudgetAssumption

\* The month of a usage event and its amount, as the spend counts them.
UnitsOf(u, m) == UNION {{c} \X (1 .. u[c].amount) : c \in {d \in Calls : u[d].month = m}}

LEMMA UnitsOfNow == Units = UnitsOf(usage, month) /\ Units' = UnitsOf(usage', month')
BY DEF Units, UnitsOf

LEMMA IsUnit ==
  ASSUME NEW u, NEW m, NEW x
  PROVE  x \in UnitsOf(u, m) <=>
           \E c \in Calls : u[c].month = m /\ x \in {c} \X (1 .. u[c].amount)
BY DEF UnitsOf

\* The units of finitely many calls are finitely many.
LEMMA UnitsFinite ==
  ASSUME NEW u \in [Calls -> UsageEvent], NEW m
  PROVE  IsFiniteSet(UnitsOf(u, m)) /\ Cardinality(UnitsOf(u, m)) \in Nat
<1> DEFINE C == {d \in Calls : u[d].month = m}
           S == {{c} \X (1 .. u[c].amount) : c \in C}
           f == [c \in C |-> {c} \X (1 .. u[c].amount)]
<1>1. IsFiniteSet(C)
  BY FS_Subset, BudgetAssumption
<1>2. f \in Surjection(C, S)
  BY DEF Surjection
<1>3. IsFiniteSet(S)
  <2> HIDE DEF f, S, C
  <2> QED BY <1>1, <1>2, FS_Surjection
<1>4. ASSUME NEW T \in S PROVE IsFiniteSet(T)
  <2>1. PICK c \in C : T = {c} \X (1 .. u[c].amount)
    OBVIOUS
  <2>2. u[c].amount \in Nat
    BY BudgetConstants DEF UsageEvent
  <2> HIDE DEF f, S, C
  <2>3. IsFiniteSet({c})
    BY FS_Singleton
  <2>5. \A n \in Nat : IsFiniteSet(1 .. n)
    BY FS_Interval
  <2>4. IsFiniteSet({c} \X (1 .. u[c].amount))
    BY <2>2, <2>3, <2>5, FS_Product
  <2> QED BY <2>1, <2>4
<1>5. IsFiniteSet(UNION S)
  <2> HIDE DEF S
  <2> QED BY <1>3, <1>4, FS_UNION
<1> QED BY <1>5, FS_CardinalityType DEF UnitsOf

\* The spend is a number, and zero when no event is of the month.
LEMMA SpendType ==
  ASSUME BudgetTypeOK
  PROVE  Spend \in Nat /\ IsFiniteSet(Units)
BY UnitsFinite, UnitsOfNow DEF BudgetTypeOK, Spend, UsageEvent

LEMMA SpendTypeNext ==
  ASSUME BudgetTypeOK'
  PROVE  Spend' \in Nat /\ budget' \in BudgetType
BY UnitsFinite, UnitsOfNow DEF BudgetTypeOK, Spend, UsageEvent

\* Writing the event of a call adds its new amount at most; the event that was there
\* counts no more.
LEMMA UpsertSpend ==
  ASSUME NEW u \in [Calls -> UsageEvent], NEW m, NEW c \in Calls, NEW e \in UsageEvent
  PROVE  Cardinality(UnitsOf([u EXCEPT ![c] = e], m)) <= Cardinality(UnitsOf(u, m)) + e.amount
<1> DEFINE v == [u EXCEPT ![c] = e]
           A == {c} \X (1 .. e.amount)
<1>1. e.amount \in Nat
  BY BudgetConstants DEF UsageEvent
<1>2. IsFiniteSet(A) /\ Cardinality(A) = e.amount
  <2>1. IsFiniteSet({c}) /\ Cardinality({c}) = 1
    BY FS_Singleton
  <2>2. IsFiniteSet(1 .. e.amount) /\ Cardinality(1 .. e.amount) = e.amount
    BY <1>1, FS_Interval
  <2>3. IsFiniteSet(A) /\ Cardinality(A) = 1 * Cardinality(1 .. e.amount)
    BY <2>1, <2>2, FS_Product
  <2> QED BY <1>1, <2>2, <2>3
<1>3. UnitsOf(v, m) \subseteq UnitsOf(u, m) \cup A
  <2>1. \A d \in Calls : v[d] = IF d = c THEN e ELSE u[d]
    OBVIOUS
  <2> SUFFICES ASSUME NEW x \in UnitsOf(v, m) PROVE x \in UnitsOf(u, m) \cup A
    OBVIOUS
  <2> HIDE DEF v
  <2>2. PICK d \in Calls : v[d].month = m /\ x \in {d} \X (1 .. v[d].amount)
    BY IsUnit
  <2>3. CASE d = c
    BY <2>1, <2>2, <2>3
  <2>4. CASE d # c
    BY <2>1, <2>2, <2>4, IsUnit
  <2> QED BY <2>3, <2>4
<1>4. IsFiniteSet(UnitsOf(u, m)) /\ Cardinality(UnitsOf(u, m)) \in Nat
  BY UnitsFinite
<1> HIDE DEF A
<1>5. /\ IsFiniteSet(UnitsOf(u, m) \cup A)
      /\ Cardinality(UnitsOf(u, m) \cup A) =
           Cardinality(UnitsOf(u, m)) + Cardinality(A) - Cardinality(UnitsOf(u, m) \cap A)
  BY <1>2, <1>4, FS_Union
<1>6. Cardinality(UnitsOf(u, m) \cap A) \in Nat
  BY <1>4, FS_Intersection, FS_CardinalityType
<1>7. v \in [Calls -> UsageEvent]
  OBVIOUS
<1>8. Cardinality(UnitsOf(v, m)) \in Nat
  <2> HIDE DEF v
  <2> QED BY <1>7, UnitsFinite
<1>9. Cardinality(UnitsOf(v, m)) <= Cardinality(UnitsOf(u, m) \cup A)
  <2> HIDE DEF v
  <2> QED BY <1>3, <1>5, FS_Subset
<1> HIDE DEF v
<1>10. Cardinality(UnitsOf(v, m)) <= Cardinality(UnitsOf(u, m)) + e.amount
  BY <1>1, <1>2, <1>4, <1>5, <1>6, <1>8, <1>9
<1> QED BY <1>10 DEF v

LEMMA EraseSpend ==
  ASSUME NEW u \in [Calls -> UsageEvent], NEW m, NEW c \in Calls
  PROVE  Cardinality(UnitsOf([u EXCEPT ![c] = NoUsage], m)) <= Cardinality(UnitsOf(u, m))
<1>1. NoUsage \in UsageEvent /\ NoUsage.amount = 0
  BY BudgetConstants DEF NoUsage, UsageEvent
<1>2. Cardinality(UnitsOf(u, m)) \in Nat
  BY UnitsFinite
<1>3. Cardinality(UnitsOf([u EXCEPT ![c] = NoUsage], m)) <= Cardinality(UnitsOf(u, m)) + NoUsage.amount
  BY <1>1, UpsertSpend
<1> QED BY <1>1, <1>2, <1>3

LEMMA NewMonthSpend ==
  ASSUME BudgetTypeOK, MonthsOK
  PROVE  Cardinality(UnitsOf(usage, month + 1)) = 0
<1>1. \A c \in Calls : usage[c].month # month + 1
  <2> TAKE c \in Calls
  <2>1. usage[c].month \in Int /\ month \in Int /\ usage[c].month <= month
    BY BudgetConstants DEF BudgetTypeOK, MonthsOK
  <2> QED BY <2>1
<1>2. UnitsOf(usage, month + 1) = {}
  BY <1>1, IsUnit
<1> QED BY <1>2, FS_EmptySet

\* Answering is for less as well, and is not undone by another mail.
LEMMA AnsweredLess ==
  ASSUME NEW tenant \in BudgetType, NEW x \in Int, NEW y \in Int, y <= x,
         NEW mailed, NEW more, mailed \subseteq more, NEW pausing, NEW pausing2,
         Answered(x, tenant, mailed, pausing), pausing => pausing2
  PROVE  Answered(y, tenant, more, pausing2)
<1>1. tenant.limit \in Nat
  BY BudgetConstants DEF BudgetType
<1>2. ASSUME NEW t \in Thresholds, 10 * y >= t * tenant.limit
      PROVE  \E a \in more : a >= t
  <2>1. t \in Nat /\ t * tenant.limit \in Int
    BY <1>1 DEF Thresholds
  <2>2. 10 * x >= t * tenant.limit
    BY <1>2, <2>1
  <2> QED BY <2>2 DEF Answered
<1>3. y >= tenant.limit => x >= tenant.limit
  BY <1>1
<1> QED BY <1>2, <1>3 DEF Answered

\* A tenant with a limit has reached no threshold with nothing.
LEMMA NothingIsAnswered ==
  ASSUME NEW tenant \in BudgetType, tenant.limit > 0, NEW x \in Int, x <= 0, NEW mailed, NEW pausing
  PROVE  Answered(x, tenant, mailed, pausing)
<1>1. tenant.limit \in Nat
  BY BudgetConstants DEF BudgetType
<1>2. \A t \in Thresholds : ~(10 * x >= t * tenant.limit)
  BY <1>1 DEF Thresholds
<1> QED BY <1>1, <1>2 DEF Answered

LEMMA HighestCrossed ==
  ASSUME NEW S \in SUBSET Thresholds, S # {}
  PROVE  /\ Max(S) \in S /\ \A t \in S : t <= Max(S)
         /\ 10 \in S => Max(S) = 10
<1>1. \E x \in S : \A y \in S : x >= y
  <2>1. CASE 10 \in S
    BY <2>1 DEF Thresholds
  <2>2. CASE 10 \notin S /\ 8 \in S
    BY <2>2 DEF Thresholds
  <2>3. CASE 10 \notin S /\ 8 \notin S
    <3>1. \A x \in S : x = 5
      BY <2>3 DEF Thresholds
    <3>2. PICK x \in S : TRUE
      OBVIOUS
    <3> QED BY <3>1, <3>2
  <2> QED BY <2>1, <2>2, <2>3
<1>2. Max(S) \in S /\ \A y \in S : Max(S) >= y
  BY <1>1 DEF Max
<1>3. Max(S) \in {5, 8, 10} /\ \A y \in S : y \in {5, 8, 10}
  BY <1>2 DEF Thresholds
<1> QED BY <1>2, <1>3

\* What happens to the recorders.
LEMMA RecorderGoes ==
  ASSUME BudgetTypeOK, NEW r \in Recorders, NEW a \in {"idle", "tenant", "aggregate", "pause"},
         RecorderTo(r, a)
  PROVE  /\ recorder' \in [Recorders -> RecorderType]
         /\ \A s \in Recorders : s # r => recorder'[s] = recorder[s]
         /\ recorder'[r].at = a
<1>1. recorder \in [Recorders -> RecorderType]
  BY DEF BudgetTypeOK, RecorderType
<1>2. IdleRecorder \in RecorderType /\ IdleRecorder.at = "idle"
  BY BudgetConstants DEF IdleRecorder, RecorderType, BudgetType, NoBudget
<1>3. [recorder[r] EXCEPT !.at = a] \in RecorderType /\ [recorder[r] EXCEPT !.at = a].at = a
  BY <1>1 DEF RecorderType
<1> DEFINE n == IF a = "idle" THEN IdleRecorder ELSE [recorder[r] EXCEPT !.at = a]
<1>4. n \in RecorderType /\ n.at = a
  BY <1>2, <1>3
<1>5. recorder' = [recorder EXCEPT ![r] = n]
  BY DEF RecorderTo
<1> HIDE DEF n
<1> QED BY <1>1, <1>4, <1>5

(***************************************************************************)
(* The steps.                                                              *)
(***************************************************************************)

LEMMA BudgetTypes ==
  ASSUME BudgetTypeOK
  PROVE  /\ budget \in BudgetType /\ usage \in [Calls -> UsageEvent]
         /\ recorder \in [Recorders -> RecorderType] /\ month \in 1..MaxMonths
         /\ Spend \in Nat
         /\ \A r \in Recorders : recorder[r].cost \in Nat /\ recorder[r].tenant \in BudgetType
BY SpendType, BudgetConstants DEF BudgetTypeOK, UsageEvent, RecorderType

LEMMA UpsertGoes ==
  ASSUME BudgetTypeOK, NEW r \in Recorders, NEW c \in Calls, NEW cost \in Costs, UpsertUsage(r, c, cost)
  PROVE  /\ recorder' \in [Recorders -> RecorderType]
         /\ \A s \in Recorders : s # r => recorder'[s] = recorder[s]
         /\ recorder'[r].at = "tenant" /\ recorder'[r].cost = cost
         /\ usage' \in [Calls -> UsageEvent]
         /\ MonthsOK => MonthsOK'
         /\ Spend' <= Spend + cost
<1> DEFINE n == [IdleRecorder EXCEPT !.at = "tenant", !.cost = cost]
           m == IF usage[c] = NoUsage THEN month ELSE usage[c].month
           e == [amount |-> cost, month |-> m]
<1>1. n \in RecorderType /\ n.at = "tenant" /\ n.cost = cost
  BY BudgetConstants DEF IdleRecorder, RecorderType, BudgetType, NoBudget
<1>2. recorder \in [Recorders -> RecorderType] /\ recorder' = [recorder EXCEPT ![r] = n]
  BY BudgetTypes DEF UpsertUsage
<1>3. /\ recorder' \in [Recorders -> RecorderType]
      /\ \A s \in Recorders : s # r => recorder'[s] = recorder[s]
      /\ recorder'[r] = n
  <2> HIDE DEF n
  <2> QED BY <1>1, <1>2
<1>4. m \in 0..MaxMonths /\ (usage[c].month <= month => m <= month)
  BY BudgetTypes, BudgetConstants DEF UsageEvent
<1>5. usage \in [Calls -> UsageEvent] /\ usage' = [usage EXCEPT ![c] = e] /\ month' = month
  BY BudgetTypes DEF UpsertUsage
<1>6. e \in UsageEvent /\ e.amount = cost /\ e.month = m
  BY <1>4 DEF UsageEvent
<1> HIDE DEF n, m, e
<1>7. usage' \in [Calls -> UsageEvent] /\ usage'[c] = e /\ \A d \in Calls : d # c => usage'[d] = usage[d]
  BY <1>5, <1>6
<1>8. MonthsOK => MonthsOK'
  BY <1>4, <1>5, <1>6, <1>7 DEF MonthsOK
<1>9. Cardinality(UnitsOf(usage', month')) <= Cardinality(UnitsOf(usage, month)) + cost
  BY <1>5, <1>6, UpsertSpend
<1>10. Spend' <= Spend + cost
  BY <1>9, UnitsOfNow DEF Spend
<1> QED BY <1>1, <1>3, <1>7, <1>8, <1>10

LEMMA EraseGoes ==
  ASSUME BudgetTypeOK, NEW c \in Calls, EraseUsage(c)
  PROVE  /\ usage' \in [Calls -> UsageEvent]
         /\ MonthsOK => MonthsOK'
         /\ Spend' <= Spend
<1>1. usage \in [Calls -> UsageEvent] /\ usage' = [usage EXCEPT ![c] = NoUsage] /\ month' = month
      /\ month \in Nat
  BY BudgetTypes, BudgetConstants DEF EraseUsage
<1>2. NoUsage \in UsageEvent /\ NoUsage.month = 0
  BY BudgetConstants DEF NoUsage, UsageEvent
<1>3. usage' \in [Calls -> UsageEvent] /\ usage'[c] = NoUsage /\ \A d \in Calls : d # c => usage'[d] = usage[d]
  BY <1>1, <1>2
<1>4. Cardinality(UnitsOf(usage', month')) <= Cardinality(UnitsOf(usage, month))
  BY <1>1, EraseSpend
<1> QED BY <1>1, <1>2, <1>3, <1>4, UnitsOfNow DEF MonthsOK, Spend

LEMMA ReadGoes ==
  ASSUME BudgetTypeOK, NEW r \in Recorders, ReadTenant(r)
  PROVE  /\ recorder' \in [Recorders -> RecorderType]
         /\ \A s \in Recorders : s # r => recorder'[s] = recorder[s]
         /\ budget.limit = 0 => recorder'[r].at = "idle"
         /\ budget.limit # 0 => /\ recorder'[r].at = "aggregate" /\ recorder'[r].tenant = budget
                                /\ recorder'[r].cost = recorder[r].cost
<1>1. CASE budget.limit = 0
  BY <1>1, RecorderGoes DEF ReadTenant
<1>2. CASE budget.limit # 0
  <2> DEFINE n == [recorder[r] EXCEPT !.at = "aggregate", !.tenant = budget]
  <2>1. recorder \in [Recorders -> RecorderType] /\ budget \in BudgetType
    BY BudgetTypes
  <2>2. recorder' = [recorder EXCEPT ![r] = n]
    BY <1>2, <2>1 DEF ReadTenant
  <2>3. n \in RecorderType /\ n.at = "aggregate" /\ n.tenant = budget /\ n.cost = recorder[r].cost
    BY <2>1 DEF RecorderType
  <2> HIDE DEF n
  <2> QED BY <1>2, <2>1, <2>2, <2>3
<1> QED BY <1>1, <1>2

LEMMA CheckGoes ==
  ASSUME BudgetTypeOK, NEW r \in Recorders, CheckThresholds(r)
  PROVE  LET tenant == recorder[r].tenant
             crossed == Crossed(Spend - recorder[r].cost, Spend, tenant.limit)
         IN  /\ recorder[r].at = "aggregate"
             /\ recorder' \in [Recorders -> RecorderType]
             /\ \A s \in Recorders : s # r => recorder'[s] = recorder[s]
             /\ recorder'[r].at \in {"idle", "pause"}
             /\ alerted \subseteq alerted' /\ alerted' \subseteq Thresholds
             /\ \A t \in crossed : \E a \in alerted' : a >= t
             /\ 10 \in crossed /\ tenant.autoPause /\ ~tenant.paused => recorder'[r].at = "pause"
<1> DEFINE tenant == recorder[r].tenant
           crossed == Crossed(Spend - recorder[r].cost, Spend, tenant.limit)
           to == IF Max(crossed) = 10 /\ tenant.autoPause /\ ~tenant.paused THEN "pause" ELSE "idle"
<1>1. crossed \in SUBSET Thresholds
  BY DEF Crossed
<1>2. CASE crossed = {}
  <2>1. alerted' = alerted /\ RecorderTo(r, "idle") /\ recorder[r].at = "aggregate"
    BY <1>2 DEF CheckThresholds
  <2> QED BY <1>2, <2>1, RecorderGoes DEF BudgetTypeOK
<1>3. CASE crossed # {}
  <2>1. alerted' = alerted \cup {Max(crossed)} /\ RecorderTo(r, to) /\ recorder[r].at = "aggregate"
    BY <1>3 DEF CheckThresholds
  <2>2. Max(crossed) \in crossed /\ \A t \in crossed : t <= Max(crossed)
    <3> HIDE DEF crossed
    <3> QED BY <1>1, <1>3, HighestCrossed
  <2>3. 10 \in crossed => Max(crossed) = 10
    <3> HIDE DEF crossed
    <3> QED BY <1>1, <1>3, HighestCrossed
  <2>4. to \in {"idle", "pause"}
    OBVIOUS
  <2>5. 10 \in crossed /\ tenant.autoPause /\ ~tenant.paused => to = "pause"
    BY <2>3
  <2>6. \A t \in crossed : Max(crossed) >= t
    <3> HIDE DEF crossed
    <3> QED BY <1>1, <2>2 DEF Thresholds
  <2> HIDE DEF crossed, to
  <2>7. /\ recorder' \in [Recorders -> RecorderType]
        /\ \A s \in Recorders : s # r => recorder'[s] = recorder[s]
        /\ recorder'[r].at = to
    BY <2>1, <2>4, RecorderGoes
  <2>8. alerted \subseteq alerted' /\ alerted' \subseteq Thresholds /\ Max(crossed) \in alerted'
    BY <1>1, <2>1, <2>2 DEF BudgetTypeOK
  <2> QED BY <2>1, <2>4, <2>5, <2>6, <2>7, <2>8 DEF crossed
<1> QED BY <1>2, <1>3

LEMMA ChangesKeepType ==
  ASSUME BudgetTypeOK, NEW limit \in Limits, NEW autoPause \in BOOLEAN
  PROVE  /\ [budget EXCEPT !.limit = limit, !.autoPause = autoPause] \in BudgetType
         /\ [budget EXCEPT !.paused = TRUE] \in BudgetType
         /\ [budget EXCEPT !.paused = FALSE] \in BudgetType
BY DEF BudgetTypeOK, BudgetType

LEMMA NextBudgetType == BudgetTypeOK /\ BudgetNext => BudgetTypeOK'
<1> SUFFICES ASSUME BudgetTypeOK, BudgetNext PROVE BudgetTypeOK'
  OBVIOUS
<1> USE DEF UsageEvent, RecorderType
<1>1. ASSUME NEW r \in Recorders, NEW c \in Calls, NEW cost \in Costs, UpsertUsage(r, c, cost)
      PROVE  BudgetTypeOK'
  <2>1. overlapped' \in BOOLEAN
    BY <1>1 DEF UpsertUsage, BudgetTypeOK
  <2> QED BY <1>1, <2>1, UpsertGoes DEF UpsertUsage, BudgetTypeOK
<1>2. ASSUME NEW r \in Recorders, ReadTenant(r) PROVE BudgetTypeOK'
  BY <1>2, ReadGoes DEF ReadTenant, BudgetTypeOK
<1>3. ASSUME NEW r \in Recorders, CheckThresholds(r) PROVE BudgetTypeOK'
  <2>1. UNCHANGED <<budget, served, usage, month, overlapped, overruled>>
    BY <1>3 DEF CheckThresholds
  <2> QED BY <1>3, <2>1, CheckGoes DEF BudgetTypeOK
<1>4. ASSUME NEW r \in Recorders, AutoPause(r) PROVE BudgetTypeOK'
  <2>1. budget' \in BudgetType
    BY <1>4 DEF AutoPause, BudgetTypeOK, BudgetType
  <2>2. recorder' \in [Recorders -> RecorderType]
    BY <1>4, RecorderGoes DEF AutoPause
  <2> QED BY <1>4, <2>1, <2>2 DEF AutoPause, BudgetTypeOK
<1>5. ASSUME NEW r \in Recorders, RecordingFails(r) PROVE BudgetTypeOK'
  BY <1>5, RecorderGoes DEF RecordingFails, BudgetTypeOK
<1>6. ASSUME NEW limit \in Limits, NEW autoPause \in BOOLEAN, ChangeBudget(limit, autoPause)
      PROVE  BudgetTypeOK'
  <2>1. budget' \in BudgetType
    BY <1>6, ChangesKeepType DEF ChangeBudget
  <2>2. overruled' \in BOOLEAN
    BY <1>6 DEF ChangeBudget, BudgetTypeOK
  <2> QED BY <1>6, <2>1, <2>2 DEF ChangeBudget, BudgetTypeOK
<1>7. CASE PauseTenant
  <2>1. budget' \in BudgetType
    BY <1>7 DEF PauseTenant, BudgetTypeOK, BudgetType
  <2> QED BY <1>7, <2>1 DEF PauseTenant, BudgetTypeOK
<1>8. CASE ResumeTenant
  <2>1. budget' \in BudgetType
    BY <1>8 DEF ResumeTenant, BudgetTypeOK, BudgetType
  <2>2. overruled' \in BOOLEAN
    BY <1>8 DEF ResumeTenant, BudgetTypeOK
  <2> QED BY <1>8, <2>1, <2>2 DEF ResumeTenant, BudgetTypeOK
<1>9. ASSUME NEW c \in Calls, ServeCall(c) PROVE BudgetTypeOK'
  BY <1>9 DEF ServeCall, BudgetTypeOK
<1>10. ASSUME NEW c \in Calls, EraseUsage(c) PROVE BudgetTypeOK'
  BY <1>10, EraseGoes DEF EraseUsage, BudgetTypeOK
<1>11. CASE NextMonth
  <2>1. month' \in 1..MaxMonths
    BY <1>11, BudgetConstants DEF NextMonth, BudgetTypeOK
  <2> QED BY <1>11, <2>1 DEF NextMonth, BudgetTypeOK
<1> QED BY <1>1, <1>2, <1>3, <1>4, <1>5, <1>6, <1>7, <1>8, <1>9, <1>10, <1>11 DEF BudgetNext, RecorderStep

LEMMA InitBudget == BudgetInit => BudgetInv
<1> SUFFICES ASSUME BudgetInit PROVE BudgetInv
  OBVIOUS
<1>1. BudgetTypeOK
  <2>1. NoUsage \in UsageEvent /\ IdleRecorder \in RecorderType
    BY BudgetConstants DEF NoUsage, UsageEvent, IdleRecorder, RecorderType, NoBudget, BudgetType
  <2>2. 1 \in 1..MaxMonths
    BY BudgetAssumption
  <2> QED BY <2>1, <2>2 DEF BudgetInit, BudgetTypeOK, BudgetType, UsageEvent, RecorderType
<1>2. \A c \in Calls : usage[c].month = 0 /\ month = 1
  BY DEF BudgetInit, NoUsage
<1>3. \A r \in Recorders : recorder[r].at = "idle"
  BY DEF BudgetInit, IdleRecorder
<1>4. Units = {}
  BY <1>2, IsUnit, UnitsOfNow
<1>5. Spend = 0
  BY <1>4, FS_EmptySet DEF Spend
<1>6. Undisturbed => AnsweredNow(Spend)
  BY <1>1, <1>5, NothingIsAnswered DEF AnsweredNow, Undisturbed, BudgetTypeOK
<1> QED BY <1>1, <1>2, <1>3, <1>6 DEF BudgetInv, MonthsOK, OneUnchecked, SpendOK, Unchecked

\* What the invariant says before a step, where it says anything.
LEMMA Before ==
  ASSUME BudgetInv, Undisturbed
  PROVE  /\ OneUnchecked /\ SpendOK
         /\ budget \in BudgetType /\ budget.limit \in Nat /\ Spend \in Nat
         /\ \A r \in Recorders : recorder[r].cost \in Nat
BY BudgetTypes, BudgetConstants DEF BudgetInv, Undisturbed, BudgetType

\* A step that mails nothing and records nothing keeps what was answered, if the tenant
\* stays paused or gets it, and nobody begins to check.
LEMMA AsideKeeps ==
  ASSUME BudgetInv, BudgetTypeOK', Undisturbed, Undisturbed',
         recorder' = recorder, Spend' <= Spend, alerted \subseteq alerted',
         budget'.limit = budget.limit, budget'.autoPause = budget.autoPause,
         budget.paused => budget'.paused
  PROVE  OneUnchecked' /\ SpendOK'
<1>1. /\ OneUnchecked /\ SpendOK
      /\ budget \in BudgetType /\ budget.limit \in Nat /\ Spend \in Nat
      /\ \A r \in Recorders : recorder[r].cost \in Nat
  BY Before
<1>2. Spend' \in Nat /\ budget' \in BudgetType
  BY SpendTypeNext
<1>3. \A r \in Recorders : Unchecked(r)' <=> Unchecked(r)
  BY DEF Unchecked
<1>4. Pausing' <=> Pausing
  BY DEF Pausing
<1>5. ASSUME NEW x \in Int, NEW y \in Int, y <= x, AnsweredNow(x)
      PROVE  Answered(y, budget', alerted', Pausing')
  <2>1. Answered(y, budget, alerted', Pausing')
    BY <1>1, <1>4, <1>5, AnsweredLess DEF AnsweredNow
  <2> QED BY <2>1 DEF Answered
<1>6. (\A r \in Recorders : ~Unchecked(r)') => Answered(Spend', budget', alerted', Pausing')
  BY <1>1, <1>2, <1>3, <1>5 DEF SpendOK
<1>7. ASSUME NEW r \in Recorders, Unchecked(r)
      PROVE  Answered(Spend' - recorder'[r].cost, budget', alerted', Pausing')
  <2>1. AnsweredNow(Spend - recorder[r].cost)
    BY <1>1, <1>7 DEF SpendOK
  <2>2. Spend - recorder[r].cost \in Int /\ Spend' - recorder[r].cost \in Int
        /\ Spend' - recorder[r].cost <= Spend - recorder[r].cost
    BY <1>1, <1>2
  <2> QED BY <1>5, <2>1, <2>2
<1>8. \A r \in Recorders : recorder'[r].at = "aggregate" => Matches(recorder'[r].tenant, budget')
  BY <1>1 DEF SpendOK, Matches
<1> QED BY <1>1, <1>3, <1>6, <1>7, <1>8 DEF OneUnchecked, SpendOK, AnsweredNow

\* The new event of a call is still to be answered, what there was besides it was.
LEMMA UpsertKeeps ==
  ASSUME BudgetInv, BudgetTypeOK', NEW r \in Recorders, NEW c \in Calls, NEW cost \in Costs,
         UpsertUsage(r, c, cost)
  PROVE  /\ ~overlapped' => OneUnchecked'
         /\ Undisturbed' => SpendOK'
<1>1. /\ overlapped' = (overlapped \/ \E s \in Recorders : Unchecked(s))
      /\ UNCHANGED <<budget, month, alerted, overruled>> /\ recorder[r].at = "idle"
  BY DEF UpsertUsage
<1>2. SUFFICES ASSUME ~overlapped' PROVE OneUnchecked' /\ (Undisturbed' => SpendOK')
  BY DEF Undisturbed
<1>3. \A s \in Recorders : ~Unchecked(s)
  BY <1>1, <1>2
<1>4. /\ \A s \in Recorders : s # r => recorder'[s] = recorder[s]
      /\ recorder'[r].at = "tenant" /\ recorder'[r].cost = cost
      /\ Spend' <= Spend + cost
  BY UpsertGoes DEF BudgetInv
<1>5. \A s \in Recorders : Unchecked(s)' <=> s = r
  BY <1>3, <1>4 DEF Unchecked
<1>6. OneUnchecked'
  BY <1>5 DEF OneUnchecked
<1>7. ASSUME Undisturbed' PROVE SpendOK'
  <2>1. Undisturbed
    BY <1>1, <1>7 DEF Undisturbed
  <2>2. Spend \in Nat /\ Spend' \in Nat /\ cost \in Nat /\ budget \in BudgetType
    BY <2>1, Before, SpendTypeNext, BudgetConstants
  <2>3. AnsweredNow(Spend)
    BY <1>3, <2>1, Before DEF SpendOK
  <2>4. Pausing => Pausing'
    BY <1>1, <1>4 DEF Pausing
  <2>8. \A a, b, d \in Nat : a <= b + d => a - d \in Int /\ a - d <= b
    OBVIOUS
  <2>5. Spend' - cost \in Int /\ Spend' - cost <= Spend
    BY <1>4, <2>2, <2>8
  <2>9. Answered(Spend, budget, alerted, Pausing) /\ Spend \in Int
    BY <2>2, <2>3 DEF AnsweredNow
  <2>10. Answered(Spend' - cost, budget, alerted, Pausing')
    BY <2>2, <2>4, <2>5, <2>9, AnsweredLess
  <2>6. Answered(Spend' - cost, budget', alerted', Pausing')
    BY <1>1, <2>10
  <2>7. \A s \in Recorders : recorder'[s].at # "aggregate"
    BY <1>3, <1>4 DEF Unchecked
  <2> QED BY <1>4, <1>5, <2>6, <2>7 DEF SpendOK, AnsweredNow
<1> QED BY <1>6, <1>7

LEMMA ReadKeeps ==
  ASSUME BudgetInv, BudgetTypeOK', NEW r \in Recorders, ReadTenant(r)
  PROVE  /\ ~overlapped' => OneUnchecked'
         /\ Undisturbed' => SpendOK'
<1>1. /\ UNCHANGED <<budget, usage, month, alerted, overlapped, overruled>> /\ recorder[r].at = "tenant"
  BY DEF ReadTenant
<1>2. /\ \A s \in Recorders : s # r => recorder'[s] = recorder[s]
      /\ budget.limit = 0 => recorder'[r].at = "idle"
      /\ budget.limit # 0 => /\ recorder'[r].at = "aggregate" /\ recorder'[r].tenant = budget
                             /\ recorder'[r].cost = recorder[r].cost
  BY ReadGoes DEF BudgetInv
<1>3. \A s \in Recorders : Unchecked(s)' => Unchecked(s)
  BY <1>1, <1>2 DEF Unchecked
<1>4. ~overlapped' => OneUnchecked'
  BY <1>1, <1>3 DEF OneUnchecked, BudgetInv
<1>5. ASSUME Undisturbed' PROVE SpendOK'
  <2>1. Undisturbed
    BY <1>1, <1>5 DEF Undisturbed
  <2>2. budget.limit # 0 /\ Unchecked(r)'
    BY <1>2, <2>1 DEF Undisturbed, Unchecked
  <2>3. Spend' = Spend
    BY <1>1 DEF Spend, Units
  <2>4. Pausing' <=> Pausing
    BY <1>1, <1>2, <2>2 DEF Pausing
  <2>5. SpendOK
    BY <2>1, Before
  <2>6. \A s \in Recorders : Unchecked(s)' => Answered(Spend' - recorder'[s].cost, budget', alerted', Pausing')
    BY <1>1, <1>2, <1>3, <2>2, <2>3, <2>4, <2>5 DEF SpendOK, AnsweredNow
  <2>7. \A s \in Recorders : recorder'[s].at = "aggregate" => Matches(recorder'[s].tenant, budget')
    BY <1>1, <1>2, <2>2, <2>5 DEF SpendOK, Matches
  <2> QED BY <2>2, <2>6, <2>7 DEF SpendOK, AnsweredNow
<1> QED BY <1>4, <1>5

\* The check answers for the cost: what it did not cross had been reached before.
LEMMA CheckKeeps ==
  ASSUME BudgetInv, BudgetTypeOK', NEW r \in Recorders, CheckThresholds(r)
  PROVE  /\ ~overlapped' => OneUnchecked'
         /\ Undisturbed' => SpendOK'
<1> DEFINE before == Spend - recorder[r].cost
           crossed == Crossed(before, Spend, recorder[r].tenant.limit)
<1>1. /\ UNCHANGED <<budget, usage, month, overlapped, overruled>> /\ recorder[r].at = "aggregate"
  BY DEF CheckThresholds
<1>2. /\ \A s \in Recorders : s # r => recorder'[s] = recorder[s]
      /\ recorder'[r].at \in {"idle", "pause"}
      /\ alerted \subseteq alerted'
      /\ \A t \in crossed : \E a \in alerted' : a >= t
      /\ 10 \in crossed /\ recorder[r].tenant.autoPause /\ ~recorder[r].tenant.paused
           => recorder'[r].at = "pause"
  BY CheckGoes DEF BudgetInv
<1>3. \A s \in Recorders : Unchecked(s)' => Unchecked(s) /\ s # r
  BY <1>1, <1>2 DEF Unchecked
<1>4. ~overlapped' => OneUnchecked'
  BY <1>1, <1>3 DEF OneUnchecked, BudgetInv
<1>5. ASSUME Undisturbed' PROVE SpendOK'
  <2>1. Undisturbed
    BY <1>1, <1>5 DEF Undisturbed
  <2>2. /\ OneUnchecked /\ SpendOK /\ budget \in BudgetType /\ budget.limit \in Nat
        /\ Spend \in Nat /\ before \in Int
    BY <2>1, Before
  <2>3. Unchecked(r) /\ AnsweredNow(before) /\ Matches(recorder[r].tenant, budget)
    BY <1>1, <2>2 DEF SpendOK, Unchecked
  <2>4. \A s \in Recorders : ~Unchecked(s)'
    BY <1>3, <2>2, <2>3 DEF OneUnchecked
  <2>5. Spend' = Spend
    BY <1>1 DEF Spend, Units
  <2>6. recorder[r].tenant.limit = budget.limit
    BY <2>3 DEF Matches
  <2>7. \A t \in Thresholds : 10 * Spend >= t * budget.limit =>
          10 * before >= t * budget.limit \/ t \in crossed
    <3>1. \A t \in Thresholds : t * budget.limit \in Int /\ 10 * before \in Int
      BY <2>2 DEF Thresholds
    <3> HIDE DEF before
    <3> QED BY <2>6, <3>1 DEF Crossed
  <2>8. \A t \in Thresholds : 10 * Spend' >= t * budget'.limit => \E a \in alerted' : a >= t
    <3> HIDE DEF before, crossed
    <3> QED BY <1>1, <1>2, <2>3, <2>5, <2>7 DEF AnsweredNow, Answered
  <2>9. Pausing => Pausing'
    BY <1>1, <1>2 DEF Pausing
  <2>10. ASSUME budget.autoPause, Spend >= budget.limit PROVE budget.paused \/ Pausing'
    <3>1. CASE before >= budget.limit
      <4> HIDE DEF before
      <4> QED BY <1>1, <1>2, <2>3, <2>9, <2>10, <3>1 DEF AnsweredNow, Answered
    <3>2. CASE ~(before >= budget.limit)
      <4>1. 10 \in crossed
        <5>1. 10 * before < 10 * budget.limit /\ 10 * Spend >= 10 * budget.limit
          BY <2>2, <2>10, <3>2
        <5> HIDE DEF before
        <5> QED BY <2>6, <5>1 DEF Crossed, Thresholds
      <4>2. recorder[r].tenant.autoPause /\ (recorder[r].tenant.paused => budget.paused)
        BY <2>3, <2>10 DEF Matches
      <4>3. recorder'[r].at = "pause" \/ budget.paused
        BY <1>2, <4>1, <4>2
      <4> QED BY <4>3 DEF Pausing
    <3> QED BY <3>1, <3>2
  <2>11. Answered(Spend', budget', alerted', Pausing')
    <3> HIDE DEF before, crossed
    <3> QED BY <1>1, <2>5, <2>8, <2>10 DEF Answered
  <2>12. \A s \in Recorders : recorder'[s].at # "aggregate"
    BY <2>4 DEF Unchecked
  <2> QED BY <2>4, <2>11, <2>12 DEF SpendOK, AnsweredNow
<1> QED BY <1>4, <1>5

LEMMA PauseKeeps ==
  ASSUME BudgetInv, BudgetTypeOK', NEW r \in Recorders, AutoPause(r)
  PROVE  /\ ~overlapped' => OneUnchecked'
         /\ Undisturbed' => SpendOK'
<1>1. /\ UNCHANGED <<usage, month, alerted, overlapped, overruled>> /\ recorder[r].at = "pause"
      /\ budget' = [budget EXCEPT !.paused = TRUE]
  BY DEF AutoPause
<1>2. \A s \in Recorders : s # r => recorder'[s] = recorder[s]
  BY RecorderGoes DEF AutoPause, BudgetInv
<1>3. recorder'[r].at = "idle"
  BY RecorderGoes DEF AutoPause, BudgetInv
<1>4. \A s \in Recorders : Unchecked(s)' <=> Unchecked(s)
  BY <1>1, <1>2, <1>3 DEF Unchecked
<1>5. ~overlapped' => OneUnchecked'
  BY <1>1, <1>4 DEF OneUnchecked, BudgetInv
<1>6. budget \in BudgetType
  BY DEF BudgetInv, BudgetTypeOK
<1>7. budget'.limit = budget.limit /\ budget'.autoPause = budget.autoPause /\ budget'.paused
  BY <1>1, <1>6 DEF BudgetType
<1>8. ASSUME Undisturbed' PROVE SpendOK'
  <2>1. Undisturbed
    BY <1>1, <1>7, <1>8 DEF Undisturbed
  <2>2. SpendOK
    BY <2>1, Before
  <2>3. Spend' = Spend
    BY <1>1 DEF Spend, Units
  <2>4. \A x : AnsweredNow(x) => Answered(x, budget', alerted', Pausing')
    BY <1>1, <1>7 DEF AnsweredNow, Answered
  <2>5. (\A s \in Recorders : ~Unchecked(s)') => Answered(Spend', budget', alerted', Pausing')
    BY <1>4, <2>2, <2>3, <2>4 DEF SpendOK
  <2>6. \A s \in Recorders : Unchecked(s)' => Answered(Spend' - recorder'[s].cost, budget', alerted', Pausing')
    BY <1>1, <1>2, <1>4, <2>2, <2>3, <2>4 DEF SpendOK, Unchecked
  <2>7. \A s \in Recorders : recorder'[s].at = "aggregate" => Matches(recorder'[s].tenant, budget')
    BY <1>2, <1>3, <1>7, <2>2 DEF SpendOK, Matches
  <2> QED BY <2>5, <2>6, <2>7 DEF SpendOK, AnsweredNow
<1> QED BY <1>5, <1>8

\* The new month begins with nothing.
LEMMA MonthKeeps ==
  ASSUME BudgetInv, BudgetTypeOK', NextMonth
  PROVE  /\ ~overlapped' => OneUnchecked'
         /\ Undisturbed' => SpendOK'
<1>1. /\ UNCHANGED <<budget, usage, recorder, overlapped, overruled>> /\ month' = month + 1
  BY DEF NextMonth
<1>2. ~overlapped' => OneUnchecked'
  BY <1>1 DEF OneUnchecked, Unchecked, BudgetInv
<1>3. Spend' = 0
  <2>1. Cardinality(UnitsOf(usage', month')) = 0
    BY <1>1, NewMonthSpend DEF BudgetInv
  <2> QED BY <2>1, UnitsOfNow DEF Spend
<1>4. ASSUME Undisturbed' PROVE SpendOK'
  <2>1. Undisturbed
    BY <1>1, <1>4 DEF Undisturbed
  <2>2. budget' \in BudgetType /\ budget'.limit > 0 /\ \A r \in Recorders : recorder'[r].cost \in Nat
    BY <1>1, <2>1, Before DEF Undisturbed
  <2>3. Answered(Spend', budget', alerted', Pausing')
    BY <1>3, <2>2, NothingIsAnswered
  <2>4. \A r \in Recorders : Answered(Spend' - recorder'[r].cost, budget', alerted', Pausing')
    <3> TAKE r \in Recorders
    <3>1. Spend' - recorder'[r].cost \in Int /\ Spend' - recorder'[r].cost <= 0
      BY <1>3, <2>2
    <3> QED BY <2>2, <3>1, NothingIsAnswered
  <2>5. \A r \in Recorders : recorder'[r].at = "aggregate" => Matches(recorder'[r].tenant, budget')
    BY <1>1, <2>1, Before DEF SpendOK, Matches
  <2> QED BY <2>3, <2>4, <2>5 DEF SpendOK, AnsweredNow
<1> QED BY <1>2, <1>4


\* The rest of the invariant, besides the types.
RestOfInv == MonthsOK /\ (~overlapped => OneUnchecked) /\ (Undisturbed => SpendOK)

LEMMA NextBudget == BudgetInv /\ [BudgetNext]_budgetVars => BudgetInv'
<1>1. ASSUME BudgetInv, UNCHANGED budgetVars PROVE BudgetInv'
  <2>1. Units' = Units
    BY <1>1 DEF budgetVars, Units
  <2> QED BY <1>1, <2>1 DEF budgetVars, BudgetInv, BudgetTypeOK, MonthsOK, OneUnchecked, SpendOK,
       Unchecked, Undisturbed, AnsweredNow, Pausing, Spend
<1>2. ASSUME BudgetInv, BudgetNext PROVE BudgetInv'
  <2>1. BudgetTypeOK /\ BudgetTypeOK' /\ MonthsOK /\ RestOfInv
    BY <1>2, NextBudgetType DEF BudgetInv, RestOfInv
  <2>2. ASSUME NEW r \in Recorders, NEW c \in Calls, NEW cost \in Costs, UpsertUsage(r, c, cost)
        PROVE  RestOfInv'
    BY <1>2, <2>1, <2>2, UpsertGoes, UpsertKeeps DEF RestOfInv
  <2>3. ASSUME NEW r \in Recorders, ReadTenant(r) PROVE RestOfInv'
    <3>1. MonthsOK'
      BY <2>1, <2>3 DEF ReadTenant, MonthsOK
    <3> QED BY <1>2, <2>1, <2>3, <3>1, ReadKeeps DEF RestOfInv
  <2>4. ASSUME NEW r \in Recorders, CheckThresholds(r) PROVE RestOfInv'
    <3>1. MonthsOK'
      BY <2>1, <2>4 DEF CheckThresholds, MonthsOK
    <3> QED BY <1>2, <2>1, <2>4, <3>1, CheckKeeps DEF RestOfInv
  <2>5. ASSUME NEW r \in Recorders, AutoPause(r) PROVE RestOfInv'
    <3>1. MonthsOK'
      BY <2>1, <2>5 DEF AutoPause, MonthsOK
    <3> QED BY <1>2, <2>1, <2>5, <3>1, PauseKeeps DEF RestOfInv
  <2>6. ASSUME NEW r \in Recorders, RecordingFails(r) PROVE RestOfInv'
    <3>1. overruled' /\ UNCHANGED <<budget, served, usage, month, alerted, overlapped>>
      BY <2>6 DEF RecordingFails
    <3>2. \A s \in Recorders : Unchecked(s)' => Unchecked(s)
      BY <2>1, <2>6, RecorderGoes DEF RecordingFails, Unchecked
    <3> QED BY <2>1, <3>1, <3>2 DEF RestOfInv, MonthsOK, OneUnchecked, Undisturbed
  <2>7. ASSUME UNCHANGED <<usage, month, recorder, overlapped>> PROVE MonthsOK' /\ (~overlapped' => OneUnchecked')
    BY <2>1, <2>7 DEF RestOfInv, MonthsOK, OneUnchecked, Unchecked
  <2>8. ASSUME NEW limit \in Limits, NEW autoPause \in BOOLEAN, ChangeBudget(limit, autoPause)
        PROVE  RestOfInv'
    <3>1. /\ UNCHANGED <<served, usage, month, recorder, alerted, overlapped>>
          /\ overruled' = (overruled \/ Spend > 0 \/ \E r \in Recorders : Recording(r))
      BY <2>8 DEF ChangeBudget
    <3>2. ASSUME Undisturbed' PROVE SpendOK'
      <4>1. Spend = 0 /\ \A r \in Recorders : recorder[r].at = "idle"
        <5>1. ~(Spend > 0) /\ Spend \in Nat
          BY <2>1, <3>1, <3>2, BudgetTypes DEF Undisturbed
        <5>2. \A r \in Recorders : recorder[r].at = "idle"
          BY <3>1, <3>2 DEF Undisturbed, Recording
        <5> QED BY <5>1, <5>2
      <4>2. Spend' = 0
        BY <3>1, <4>1 DEF Spend, Units
      <4>3. budget' \in BudgetType /\ budget'.limit > 0
        BY <2>1, <3>2, SpendTypeNext DEF Undisturbed
      <4>4. Answered(Spend', budget', alerted', Pausing')
        BY <4>2, <4>3, NothingIsAnswered
      <4> QED BY <3>1, <4>1, <4>4 DEF SpendOK, AnsweredNow, Unchecked
    <3>5. MonthsOK' /\ (~overlapped' => OneUnchecked')
      BY <2>7, <3>1
    <3> QED BY <3>2, <3>5 DEF RestOfInv
  <2>9. ASSUME PauseTenant PROVE RestOfInv'
    <3>1. /\ UNCHANGED <<served, usage, month, recorder, alerted, overlapped, overruled>>
          /\ budget'.paused /\ budget'.limit = budget.limit /\ budget'.autoPause = budget.autoPause
      BY <2>1, <2>9 DEF PauseTenant, BudgetTypeOK, BudgetType
    <3>2. Spend' = Spend /\ Spend \in Nat
      BY <2>1, <3>1, BudgetTypes DEF Spend, Units
    <3>3. Spend' <= Spend
      BY <3>2
    <3>4. ASSUME Undisturbed' PROVE SpendOK'
      <4>1. Undisturbed
        BY <3>1, <3>4 DEF Undisturbed
      <4> QED BY <1>2, <2>1, <3>1, <3>3, <3>4, <4>1, AsideKeeps
    <3>5. MonthsOK' /\ (~overlapped' => OneUnchecked')
      BY <2>7, <3>1
    <3> QED BY <3>4, <3>5 DEF RestOfInv
  <2>10. ASSUME ResumeTenant PROVE RestOfInv'
    <3>1. /\ UNCHANGED <<served, usage, month, recorder, alerted, overlapped>>
          /\ overruled' = (overruled \/ Spend >= budget.limit \/ \E r \in Recorders : Recording(r))
          /\ budget'.limit = budget.limit /\ budget'.autoPause = budget.autoPause
      BY <2>1, <2>10 DEF ResumeTenant, BudgetTypeOK, BudgetType
    <3>2. ASSUME Undisturbed' PROVE SpendOK'
      <4>1. Undisturbed
        BY <3>1, <3>2 DEF Undisturbed
      <4>2. ~(Spend >= budget.limit) /\ \A r \in Recorders : recorder[r].at = "idle"
        BY <3>1, <3>2 DEF Undisturbed, Recording
      <4>3. AnsweredNow(Spend)
        BY <1>2, <4>1, <4>2, Before DEF SpendOK, Unchecked
      <4>4. Spend' = Spend
        BY <3>1 DEF Spend, Units
      <4>5. Answered(Spend', budget', alerted', Pausing')
        BY <3>1, <4>2, <4>3, <4>4 DEF Answered, AnsweredNow
      <4> QED BY <3>1, <4>2, <4>5 DEF SpendOK, AnsweredNow, Unchecked
    <3>5. MonthsOK' /\ (~overlapped' => OneUnchecked')
      BY <2>7, <3>1
    <3> QED BY <3>2, <3>5 DEF RestOfInv
  <2>11. ASSUME NEW c \in Calls, ServeCall(c) PROVE RestOfInv'
    <3>1. UNCHANGED <<budget, usage, month, recorder, alerted, overlapped, overruled>>
      BY <2>11 DEF ServeCall
    <3>2. Spend' = Spend /\ Spend \in Nat
      BY <2>1, <3>1, BudgetTypes DEF Spend, Units
    <3>3. Spend' <= Spend
      BY <3>2
    <3>4. ASSUME Undisturbed' PROVE SpendOK'
      <4>1. Undisturbed
        BY <3>1, <3>4 DEF Undisturbed
      <4> QED BY <1>2, <2>1, <3>1, <3>3, <3>4, <4>1, AsideKeeps
    <3>5. MonthsOK' /\ (~overlapped' => OneUnchecked')
      BY <2>7, <3>1
    <3> QED BY <3>4, <3>5 DEF RestOfInv
  <2>12. ASSUME NEW c \in Calls, EraseUsage(c) PROVE RestOfInv'
    <3>1. UNCHANGED <<budget, month, recorder, alerted, overlapped, overruled>>
      BY <2>12 DEF EraseUsage
    <3>2. MonthsOK' /\ Spend' <= Spend
      BY <2>1, <2>12, EraseGoes
    <3>3. ASSUME Undisturbed' PROVE SpendOK'
      <4>1. Undisturbed
        BY <3>1, <3>3 DEF Undisturbed
      <4> QED BY <1>2, <2>1, <3>1, <3>2, <3>3, <4>1, AsideKeeps
    <3>4. ~overlapped' => OneUnchecked'
      BY <2>1, <3>1 DEF RestOfInv, OneUnchecked, Unchecked
    <3> QED BY <3>2, <3>3, <3>4 DEF RestOfInv
  <2>13. ASSUME NextMonth PROVE RestOfInv'
    <3>1. MonthsOK'
      <4>1. \A c \in Calls : usage[c].month \in Int /\ usage[c].month <= month
        BY <2>1, BudgetTypes, BudgetConstants DEF MonthsOK, UsageEvent
      <4>2. month \in Int
        BY <2>1, BudgetTypes
      <4> QED BY <2>13, <4>1, <4>2 DEF NextMonth, MonthsOK
    <3>2. (~overlapped' => OneUnchecked') /\ (Undisturbed' => SpendOK')
      BY <1>2, <2>1, <2>13, MonthKeeps
    <3> QED BY <3>1, <3>2 DEF RestOfInv
  <2>14. ASSUME NEW r \in Recorders, RecorderStep(r) PROVE RestOfInv'
    BY <2>2, <2>3, <2>4, <2>5, <2>6, <2>14 DEF RecorderStep
  <2>15. RestOfInv'
    BY <1>2, <2>8, <2>9, <2>10, <2>11, <2>12, <2>13, <2>14 DEF BudgetNext
  <2> QED BY <2>1, <2>15 DEF BudgetInv, RestOfInv
<1> QED BY <1>1, <1>2

LEMMA BudgetInvHolds == BudgetSpec => []BudgetInv
<1> QED BY InitBudget, NextBudget, PTL DEF BudgetSpec

\* The tenant's row, the usage events, the recorders and the mails keep their types, for
\* any number of calls and recorders, any prices and limits, and any number of months.
THEOREM BudgetTypeCorrect == BudgetSpec => []BudgetTypeOK
<1>1. BudgetInv => BudgetTypeOK
  BY DEF BudgetInv
<1> QED BY <1>1, BudgetInvHolds, PTL

\* Once every usage is checked, each threshold reached has been mailed and a tenant at its
\* limit is paused, as long as no two calls record their usage at the same time and nobody
\* overrules it (enforceBudget): usages written again, erased or carried over from another
\* month do not get past the budget.
THEOREM BudgetIsEnforced == BudgetSpec => []BudgetEnforcedUnlessRaced
<1>1. BudgetInv => BudgetEnforcedUnlessRaced
  <2> SUFFICES ASSUME BudgetInv, ~overlapped, budget.limit > 0, ~overruled,
                      \A r \in Recorders : ~Recording(r)
               PROVE  /\ \A t \in Thresholds : 10 * Spend >= t * budget.limit => \E a \in alerted : a >= t
                      /\ budget.autoPause /\ Spend >= budget.limit => budget.paused
    BY DEF BudgetEnforcedUnlessRaced, BudgetEnforced
  <2>1. \A r \in Recorders : recorder[r].at = "idle"
    BY DEF Recording
  <2>2. AnsweredNow(Spend)
    BY <2>1, Before DEF Undisturbed, SpendOK, Unchecked
  <2> QED BY <2>1, <2>2 DEF AnsweredNow, Answered, Pausing
<1> QED BY <1>1, BudgetInvHolds, PTL

---------------------------------------------------------------------------
(***************************************************************************)
(* The assistant's settings: what a window shows is what is stored.        *)
(***************************************************************************)

AssistantRow == [Forms -> 0 .. MaxTyped]
WindowType == [page : {"unopened", "onboarding", "settings", "left"}, step : 0 .. LastStep,
               company : BOOLEAN, assistant : Nat, texts : 0 .. MaxTyped, prompt : 0 .. MaxTyped,
               value : 0 .. MaxTyped, busy : SUBSET Forms, saved : SUBSET Forms]
Request == [op : {"none", "list", "create", "rename", "load", "put"}, at : {"idle", "sent", "ok"},
            id : Nat, row : AssistantRow, fields : SUBSET Forms]

RequestsOf == [Forms -> Request]

\* What the API still has to do.
LateOK ==
  \A r \in late : /\ r \in Request /\ r.op \in {"create", "put"}
                  /\ r.op = "put" => r.id \in 1 .. Len(assistants)

AssistantsOK ==
  /\ assistants \in Seq(AssistantRow) /\ typed \in 0 .. MaxTyped
  /\ createsOverlapped \in BOOLEAN /\ disrupted \subseteq Windows
  /\ window \in [Windows -> WindowType]
  /\ fetch \in [Windows -> RequestsOf]
  /\ LateOK

\* The request of a form is of its page, and for the row the page shows.
RequestOK(x, f, r, n) ==
  /\ r.op \in {"none", "put"} \/ f = "texts"
  /\ r.op = "put" => r.id \in 1 .. n /\ r.fields = {f}
  /\ r.op = "load" => r.id \in 0 .. n
  /\ r.op = "none" => f \notin x.busy
  /\ x.page = "unopened" => r.op = "none"
  /\ x.page = "onboarding" => r.op \in {"none", "list", "create", "rename"}
  /\ x.page = "settings" => /\ r.op \in {"none", "load", "put"}
                            /\ r.op = "put" <=> f \in x.busy
                            /\ r.op = "put" => r.id = x.assistant
                            /\ r.op = "load" => x.assistant = 0

WindowOK(x, n) ==
  /\ x.assistant \in 0 .. n
  /\ x.assistant # 0 => x.page = "settings"
  /\ x.assistant = 0 => x.saved = {}
  /\ x.page = "left" => x.busy = {}

\* A list that was read and not shown yet is as it is stored; so is the prompt, but
\* while its request is over and the page does not know; so are texts that are said to
\* be saved, or are.
Shown(x, rt, rp, rows) ==
  /\ x.page = "settings" /\ rt.op = "load" /\ rt.at = "ok" /\ rt.id # 0 => rt.row = rows[rt.id]
  /\ x.assistant # 0 =>
       /\ rp.op = "put" /\ rp.at = "ok" => rows[x.assistant]["prompt"] = rp.row["prompt"]
       /\ ~(rp.op = "put" /\ rp.at = "ok") => rows[x.assistant]["prompt"] = x.prompt
       /\ "texts" \in x.saved => rows[x.assistant]["texts"] = x.texts /\ rt.op # "put"
       /\ rt.op = "put" => rt.row["texts"] = x.texts
       /\ rt.op = "put" /\ rt.at = "ok" => rows[x.assistant]["texts"] = rt.row["texts"]

\* r[f] is the request of form f; calm, that nobody has disrupted the window.
WindowInv(x, r, rows, calm) ==
  /\ WindowOK(x, Len(rows))
  /\ \A f \in Forms : RequestOK(x, f, r[f], Len(rows))
  /\ calm => Shown(x, r["texts"], r["prompt"], rows)

WindowsOK == \A w \in Windows : WindowInv(window[w], fetch[w], assistants, w \notin disrupted)

\* The finish that has found no assistant, and not created one yet.
Creating(r) ==
  \/ r.op = "list" /\ r.at = "ok" /\ r.id = 0
  \/ r.op = "create" /\ r.at = "sent"
Creators == {w \in Windows : Creating(fetch[w]["texts"])}
LateCreates == {l \in late : l.op = "create"}

OneCreator ==
  /\ Len(assistants) <= 1
  /\ \A v, w \in Creators : v = w
  /\ \A l, m \in LateCreates : l = m
  /\ Creators # {} => LateCreates = {}
  /\ Creators \cup LateCreates # {} => Len(assistants) = 0

SettingsInv ==
  /\ AssistantsOK
  /\ WindowsOK
  /\ ~createsOverlapped => OneCreator

(***************************************************************************)
(* Types.                                                                  *)
(***************************************************************************)

LEMMA InputTypes ==
  /\ MaxTyped \in Nat /\ 0 \in 0 .. MaxTyped
  /\ Forms = {"texts", "prompt"}
BY SettingsAssumption DEF Forms

LEMMA ColumnsType ==
  ASSUME NEW a \in 0 .. MaxTyped, NEW b \in 0 .. MaxTyped
  PROVE  /\ Columns(a, b) \in AssistantRow
         /\ Columns(a, b)["texts"] = a /\ Columns(a, b)["prompt"] = b
<1>1. Columns(a, b) = [f \in Forms |-> IF f = "texts" THEN a ELSE b]
  BY InputTypes DEF Columns
<1> QED BY <1>1, InputTypes DEF AssistantRow

LEMMA NoFetchType ==
  /\ NoFetch \in Request
  /\ NoFetch.op = "none" /\ NoFetch.at = "idle" /\ NoFetch.id = 0
  /\ [f \in Forms |-> NoFetch] \in RequestsOf
<1>1. Columns(0, 0) \in AssistantRow
  BY ColumnsType, InputTypes
<1>2. NoFetch \in Request
  BY <1>1 DEF NoFetch, Request
<1> QED BY <1>2 DEF NoFetch, RequestsOf

LEMMA SentType ==
  ASSUME NEW op \in {"list", "create", "rename", "load", "put"}, NEW id \in Nat, NEW row \in AssistantRow,
         NEW fields \in SUBSET Forms
  PROVE  /\ Sent(op, id, row, fields) \in Request
         /\ Sent(op, id, row, fields).op = op /\ Sent(op, id, row, fields).at = "sent"
         /\ Sent(op, id, row, fields).id = id /\ Sent(op, id, row, fields).row = row
         /\ Sent(op, id, row, fields).fields = fields
BY DEF Sent, Request

LEMMA MountedType ==
  ASSUME NEW page \in {"unopened", "onboarding", "settings", "left"}
  PROVE  /\ Mounted(page) \in WindowType
         /\ Mounted(page).page = page /\ Mounted(page).assistant = 0
         /\ Mounted(page).busy = {} /\ Mounted(page).saved = {}
BY InputTypes DEF Mounted, WindowType, LastStep

\* A request of window w is put in the place of another.
LEMMA AskGoes ==
  ASSUME fetch \in [Windows -> RequestsOf], NEW w \in Windows, NEW f \in Forms, NEW r \in Request,
         Ask(w, f, r)
  PROVE  /\ fetch' \in [Windows -> RequestsOf]
         /\ \A v \in Windows : v # w => fetch'[v] = fetch[v]
         /\ \A g \in Forms : fetch'[w][g] = IF g = f THEN r ELSE fetch[w][g]
<1> DEFINE n == [fetch[w] EXCEPT ![f] = r]
<1>1. n \in RequestsOf /\ \A g \in Forms : n[g] = IF g = f THEN r ELSE fetch[w][g]
  BY DEF RequestsOf
<1>2. fetch' = [fetch EXCEPT ![w] = n]
  BY DEF Ask
<1> HIDE DEF n
<1> QED BY <1>1, <1>2

LEMMA WindowGoes ==
  ASSUME window \in [Windows -> WindowType], NEW w \in Windows, NEW x \in WindowType,
         window' = [window EXCEPT ![w] = x]
  PROVE  /\ window' \in [Windows -> WindowType]
         /\ window'[w] = x
         /\ \A v \in Windows : v # w => window'[v] = window[v]
OBVIOUS


(***************************************************************************)
(* The steps of a window.                                                  *)
(***************************************************************************)

\* Nothing happens to the other windows, nor to the rows.
OnlyWindow(w) ==
  /\ assistants' = assistants
  /\ window' \in [Windows -> WindowType] /\ fetch' \in [Windows -> RequestsOf]
  /\ \A v \in Windows : v # w => window'[v] = window[v] /\ fetch'[v] = fetch[v]

LEMMA Types ==
  ASSUME SettingsInv
  PROVE  /\ AssistantsOK /\ WindowsOK /\ assistants \in Seq(AssistantRow) /\ Len(assistants) \in Nat
         /\ window \in [Windows -> WindowType] /\ fetch \in [Windows -> RequestsOf] /\ LateOK
         /\ \A w \in Windows : /\ window[w] \in WindowType /\ fetch[w] \in RequestsOf
                               /\ fetch[w]["texts"] \in Request /\ fetch[w]["prompt"] \in Request
                               /\ \A f \in Forms : fetch[w][f] \in Request
                               /\ WindowInv(window[w], fetch[w], assistants, w \notin disrupted)
<1>1. AssistantsOK /\ WindowsOK
  BY DEF SettingsInv
<1>2. \A w \in Windows, f \in Forms : fetch[w][f] \in Request
  BY <1>1 DEF AssistantsOK, RequestsOf
<1>3. assistants \in Seq(AssistantRow) /\ Len(assistants) \in Nat
  BY <1>1 DEF AssistantsOK
<1> QED BY <1>1, <1>2, <1>3, InputTypes DEF AssistantsOK, WindowsOK, LateOK

LEMMA OneWindowMoves ==
  ASSUME SettingsInv, NEW w \in Windows, OnlyWindow(w),
         typed' \in 0 .. MaxTyped, disrupted \subseteq disrupted', disrupted' \subseteq Windows,
         createsOverlapped' \in BOOLEAN, LateOK',
         WindowInv(window'[w], fetch'[w], assistants, w \notin disrupted'),
         ~createsOverlapped' => OneCreator'
  PROVE  SettingsInv'
<1>1. AssistantsOK'
  BY Types DEF AssistantsOK, OnlyWindow, LateOK
<1>2. ASSUME NEW v \in Windows
      PROVE  WindowInv(window'[v], fetch'[v], assistants', v \notin disrupted')
  <2>1. CASE v = w
    BY <2>1 DEF OnlyWindow
  <2>2. CASE v # w
    BY <2>2, Types DEF OnlyWindow, WindowInv
  <2> QED BY <2>1, <2>2
<1> QED BY <1>1, <1>2 DEF SettingsInv, WindowsOK

LEMMA CreatorsStay ==
  ASSUME OneCreator, assistants' = assistants, LateCreates' \subseteq LateCreates,
         \A v \in Windows : Creating(fetch'[v]["texts"]) => Creating(fetch[v]["texts"])
  PROVE  OneCreator'
<1>1. Creators' \subseteq Creators
  BY DEF Creators
<1> QED BY <1>1 DEF OneCreator

\* A step that no creation is part of.
LEMMA QuietMove ==
  ASSUME SettingsInv, NEW w \in Windows, OnlyWindow(w),
         late' = late, createsOverlapped' = createsOverlapped,
         typed' \in 0 .. MaxTyped, disrupted \subseteq disrupted', disrupted' \subseteq Windows,
         Creating(fetch'[w]["texts"]) => Creating(fetch[w]["texts"]),
         WindowInv(window'[w], fetch'[w], assistants, w \notin disrupted')
  PROVE  SettingsInv'
<1>1. createsOverlapped' \in BOOLEAN
  BY Types DEF AssistantsOK
<1>2. LateOK'
  BY Types DEF LateOK, OnlyWindow
<1>3. ~createsOverlapped' => OneCreator'
  <2> SUFFICES ASSUME ~createsOverlapped' PROVE OneCreator'
    OBVIOUS
  <2>1. OneCreator
    BY DEF SettingsInv
  <2>2. LateCreates' = LateCreates
    BY DEF LateCreates
  <2>3. \A v \in Windows : Creating(fetch'[v]["texts"]) => Creating(fetch[v]["texts"])
    BY DEF OnlyWindow
  <2> QED BY <2>1, <2>2, <2>3, CreatorsStay DEF OnlyWindow
<1> QED BY <1>1, <1>2, <1>3, OneWindowMoves

\* Only the state variables of the page change.
LEMMA PageMoves ==
  ASSUME SettingsInv, NEW w \in Windows, NEW x \in WindowType,
         window' = [window EXCEPT ![w] = x], fetch' = fetch, UNCHANGED Kept,
         typed' \in 0 .. MaxTyped, disrupted \subseteq disrupted', disrupted' \subseteq Windows,
         WindowInv(x, fetch[w], assistants, w \notin disrupted')
  PROVE  SettingsInv'
<1>1. /\ window' \in [Windows -> WindowType] /\ window'[w] = x
      /\ \A v \in Windows : v # w => window'[v] = window[v]
  BY Types, WindowGoes
<1>2. OnlyWindow(w) /\ late' = late /\ createsOverlapped' = createsOverlapped
  BY <1>1, Types DEF OnlyWindow, Kept
<1> QED BY <1>1, <1>2, QuietMove

\* What the invariant says of a page that has just been mounted.
LEMMA MountedOK ==
  ASSUME NEW page \in {"onboarding", "settings", "left"}, NEW r \in RequestsOf, NEW rows \in Seq(AssistantRow), NEW calm,
         \A f \in Forms :
           /\ r[f].op \in {"none", "put"} \/ f = "texts"
           /\ r[f].op = "put" => r[f].id \in 1 .. Len(rows) /\ r[f].fields = {f}
           /\ r[f].op = "load" => r[f].id \in 0 .. Len(rows)
           /\ page = "onboarding" => r[f].op \in {"none", "list", "create", "rename"}
           /\ page = "settings" => r[f].op \in {"none", "load"},
         page = "settings" => r["texts"].id = 0
  PROVE  WindowInv(Mounted(page), r, rows, calm)
<1> DEFINE x == Mounted(page)
<1>1. x.page = page /\ x.assistant = 0 /\ x.busy = {} /\ x.saved = {}
  BY MountedType
<1>2. Len(rows) \in Nat
  OBVIOUS
<1> HIDE DEF x
<1>3. WindowOK(x, Len(rows))
  BY <1>1, <1>2 DEF WindowOK
<1>4. \A f \in Forms : RequestOK(x, f, r[f], Len(rows))
  BY <1>1 DEF RequestOK
<1>5. calm => Shown(x, r["texts"], r["prompt"], rows)
  BY <1>1 DEF Shown
<1>6. WindowInv(x, r, rows, calm)
  BY <1>3, <1>4, <1>5 DEF WindowInv
<1> QED BY <1>6 DEF x

\* An onboarding page shows no row, whatever is typed into it.
LEMMA OnboardingOK ==
  ASSUME NEW x \in WindowType, NEW y \in WindowType, NEW r \in RequestsOf, NEW rows \in Seq(AssistantRow), NEW calm,
         WindowInv(x, r, rows, calm), x.page = "onboarding", y.page = x.page, y.busy = x.busy,
         y.assistant = x.assistant, y.saved = x.saved
  PROVE  WindowInv(y, r, rows, calm)
<1>1. x.assistant = 0
  BY DEF WindowInv, WindowOK
<1>2. Shown(x, r["texts"], r["prompt"], rows) => Shown(y, r["texts"], r["prompt"], rows)
  BY <1>1 DEF Shown
<1>3. \A f \in Forms : RequestOK(y, f, r[f], Len(rows))
  BY DEF WindowInv, RequestOK
<1> QED BY <1>2, <1>3 DEF WindowInv, WindowOK

\* Opening, typing and going back and forth in the onboarding.
LEMMA OnboardingMoves ==
  ASSUME SettingsInv, NEW w \in Windows,
         NameCompany(w) \/ PrefillCompany(w) \/ StepOn(w) \/ StepBack(w) \/ ChooseOption(w)
  PROVE  SettingsInv'
<1>1. /\ window[w] \in WindowType /\ fetch[w] \in RequestsOf /\ assistants \in Seq(AssistantRow)
      /\ window \in [Windows -> WindowType]
      /\ WindowInv(window[w], fetch[w], assistants, w \notin disrupted)
      /\ typed \in 0 .. MaxTyped /\ disrupted \subseteq Windows
  BY Types DEF AssistantsOK
<1>2. window[w].page = "onboarding" /\ UNCHANGED Kept /\ fetch' = fetch /\ disrupted' = disrupted
  BY DEF NameCompany, PrefillCompany, StepOn, StepBack, ChooseOption, OnPage, Inputs
<1>3. typed' \in 0 .. MaxTyped
  <2>1. CASE ChooseOption(w)
    BY <1>1, <2>1, InputTypes DEF ChooseOption
  <2>2. CASE ~ChooseOption(w)
    BY <1>1, <2>2 DEF NameCompany, PrefillCompany, StepOn, StepBack, Inputs
  <2> QED BY <2>1, <2>2
<1>4. \E x \in WindowType : /\ window' = [window EXCEPT ![w] = x]
                            /\ x.page = window[w].page /\ x.busy = window[w].busy
                            /\ x.assistant = window[w].assistant /\ x.saved = window[w].saved
  <2>1. CASE NameCompany(w)
    <3> DEFINE x == [window[w] EXCEPT !.company = ~@]
    <3>1. /\ x \in WindowType /\ x.page = window[w].page /\ x.busy = window[w].busy /\ x.saved = window[w].saved
          /\ x.assistant = window[w].assistant
      BY <1>1 DEF WindowType
    <3>2. window' = [window EXCEPT ![w] = x]
      BY <2>1 DEF NameCompany
    <3> QED BY <3>1, <3>2
  <2>2. CASE PrefillCompany(w)
    <3> DEFINE x == [window[w] EXCEPT !.company = TRUE]
    <3>1. /\ x \in WindowType /\ x.page = window[w].page /\ x.busy = window[w].busy /\ x.saved = window[w].saved
          /\ x.assistant = window[w].assistant
      BY <1>1 DEF WindowType
    <3>2. window' = [window EXCEPT ![w] = x]
      BY <2>2 DEF PrefillCompany
    <3> QED BY <3>1, <3>2
  <2>3. CASE StepOn(w)
    <3> DEFINE x == [window[w] EXCEPT !.step = @ + 1]
    <3>1. window[w].step + 1 \in 0 .. LastStep
      BY <1>1, <2>3 DEF WindowType, StepOn, CanNext, LastStep
    <3>2. /\ x \in WindowType /\ x.page = window[w].page /\ x.busy = window[w].busy /\ x.saved = window[w].saved
          /\ x.assistant = window[w].assistant
      BY <1>1, <3>1 DEF WindowType
    <3>3. window' = [window EXCEPT ![w] = x]
      BY <2>3 DEF StepOn
    <3> QED BY <3>2, <3>3
  <2>4. CASE StepBack(w)
    <3> DEFINE x == [window[w] EXCEPT !.step = @ - 1]
    <3>1. window[w].step - 1 \in 0 .. LastStep
      BY <1>1, <2>4 DEF WindowType, StepBack, LastStep
    <3>2. /\ x \in WindowType /\ x.page = window[w].page /\ x.busy = window[w].busy /\ x.saved = window[w].saved
          /\ x.assistant = window[w].assistant
      BY <1>1, <3>1 DEF WindowType
    <3>3. window' = [window EXCEPT ![w] = x]
      BY <2>4 DEF StepBack
    <3> QED BY <3>2, <3>3
  <2>5. CASE ChooseOption(w)
    <3> DEFINE x == [window[w] EXCEPT !.texts = typed']
    <3>1. /\ x \in WindowType /\ x.page = window[w].page /\ x.busy = window[w].busy /\ x.saved = window[w].saved
          /\ x.assistant = window[w].assistant
      BY <1>1, <1>3 DEF WindowType
    <3>2. window' = [window EXCEPT ![w] = x]
      BY <2>5 DEF ChooseOption
    <3> QED BY <3>1, <3>2
  <2> QED BY <2>1, <2>2, <2>3, <2>4, <2>5
<1>5. PICK x \in WindowType : /\ window' = [window EXCEPT ![w] = x]
                              /\ x.page = window[w].page /\ x.busy = window[w].busy
                              /\ x.assistant = window[w].assistant /\ x.saved = window[w].saved
  BY <1>4
<1>6. WindowInv(x, fetch[w], assistants, w \notin disrupted')
  BY <1>1, <1>2, <1>5, OnboardingOK
<1> QED BY <1>1, <1>2, <1>3, <1>5, <1>6, PageMoves

LEMMA OpenOnboardingMoves ==
  ASSUME SettingsInv, NEW w \in Windows, OpenOnboarding(w)
  PROVE  SettingsInv'
<1>1. /\ fetch[w] \in RequestsOf /\ assistants \in Seq(AssistantRow)
      /\ WindowInv(window[w], fetch[w], assistants, w \notin disrupted)
      /\ typed \in 0 .. MaxTyped /\ disrupted \subseteq Windows
  BY Types DEF AssistantsOK
<1>2. /\ window[w].page = "unopened" /\ UNCHANGED Kept /\ fetch' = fetch
      /\ disrupted' = disrupted /\ typed' = typed
      /\ window' = [window EXCEPT ![w] = Mounted("onboarding")]
  BY DEF OpenOnboarding, OnPage, Inputs
<1>3. \A f \in Forms : fetch[w][f].op = "none"
  BY <1>1, <1>2 DEF WindowInv, RequestOK
<1>4. WindowInv(Mounted("onboarding"), fetch[w], assistants, w \notin disrupted')
  BY <1>1, <1>3, MountedOK, InputTypes
<1> QED BY <1>1, <1>2, <1>4, MountedType, PageMoves

LEMMA LeaveMoves ==
  ASSUME SettingsInv, NEW w \in Windows, Leave(w)
  PROVE  SettingsInv'
<1>1. /\ fetch[w] \in RequestsOf /\ assistants \in Seq(AssistantRow)
      /\ WindowInv(window[w], fetch[w], assistants, w \notin disrupted)
      /\ typed \in 0 .. MaxTyped /\ disrupted \subseteq Windows
  BY Types DEF AssistantsOK
<1>2. /\ UNCHANGED Kept /\ fetch' = fetch /\ disrupted' = disrupted /\ typed' = typed
      /\ window' = [window EXCEPT ![w] = Mounted("left")]
  BY DEF Leave, Inputs
<1>3. \A f \in Forms :
        /\ fetch[w][f].op \in {"none", "put"} \/ f = "texts"
        /\ fetch[w][f].op = "put" => fetch[w][f].id \in 1 .. Len(assistants) /\ fetch[w][f].fields = {f}
        /\ fetch[w][f].op = "load" => fetch[w][f].id \in 0 .. Len(assistants)
  BY <1>1 DEF WindowInv, RequestOK
<1>5. WindowInv(Mounted("left"), fetch[w], assistants, w \notin disrupted')
  BY <1>1, <1>3, MountedOK
<1> QED BY <1>1, <1>2, <1>5, MountedType, PageMoves

\* The page and a request of it change.
LEMMA RequestMoves ==
  ASSUME SettingsInv, NEW w \in Windows, NEW x \in WindowType, NEW f \in Forms, NEW q \in Request,
         window' = [window EXCEPT ![w] = x], Ask(w, f, q), UNCHANGED <<Kept, Inputs>>,
         Creating(q) => Creating(fetch[w][f]),
         WindowInv(x, fetch'[w], assistants, w \notin disrupted)
  PROVE  SettingsInv'
<1>1. /\ window' \in [Windows -> WindowType] /\ window'[w] = x
      /\ \A v \in Windows : v # w => window'[v] = window[v]
  BY Types, WindowGoes
<1>2. /\ fetch' \in [Windows -> RequestsOf]
      /\ \A v \in Windows : v # w => fetch'[v] = fetch[v]
      /\ \A g \in Forms : fetch'[w][g] = IF g = f THEN q ELSE fetch[w][g]
  BY Types, AskGoes
<1>3. /\ assistants' = assistants /\ late' = late /\ createsOverlapped' = createsOverlapped
      /\ typed' = typed /\ disrupted' = disrupted
  BY DEF Kept, Inputs
<1>4. OnlyWindow(w)
  BY <1>1, <1>2, <1>3 DEF OnlyWindow
<1>5. typed \in 0 .. MaxTyped /\ disrupted \subseteq Windows
  BY Types DEF AssistantsOK
<1>6. Creating(fetch'[w]["texts"]) => Creating(fetch[w]["texts"])
  BY <1>2, InputTypes
<1>7. WindowInv(window'[w], fetch'[w], assistants, w \notin disrupted')
  BY <1>1, <1>2, <1>3
<1> QED BY <1>3, <1>4, <1>5, <1>6, <1>7, QuietMove

LEMMA ClickFinishMoves ==
  ASSUME SettingsInv, NEW w \in Windows, ClickFinish(w)
  PROVE  SettingsInv'
<1> DEFINE x == [window[w] EXCEPT !.busy = {"texts"}]
           q == Sent("list", 0, BuildAssistant(w), {})
<1>1. /\ window[w] \in WindowType /\ assistants \in Seq(AssistantRow)
      /\ WindowInv(window[w], fetch[w], assistants, w \notin disrupted)
  BY Types
<1>2. /\ window[w].page = "onboarding" /\ UNCHANGED <<Kept, Inputs>>
      /\ window' = [window EXCEPT ![w] = x] /\ Ask(w, "texts", q)
  BY DEF ClickFinish, ShowsSummary, OnPage
<1>3. /\ x \in WindowType /\ x.page = "onboarding" /\ x.busy = {"texts"}
      /\ x.assistant = window[w].assistant /\ x.saved = window[w].saved
  BY <1>1, <1>2, InputTypes DEF WindowType
<1>4. BuildAssistant(w) \in AssistantRow
  BY <1>1, ColumnsType DEF BuildAssistant, WindowType
<1>5. q \in Request /\ q.op = "list" /\ q.at = "sent"
  BY <1>4, SentType
<1>6. x.assistant = 0
  BY <1>1, <1>2, <1>3 DEF WindowInv, WindowOK
<1> HIDE DEF x, q
<1>7. ASSUME NEW r \in RequestsOf, \A g \in Forms : r[g] = IF g = "texts" THEN q ELSE fetch[w][g]
      PROVE  WindowInv(x, r, assistants, w \notin disrupted)
  <2>1. r["texts"] = q /\ r["prompt"] = fetch[w]["prompt"]
    BY <1>7, InputTypes
  <2>2. RequestOK(x, "texts", q, Len(assistants))
    BY <1>3, <1>5 DEF RequestOK
  <2>3. RequestOK(x, "prompt", fetch[w]["prompt"], Len(assistants))
    BY <1>1, <1>2, <1>3, InputTypes DEF WindowInv, RequestOK
  <2>4. Shown(x, r["texts"], r["prompt"], assistants)
    BY <1>5, <1>6, <2>1 DEF Shown
  <2>5. WindowOK(x, Len(assistants))
    BY <1>1, <1>3, <1>6, Types DEF WindowInv, WindowOK
  <2>6. \A f \in Forms : RequestOK(x, f, r[f], Len(assistants))
    BY <2>1, <2>2, <2>3, InputTypes
  <2> QED BY <2>4, <2>5, <2>6 DEF WindowInv
<1>8. ~Creating(q)
  BY <1>5 DEF Creating
<1>20. fetch'[w] \in RequestsOf /\ \A g \in Forms : fetch'[w][g] = IF g = "texts" THEN q ELSE fetch[w][g]
  BY <1>2, <1>5, Types, InputTypes, AskGoes
<1>21. WindowInv(x, fetch'[w], assistants, w \notin disrupted)
  BY <1>7, <1>20
<1> QED BY <1>2, <1>3, <1>5, <1>21, <1>8, InputTypes, RequestMoves

\* The finish goes on from one request to the next, on its page or off it.
LEMMA FinishGoesOn ==
  ASSUME SettingsInv, NEW w \in Windows, fetch[w]["texts"].op \in {"list", "create"},
         NEW q \in Request, q.op \in {"create", "rename"}, Ask(w, "texts", q),
         Creating(q) => Creating(fetch[w]["texts"]), UNCHANGED <<Kept, Inputs, window>>
  PROVE  SettingsInv'
<1>1. /\ window[w] \in WindowType /\ assistants \in Seq(AssistantRow) /\ window \in [Windows -> WindowType]
      /\ WindowInv(window[w], fetch[w], assistants, w \notin disrupted)
  BY Types
<1>2. window' = [window EXCEPT ![w] = window[w]]
  BY <1>1
<1>3. window[w].page \notin {"unopened", "settings"}
  BY <1>1, InputTypes DEF WindowInv, RequestOK
<1>4. window[w].assistant = 0
  BY <1>1, <1>3 DEF WindowInv, WindowOK
<1>5. ASSUME NEW r \in RequestsOf, \A g \in Forms : r[g] = IF g = "texts" THEN q ELSE fetch[w][g]
      PROVE  WindowInv(window[w], r, assistants, w \notin disrupted)
  <2>1. r["texts"] = q /\ r["prompt"] = fetch[w]["prompt"]
    BY <1>5, InputTypes
  <2>2. RequestOK(window[w], "texts", q, Len(assistants))
    BY <1>3 DEF RequestOK
  <2>3. RequestOK(window[w], "prompt", r["prompt"], Len(assistants))
    BY <1>1, <2>1, InputTypes DEF WindowInv
  <2>4. Shown(window[w], r["texts"], r["prompt"], assistants)
    BY <1>4, <2>1 DEF Shown
  <2> QED BY <1>1, <2>1, <2>2, <2>3, <2>4, InputTypes DEF WindowInv
<1>6. UNCHANGED <<Kept, Inputs>>
  OBVIOUS
<1>20. fetch'[w] \in RequestsOf /\ \A g \in Forms : fetch'[w][g] = IF g = "texts" THEN q ELSE fetch[w][g]
  BY <1>1, Types, InputTypes, AskGoes
<1>21. WindowInv(window[w], fetch'[w], assistants, w \notin disrupted)
  BY <1>5, <1>20
<1> QED BY <1>1, <1>2, <1>21, <1>6, InputTypes, RequestMoves

LEMMA ListReturnsMoves ==
  ASSUME SettingsInv, NEW w \in Windows, ListReturns(w)
  PROVE  SettingsInv'
<1> DEFINE op == IF fetch[w]["texts"].id = 0 THEN "create" ELSE "rename"
           q == Sent(op, 0, fetch[w]["texts"].row, {})
<1>1. /\ fetch[w]["texts"].op = "list" /\ fetch[w]["texts"].at = "ok"
      /\ Ask(w, "texts", q) /\ UNCHANGED <<Kept, Inputs, window>>
  BY DEF ListReturns, Arrived
<1>2. fetch[w]["texts"].row \in AssistantRow
  BY Types DEF Request
<1>3. op \in {"create", "rename"}
  OBVIOUS
<1>4. q \in Request /\ q.op = op /\ q.at = "sent"
  <2> HIDE DEF op
  <2> QED BY <1>2, <1>3, SentType
<1>5. Creating(q) => Creating(fetch[w]["texts"])
  BY <1>1, <1>4 DEF Creating
<1> HIDE DEF q
<1> QED BY <1>1, <1>3, <1>4, <1>5, FinishGoesOn

LEMMA CreateReturnsMoves ==
  ASSUME SettingsInv, NEW w \in Windows, CreateReturns(w)
  PROVE  SettingsInv'
<1> DEFINE q == Sent("rename", 0, Columns(0, 0), {})
<1>1. fetch[w]["texts"].op = "create" /\ Ask(w, "texts", q) /\ UNCHANGED <<Kept, Inputs, window>>
  BY DEF CreateReturns, Arrived
<1>2. q \in Request /\ q.op = "rename"
  BY ColumnsType, InputTypes, SentType
<1>3. ~Creating(q)
  BY <1>2 DEF Creating
<1> HIDE DEF q
<1> QED BY <1>1, <1>2, <1>3, FinishGoesOn

\* A window whose request is over is left, or begins.
LEMMA RenameReturnsMoves ==
  ASSUME SettingsInv, NEW w \in Windows, RenameReturns(w)
  PROVE  SettingsInv'
<1>1. /\ fetch[w]["texts"].op = "rename" /\ Ask(w, "texts", NoFetch) /\ UNCHANGED <<Kept, Inputs>>
      /\ window' = [window EXCEPT ![w] = Mounted("left")]
  BY DEF RenameReturns
<1>2. /\ assistants \in Seq(AssistantRow)
      /\ WindowInv(window[w], fetch[w], assistants, w \notin disrupted)
  BY Types
<1>3. ASSUME NEW r \in RequestsOf, \A g \in Forms : r[g] = IF g = "texts" THEN NoFetch ELSE fetch[w][g]
      PROVE  WindowInv(Mounted("left"), r, assistants, w \notin disrupted)
  <2>1. \A g \in Forms :
          /\ r[g].op \in {"none", "put"} \/ g = "texts"
          /\ r[g].op = "put" => r[g].id \in 1 .. Len(assistants) /\ r[g].fields = {g}
          /\ r[g].op = "load" => r[g].id \in 0 .. Len(assistants)
    BY <1>2, <1>3, NoFetchType DEF WindowInv, RequestOK
  <2>2. r["texts"].op # "load"
    BY <1>3, NoFetchType, InputTypes
  <2> QED BY <1>2, <2>1, <2>2, MountedOK
<1>4. ~Creating(NoFetch)
  BY NoFetchType DEF Creating
<1>20. fetch'[w] \in RequestsOf /\ \A g \in Forms : fetch'[w][g] = IF g = "texts" THEN NoFetch ELSE fetch[w][g]
  BY <1>1, NoFetchType, Types, InputTypes, AskGoes
<1>21. WindowInv(Mounted("left"), fetch'[w], assistants, w \notin disrupted)
  BY <1>3, <1>20
<1> QED BY <1>1, <1>21, <1>4, NoFetchType, MountedType, InputTypes, RequestMoves

LEMMA OpenSettingsMoves ==
  ASSUME SettingsInv, NEW w \in Windows, OpenSettings(w)
  PROVE  SettingsInv'
<1> DEFINE q == Sent("load", 0, Columns(0, 0), {})
<1>1. /\ window[w].page = "unopened" /\ Ask(w, "texts", q) /\ UNCHANGED <<Kept, Inputs>>
      /\ window' = [window EXCEPT ![w] = Mounted("settings")]
  BY DEF OpenSettings, OnPage
<1>2. /\ assistants \in Seq(AssistantRow)
      /\ WindowInv(window[w], fetch[w], assistants, w \notin disrupted)
  BY Types
<1>3. q \in Request /\ q.op = "load" /\ q.at = "sent" /\ q.id = 0
  BY ColumnsType, InputTypes, SentType
<1> HIDE DEF q
<1>4. ASSUME NEW r \in RequestsOf, \A g \in Forms : r[g] = IF g = "texts" THEN q ELSE fetch[w][g]
      PROVE  WindowInv(Mounted("settings"), r, assistants, w \notin disrupted)
  <2>1. \A g \in Forms : g # "texts" => r[g].op = "none"
    BY <1>1, <1>2, <1>4 DEF WindowInv, RequestOK
  <2>2. r["texts"] = q
    BY <1>4, InputTypes
  <2>3. \A g \in Forms :
          /\ r[g].op \in {"none", "put"} \/ g = "texts"
          /\ r[g].op # "put"
          /\ r[g].op = "load" => r[g].id \in 0 .. Len(assistants)
          /\ r[g].op \in {"none", "load"}
    <3> TAKE g \in Forms
    <3>1. CASE g = "texts"
      BY <1>2, <1>3, <2>2, <3>1
    <3>2. CASE g # "texts"
      BY <2>1, <3>2
    <3> QED BY <3>1, <3>2
  <2> QED BY <1>2, <1>3, <2>2, <2>3, MountedOK
<1>5. ~Creating(q)
  BY <1>3 DEF Creating
<1>20. fetch'[w] \in RequestsOf /\ \A g \in Forms : fetch'[w][g] = IF g = "texts" THEN q ELSE fetch[w][g]
  BY <1>1, <1>3, Types, InputTypes, AskGoes
<1>21. WindowInv(Mounted("settings"), fetch'[w], assistants, w \notin disrupted)
  BY <1>4, <1>20
<1> QED BY <1>1, <1>3, <1>21, <1>5, MountedType, InputTypes, RequestMoves

(***************************************************************************)
(* The settings page.                                                      *)
(***************************************************************************)

LEMMA LoadReturnsMoves ==
  ASSUME SettingsInv, NEW w \in Windows, LoadReturns(w)
  PROVE  SettingsInv'
<1> DEFINE q == fetch[w]["texts"]
           y == [window[w] EXCEPT !.assistant = q.id, !.texts = q.row.texts,
                                  !.prompt = q.row.prompt, !.value = q.row.prompt]
           x == IF ~OnPage(w, "settings") THEN window[w] ELSE y
<1>1. /\ q.op = "load" /\ q.at = "ok" /\ Ask(w, "texts", NoFetch) /\ UNCHANGED <<Kept, Inputs>>
  BY DEF LoadReturns, Arrived
<1>2. /\ window[w] \in WindowType /\ assistants \in Seq(AssistantRow) /\ q \in Request
      /\ window \in [Windows -> WindowType] /\ Len(assistants) \in Nat
      /\ WindowInv(window[w], fetch[w], assistants, w \notin disrupted)
  BY Types
<1>3. q.row["texts"] \in 0 .. MaxTyped /\ q.row["prompt"] \in 0 .. MaxTyped
  BY <1>2, InputTypes DEF Request, AssistantRow
<1>4. /\ y \in WindowType /\ y.page = window[w].page /\ y.assistant = q.id
      /\ y.texts = q.row["texts"] /\ y.prompt = q.row["prompt"]
      /\ y.busy = window[w].busy /\ y.saved = window[w].saved
  BY <1>2, <1>3 DEF WindowType, Request
<1>5. window' = [window EXCEPT ![w] = x]
  <2>1. CASE OnPage(w, "settings")
    <3>1. window' = [window EXCEPT ![w].assistant = q.id, ![w].texts = q.row.texts,
                                   ![w].prompt = q.row.prompt, ![w].value = q.row.prompt]
      BY <2>1 DEF LoadReturns
    <3> QED BY <1>2, <2>1, <3>1
  <2>2. CASE ~OnPage(w, "settings")
    BY <1>2, <2>2 DEF LoadReturns
  <2> QED BY <2>1, <2>2
<1>6. x \in WindowType
  BY <1>2, <1>4
<1>7. /\ q.id \in 0 .. Len(assistants)
      /\ fetch[w]["prompt"].op \in {"none", "put"}
      /\ RequestOK(window[w], "texts", q, Len(assistants))
      /\ RequestOK(window[w], "prompt", fetch[w]["prompt"], Len(assistants))
  BY <1>1, <1>2, InputTypes DEF WindowInv, RequestOK
<1>20. fetch'[w] \in RequestsOf /\ \A g \in Forms : fetch'[w][g] = IF g = "texts" THEN NoFetch ELSE fetch[w][g]
  BY <1>1, NoFetchType, Types, InputTypes, AskGoes
<1>21. fetch'[w]["texts"] = NoFetch /\ fetch'[w]["prompt"] = fetch[w]["prompt"]
  BY <1>20, InputTypes
<1>22. WindowInv(x, fetch'[w], assistants, w \notin disrupted)
  <2>1. CASE window[w].page = "settings"
    <3>1. x = y /\ y.page = "settings"
      BY <1>4, <2>1 DEF OnPage
    <3> HIDE DEF x, y, q
    <3>2. window[w].assistant = 0 /\ "texts" \notin window[w].busy /\ window[w].saved = {}
      BY <1>1, <1>2, <1>7, <2>1 DEF RequestOK, WindowInv, WindowOK, q
    <3>3. fetch[w]["prompt"].op = "none" /\ "prompt" \notin window[w].busy
      BY <1>7, <2>1, <3>2 DEF RequestOK
    <3>4. WindowOK(y, Len(assistants))
      BY <1>4, <1>7, <3>1, <3>2 DEF WindowOK
    <3>5. RequestOK(y, "texts", NoFetch, Len(assistants)) /\ RequestOK(y, "prompt", fetch[w]["prompt"], Len(assistants))
      BY <1>4, <3>1, <3>2, <3>3, NoFetchType DEF RequestOK
    <3>6. w \notin disrupted => Shown(y, NoFetch, fetch[w]["prompt"], assistants)
      <4>1. w \notin disrupted => (q.id # 0 => q.row = assistants[q.id])
        BY <1>1, <1>2, <2>1 DEF WindowInv, Shown, q
      <4> QED BY <1>4, <3>2, <3>3, <4>1, NoFetchType DEF Shown
    <3> QED BY <1>20, <1>21, <3>1, <3>4, <3>5, <3>6, InputTypes DEF WindowInv
  <2>2. CASE window[w].page # "settings"
    <3>1. x = window[w]
      BY <2>2 DEF OnPage
    <3>2. window[w].page = "left" /\ window[w].assistant = 0
      BY <1>1, <1>2, <1>7, <2>2 DEF RequestOK, WindowInv, WindowOK, WindowType
    <3>3. window[w].busy = {}
      BY <1>2, <3>2 DEF WindowInv, WindowOK
    <3>4. RequestOK(window[w], "texts", NoFetch, Len(assistants))
      BY <3>2, <3>3, NoFetchType DEF RequestOK
    <3>5. Shown(window[w], NoFetch, fetch[w]["prompt"], assistants)
      BY <3>2, NoFetchType DEF Shown
    <3> HIDE DEF x
    <3> QED BY <1>2, <1>7, <1>20, <1>21, <3>1, <3>4, <3>5, InputTypes DEF WindowInv
  <2> QED BY <2>1, <2>2
<1>23. ~Creating(NoFetch)
  BY NoFetchType DEF Creating
<1> HIDE DEF x
<1> QED BY <1>1, <1>5, <1>6, <1>22, <1>23, NoFetchType, InputTypes, RequestMoves

LEMMA EditTextsMoves ==
  ASSUME SettingsInv, NEW w \in Windows, EditTexts(w)
  PROVE  SettingsInv'
<1> DEFINE x == [window[w] EXCEPT !.texts = typed', !.saved = @ \ {"texts"}]
           r == fetch[w]
<1>1. /\ window[w] \in WindowType /\ assistants \in Seq(AssistantRow) /\ typed \in 0 .. MaxTyped
      /\ WindowInv(window[w], r, assistants, w \notin disrupted) /\ disrupted \subseteq Windows
  BY Types DEF AssistantsOK
<1>2. /\ window[w].page = "settings" /\ window[w].assistant # 0 /\ typed < MaxTyped /\ typed' = typed + 1
      /\ window' = [window EXCEPT ![w] = x] /\ fetch' = fetch /\ UNCHANGED Kept
      /\ disrupted' = IF "texts" \in window[w].busy THEN disrupted \cup {w} ELSE disrupted
  BY DEF EditTexts, ShowsForm, OnPage
<1>3. typed' \in 0 .. MaxTyped
  BY <1>1, <1>2, InputTypes
<1>4. /\ x \in WindowType /\ x.page = window[w].page /\ x.assistant = window[w].assistant
      /\ x.prompt = window[w].prompt /\ x.busy = window[w].busy /\ x.saved = window[w].saved \ {"texts"}
  BY <1>1, <1>3 DEF WindowType
<1>5. disrupted \subseteq disrupted' /\ disrupted' \subseteq Windows
  BY <1>1, <1>2
<1> HIDE DEF x, r
<1>6. WindowOK(x, Len(assistants)) /\ \A f \in Forms : RequestOK(x, f, r[f], Len(assistants))
  BY <1>1, <1>4 DEF WindowInv, WindowOK, RequestOK
<1>7. ASSUME w \notin disrupted' PROVE Shown(x, r["texts"], r["prompt"], assistants)
  <2>1. w \notin disrupted /\ "texts" \notin window[w].busy
    BY <1>2, <1>7
  <2>2. RequestOK(window[w], "texts", r["texts"], Len(assistants))
    BY <1>1, InputTypes DEF WindowInv
  <2>3. r["texts"].op # "put"
    BY <1>2, <2>1, <2>2 DEF RequestOK
  <2>4. Shown(window[w], r["texts"], r["prompt"], assistants)
    BY <1>1, <2>1 DEF WindowInv
  <2> QED BY <1>4, <2>3, <2>4 DEF Shown
<1>8. WindowInv(x, r, assistants, w \notin disrupted')
  BY <1>6, <1>7 DEF WindowInv
<1> QED BY <1>2, <1>3, <1>4, <1>5, <1>8, PageMoves DEF r

LEMMA EditPromptMoves ==
  ASSUME SettingsInv, NEW w \in Windows, EditPrompt(w)
  PROVE  SettingsInv'
<1> DEFINE x == [window[w] EXCEPT !.value = typed']
           r == fetch[w]
<1>1. /\ window[w] \in WindowType /\ assistants \in Seq(AssistantRow) /\ typed \in 0 .. MaxTyped
      /\ WindowInv(window[w], r, assistants, w \notin disrupted) /\ disrupted \subseteq Windows
  BY Types DEF AssistantsOK
<1>2. /\ typed < MaxTyped /\ typed' = typed + 1 /\ disrupted' = disrupted
      /\ window' = [window EXCEPT ![w] = x] /\ fetch' = fetch /\ UNCHANGED Kept
  BY DEF EditPrompt
<1>3. typed' \in 0 .. MaxTyped
  BY <1>1, <1>2, InputTypes
<1>4. /\ x \in WindowType /\ x.page = window[w].page /\ x.assistant = window[w].assistant
      /\ x.prompt = window[w].prompt /\ x.busy = window[w].busy /\ x.saved = window[w].saved
      /\ x.texts = window[w].texts
  BY <1>1, <1>3 DEF WindowType
<1> HIDE DEF x, r
<1>5. WindowInv(x, r, assistants, w \notin disrupted')
  BY <1>1, <1>2, <1>4 DEF WindowInv, WindowOK, RequestOK, Shown
<1> QED BY <1>1, <1>2, <1>3, <1>4, <1>5, PageMoves DEF r

\* A form that is sent: its request is for the row shown and carries what is shown.
LEMMA SaveMoves ==
  ASSUME SettingsInv, NEW w \in Windows, NEW f \in Forms, NEW row \in AssistantRow,
         f = "texts" => row["texts"] = window[w].texts, Save(w, f, row, {f})
  PROVE  SettingsInv'
<1> DEFINE x == [window[w] EXCEPT !.busy = @ \cup {f}, !.saved = @ \ {f}]
           q == Sent("put", window[w].assistant, row, {f})
           r == fetch[w]
<1>1. /\ window[w] \in WindowType /\ assistants \in Seq(AssistantRow) /\ Len(assistants) \in Nat
      /\ WindowInv(window[w], r, assistants, w \notin disrupted)
  BY Types
<1>2. /\ window[w].page = "settings" /\ window[w].assistant # 0 /\ f \notin window[w].busy
      /\ window' = [window EXCEPT ![w] = x] /\ Ask(w, f, q) /\ UNCHANGED <<Kept, Inputs>>
  BY DEF Save, ShowsForm, OnPage
<1>3. /\ x \in WindowType /\ x.page = window[w].page /\ x.assistant = window[w].assistant
      /\ x.prompt = window[w].prompt /\ x.busy = window[w].busy \cup {f}
      /\ x.saved = window[w].saved \ {f} /\ x.texts = window[w].texts
  BY <1>1 DEF WindowType
<1>4. window[w].assistant \in Nat /\ window[w].assistant \in 1 .. Len(assistants)
  BY <1>1, <1>2 DEF WindowInv, WindowOK, WindowType
<1>5. /\ q \in Request /\ q.op = "put" /\ q.at = "sent" /\ q.id = window[w].assistant
      /\ q.row = row /\ q.fields = {f}
  BY <1>4, SentType
<1> HIDE DEF x, q
<1>20. fetch'[w] \in RequestsOf /\ \A g \in Forms : fetch'[w][g] = IF g = f THEN q ELSE r[g]
  BY <1>2, <1>5, Types, AskGoes
<1> DEFINE rr == fetch'[w]
<1> HIDE DEF r, rr
<1>21. \A g \in Forms : rr[g] = IF g = f THEN q ELSE r[g]
  BY <1>20 DEF rr
<1>6. WindowOK(x, Len(assistants))
  BY <1>1, <1>2, <1>3 DEF WindowInv, WindowOK
<1>7. ASSUME NEW g \in Forms PROVE RequestOK(x, g, rr[g], Len(assistants))
  <2>1. CASE g = f
    <3>1. rr[g] = q
      BY <1>21, <2>1
    <3> QED BY <1>2, <1>3, <1>4, <1>5, <2>1, <3>1 DEF RequestOK
  <2>2. CASE g # f
    <3>1. rr[g] = r[g] /\ (g \in x.busy <=> g \in window[w].busy)
      BY <1>3, <1>21, <2>2
    <3>2. RequestOK(window[w], g, r[g], Len(assistants))
      BY <1>1 DEF WindowInv
    <3> QED BY <1>2, <1>3, <3>1, <3>2 DEF RequestOK
  <2> QED BY <2>1, <2>2
<1>8. ASSUME w \notin disrupted PROVE Shown(x, rr["texts"], rr["prompt"], assistants)
  <2>1. Shown(window[w], r["texts"], r["prompt"], assistants)
    BY <1>1, <1>8 DEF WindowInv
  <2>2. RequestOK(window[w], f, r[f], Len(assistants))
    BY <1>1 DEF WindowInv
  <2>3. r[f].op # "put"
    BY <1>2, <2>2 DEF RequestOK
  <2>4. CASE f = "texts"
    <3>1. rr["texts"] = q /\ rr["prompt"] = r["prompt"]
      BY <1>21, <2>4, InputTypes
    <3> QED BY <1>3, <1>5, <2>1, <2>4, <3>1 DEF Shown
  <2>5. CASE f = "prompt"
    <3>1. rr["prompt"] = q /\ rr["texts"] = r["texts"]
      BY <1>21, <2>5, InputTypes
    <3> QED BY <1>3, <1>5, <2>1, <2>3, <2>5, <3>1 DEF Shown
  <2> QED BY <2>4, <2>5, InputTypes
<1>9. WindowInv(x, fetch'[w], assistants, w \notin disrupted)
  BY <1>6, <1>7, <1>8 DEF WindowInv, rr
<1>10. ~Creating(q)
  BY <1>5 DEF Creating
<1> QED BY <1>2, <1>3, <1>5, <1>9, <1>10, RequestMoves

LEMMA SavesMove ==
  ASSUME SettingsInv, NEW w \in Windows, SaveTexts(w) \/ SavePrompt(w)
  PROVE  SettingsInv'
<1>1. window[w] \in WindowType
  BY Types
<1>2. window[w].texts \in 0 .. MaxTyped /\ window[w].value \in 0 .. MaxTyped
  BY <1>1 DEF WindowType
<1>3. CASE SaveTexts(w)
  <2>1. Columns(window[w].texts, 0) \in AssistantRow /\ Columns(window[w].texts, 0)["texts"] = window[w].texts
    BY <1>2, ColumnsType, InputTypes
  <2> QED BY <1>3, <2>1, SaveMoves, InputTypes DEF SaveTexts
<1>4. CASE SavePrompt(w)
  <2>1. Columns(0, window[w].value) \in AssistantRow
    BY <1>2, ColumnsType, InputTypes
  <2> QED BY <1>4, <2>1, SaveMoves, InputTypes DEF SavePrompt
<1> QED BY <1>3, <1>4

LEMMA PutReturnsMoves ==
  ASSUME SettingsInv, NEW w \in Windows, NEW f \in Forms, PutReturns(w, f)
  PROVE  SettingsInv'
<1> DEFINE q == fetch[w][f]
           saved == IF f = "prompt" THEN {f} ELSE window[w].saved \cup {f}
           prompt == IF f = "prompt" THEN q.row.prompt ELSE window[w].prompt
           y == [window[w] EXCEPT !.busy = @ \ {f}, !.saved = saved, !.prompt = prompt]
           x == IF ~OnPage(w, "settings") THEN window[w] ELSE y
           r == fetch[w]
<1>1. /\ q.op = "put" /\ q.at = "ok" /\ Ask(w, f, NoFetch) /\ UNCHANGED <<Kept, Inputs>>
  BY DEF PutReturns, Arrived
<1>2. /\ window[w] \in WindowType /\ assistants \in Seq(AssistantRow) /\ q \in Request /\ r \in RequestsOf
      /\ window \in [Windows -> WindowType] /\ Len(assistants) \in Nat
      /\ WindowInv(window[w], r, assistants, w \notin disrupted)
  BY Types
<1>3. saved \in SUBSET Forms /\ prompt \in 0 .. MaxTyped
  BY <1>2, InputTypes DEF Request, AssistantRow, WindowType
<1>4. /\ y \in WindowType /\ y.page = window[w].page /\ y.assistant = window[w].assistant
      /\ y.texts = window[w].texts /\ y.prompt = prompt
      /\ y.busy = window[w].busy \ {f} /\ y.saved = saved
  <2> HIDE DEF saved, prompt
  <2> QED BY <1>2, <1>3 DEF WindowType
<1>5. window' = [window EXCEPT ![w] = x]
  <2>1. CASE OnPage(w, "settings")
    <3>1. window' = [window EXCEPT ![w].busy = @ \ {f},
                       ![w].saved = IF f = "prompt" THEN {f} ELSE @ \cup {f},
                       ![w].prompt = IF f = "prompt" THEN fetch[w][f].row.prompt ELSE @]
      BY <2>1 DEF PutReturns
    <3> QED BY <1>2, <2>1, <3>1 DEF WindowType
  <2>2. CASE ~OnPage(w, "settings")
    BY <1>2, <2>2 DEF PutReturns
  <2> QED BY <2>1, <2>2
<1>6. x \in WindowType
  BY <1>2, <1>4
<1>20. fetch'[w] \in RequestsOf /\ \A g \in Forms : fetch'[w][g] = IF g = f THEN NoFetch ELSE r[g]
  BY <1>1, NoFetchType, Types, AskGoes
<1> DEFINE rr == fetch'[w]
<1>21. \A g \in Forms : rr[g] = IF g = f THEN NoFetch ELSE r[g]
  BY <1>20
<1>22. q = r[f] /\ RequestOK(window[w], f, q, Len(assistants))
  BY <1>2 DEF WindowInv
<1> HIDE DEF q, r, rr, y
<1>23. ASSUME window[w].page = "settings" PROVE WindowInv(x, rr, assistants, w \notin disrupted)
  <2>1. x = y /\ y.page = "settings" /\ window[w].assistant = q.id /\ q.id \in 1 .. Len(assistants)
    BY <1>1, <1>4, <1>22, <1>23 DEF OnPage, RequestOK
  <2>2. WindowOK(y, Len(assistants))
    BY <1>2, <1>4, <2>1 DEF WindowInv, WindowOK
  <2>3. ASSUME NEW g \in Forms PROVE RequestOK(y, g, rr[g], Len(assistants))
    <3>1. CASE g = f
      <4>1. rr[g] = NoFetch /\ g \notin y.busy
        BY <1>4, <1>21, <3>1
      <4> QED BY <2>1, <4>1, NoFetchType DEF RequestOK
    <3>2. CASE g # f
      <4>1. rr[g] = r[g] /\ (g \in y.busy <=> g \in window[w].busy)
        BY <1>4, <1>21, <3>2
      <4>2. RequestOK(window[w], g, r[g], Len(assistants))
        BY <1>2 DEF WindowInv
      <4> QED BY <1>23, <2>1, <1>4, <4>1, <4>2 DEF RequestOK
    <3> QED BY <3>1, <3>2
  <2>4. ASSUME w \notin disrupted PROVE Shown(y, rr["texts"], rr["prompt"], assistants)
    <3>1. Shown(window[w], r["texts"], r["prompt"], assistants)
      BY <1>2, <2>4 DEF WindowInv
    <3>2. CASE f = "texts"
      <4>1. rr["texts"] = NoFetch /\ rr["prompt"] = r["prompt"] /\ r["texts"] = q
        BY <1>21, <1>22, <3>2, InputTypes
      <4>2. y.prompt = window[w].prompt
        BY <1>4, <3>2
      <4> QED BY <1>1, <1>4, <3>1, <3>2, <4>1, <4>2, NoFetchType DEF Shown
    <3>3. CASE f = "prompt"
      <4>1. rr["prompt"] = NoFetch /\ rr["texts"] = r["texts"] /\ r["prompt"] = q
        BY <1>21, <1>22, <3>3, InputTypes
      <4>2. y.prompt = q.row["prompt"] /\ "texts" \notin y.saved
        BY <1>4, <3>3
      <4>3. rr["texts"].op # "load"
        <5>1. RequestOK(window[w], "texts", r["texts"], Len(assistants))
          BY <1>2, InputTypes DEF WindowInv
        <5> QED BY <1>2, <1>4, <1>23, <2>1, <4>1, <5>1 DEF RequestOK
      <4> QED BY <1>1, <1>4, <3>1, <4>1, <4>2, <4>3, NoFetchType DEF Shown
    <3> QED BY <3>2, <3>3, InputTypes
  <2> HIDE DEF x
  <2>5. WindowInv(x, rr, assistants, w \notin disrupted)
    BY <2>1, <2>2, <2>3, <2>4 DEF WindowInv
  <2> QED BY <2>5
<1>24. ASSUME window[w].page # "settings" PROVE WindowInv(x, rr, assistants, w \notin disrupted)
  <2>1. x = window[w]
    BY <1>24 DEF OnPage
  <2>2. window[w].page = "left" /\ window[w].assistant = 0 /\ window[w].busy = {}
    BY <1>1, <1>2, <1>22, <1>24 DEF RequestOK, WindowInv, WindowOK, WindowType
  <2> HIDE DEF x
  <2>3. ASSUME NEW g \in Forms PROVE RequestOK(x, g, rr[g], Len(assistants))
    <3>1. CASE g = f
      BY <1>21, <2>1, <2>2, <3>1, NoFetchType DEF RequestOK
    <3>2. CASE g # f
      BY <1>2, <1>21, <2>1, <3>2 DEF WindowInv
    <3> QED BY <3>1, <3>2
  <2>4. ASSUME w \notin disrupted PROVE Shown(x, rr["texts"], rr["prompt"], assistants)
    <3>1. Shown(window[w], r["texts"], r["prompt"], assistants)
      BY <1>2, <2>4 DEF WindowInv
    <3>2. rr["texts"] = NoFetch \/ rr["texts"] = r["texts"]
      BY <1>21, InputTypes
    <3> QED BY <2>1, <2>2, <3>1, <3>2, NoFetchType DEF Shown
  <2> QED BY <1>2, <2>1, <2>3, <2>4 DEF WindowInv
<1>25. WindowInv(x, fetch'[w], assistants, w \notin disrupted)
  BY <1>23, <1>24 DEF rr
<1>26. ~Creating(NoFetch)
  BY NoFetchType DEF Creating
<1> HIDE DEF x
<1> QED BY <1>1, <1>5, <1>6, <1>25, <1>26, NoFetchType, RequestMoves

(***************************************************************************)
(* The steps of the API.                                                   *)
(***************************************************************************)

LEMMA AboutTo == AboutToCreate <=> Creators # {} \/ LateCreates # {}
BY DEF AboutToCreate, Creators, LateCreates, Creating

LEMMA ServeReadMoves ==
  ASSUME SettingsInv, NEW w \in Windows, ServeRead(w)
  PROVE  SettingsInv'
<1> DEFINE r == fetch[w]["texts"]
<1>1. /\ r.op \in {"list", "load"} /\ r.at = "sent" /\ UNCHANGED <<assistants, late, window, Inputs>>
      /\ createsOverlapped' = (createsOverlapped \/ (r.op = "list" /\ assistants = <<>> /\ AboutToCreate))
  BY DEF ServeRead
<1>2. /\ window[w] \in WindowType /\ assistants \in Seq(AssistantRow) /\ r \in Request
      /\ window \in [Windows -> WindowType] /\ Len(assistants) \in Nat
      /\ WindowInv(window[w], fetch[w], assistants, w \notin disrupted)
  BY Types
<1>3. \E q \in Request :
        /\ Ask(w, "texts", q) /\ q.op = r.op /\ q.at = "ok"
        /\ \/ assistants = <<>> /\ q.id = r.id
           \/ q.id \in 1 .. Len(assistants) /\ (r.op = "load" => q.row = assistants[q.id])
  <2>1. CASE assistants = <<>> /\ Ask(w, "texts", [r EXCEPT !.at = "ok"])
    <3> DEFINE q == [r EXCEPT !.at = "ok"]
    <3>1. q \in Request /\ q.op = r.op /\ q.at = "ok" /\ q.id = r.id
      BY <1>2 DEF Request
    <3> HIDE DEF r
    <3> QED BY <2>1, <3>1
  <2>2. CASE \E i \in DOMAIN assistants :
               Ask(w, "texts", [r EXCEPT !.at = "ok", !.id = i,
                                         !.row = IF r.op = "load" THEN assistants[i] ELSE @])
    <3>1. PICK i \in DOMAIN assistants :
               Ask(w, "texts", [r EXCEPT !.at = "ok", !.id = i,
                                         !.row = IF r.op = "load" THEN assistants[i] ELSE @])
      BY <2>2
    <3> DEFINE q == [r EXCEPT !.at = "ok", !.id = i, !.row = IF r.op = "load" THEN assistants[i] ELSE @]
    <3>2. i \in 1 .. Len(assistants) /\ i \in Nat /\ assistants[i] \in AssistantRow
      BY <1>2
    <3>3. /\ q \in Request /\ q.op = r.op /\ q.at = "ok" /\ q.id = i
          /\ r.op = "load" => q.row = assistants[i]
      BY <1>2, <3>2 DEF Request
    <3> HIDE DEF q
    <3>4. Ask(w, "texts", q)
      BY <3>1 DEF q
    <3> QED BY <3>2, <3>3, <3>4
  <2> QED BY <2>1, <2>2 DEF ServeRead
<1>4. PICK q \in Request :
        /\ Ask(w, "texts", q) /\ q.op = r.op /\ q.at = "ok"
        /\ \/ assistants = <<>> /\ q.id = r.id
           \/ q.id \in 1 .. Len(assistants) /\ (r.op = "load" => q.row = assistants[q.id])
  BY <1>3
<1>5. /\ fetch' \in [Windows -> RequestsOf]
      /\ \A v \in Windows : v # w => fetch'[v] = fetch[v]
      /\ \A g \in Forms : fetch'[w][g] = IF g = "texts" THEN q ELSE fetch[w][g]
  BY <1>4, Types, InputTypes, AskGoes
<1>6. OnlyWindow(w)
  BY <1>1, <1>2, <1>5 DEF OnlyWindow
<1>7. RequestOK(window[w], "texts", r, Len(assistants)) /\ window[w].assistant = 0
  BY <1>1, <1>2, InputTypes DEF WindowInv, WindowOK, RequestOK
<1>8. fetch'[w]["texts"] = q /\ fetch'[w]["prompt"] = fetch[w]["prompt"]
  BY <1>5, InputTypes
<1>9. q.op = "load" => q.id \in 0 .. Len(assistants)
  BY <1>2, <1>4, <1>7 DEF RequestOK
<1> DEFINE rr == fetch'[w]
<1> HIDE DEF r
<1>10. RequestOK(window[w], "texts", q, Len(assistants))
  BY <1>1, <1>4, <1>7, <1>9 DEF RequestOK
<1>11. q.op = "load" /\ q.id # 0 => q.row = assistants[q.id]
  <2>1. CASE assistants = <<>>
    BY <1>9, <2>1
  <2>2. CASE assistants # <<>>
    BY <1>4, <2>2
  <2> QED BY <2>1, <2>2
<1>12. WindowInv(window'[w], rr, assistants, w \notin disrupted')
  <2>1. \A g \in Forms : RequestOK(window[w], g, rr[g], Len(assistants))
    BY <1>2, <1>5, <1>10 DEF WindowInv
  <2>2. Shown(window[w], rr["texts"], rr["prompt"], assistants)
    BY <1>7, <1>8, <1>11 DEF Shown
  <2> QED BY <1>1, <1>2, <2>1, <2>2 DEF WindowInv
<1>13. typed' \in 0 .. MaxTyped /\ disrupted' = disrupted /\ disrupted' \subseteq Windows
       /\ LateOK' /\ createsOverlapped' \in BOOLEAN
  BY <1>1, Types DEF AssistantsOK, Inputs, LateOK
<1>14. ASSUME ~createsOverlapped' PROVE OneCreator'
  <2>1. OneCreator /\ (r.op = "list" /\ assistants = <<>> => Creators = {} /\ LateCreates = {})
    BY <1>1, <1>14, AboutTo DEF SettingsInv
  <2>2. LateCreates' = LateCreates /\ assistants' = assistants
    BY <1>1 DEF LateCreates
  <2>3. CASE r.op = "list" /\ assistants = <<>>
    <3>1. \A v \in Windows : v # w => ~Creating(fetch'[v]["texts"])
      BY <1>5, <2>1, <2>3 DEF Creators
    <3>2. Len(assistants) = 0
      BY <2>3
    <3> QED BY <2>1, <2>2, <2>3, <3>1, <3>2 DEF OneCreator, Creators
  <2>4. CASE ~(r.op = "list" /\ assistants = <<>>)
    <3>1. ~Creating(q)
      BY <1>1, <1>4, <2>4 DEF Creating
    <3>2. \A v \in Windows : Creating(fetch'[v]["texts"]) => Creating(fetch[v]["texts"])
      BY <1>5, <1>8, <3>1
    <3> QED BY <2>1, <2>2, <3>2, CreatorsStay
  <2> QED BY <2>3, <2>4
<1> QED BY <1>6, <1>12, <1>13, <1>14, OneWindowMoves

\* What a PUT leaves of the rows.
Put(rows, r) == [rows EXCEPT ![r.id] = [f \in Forms |-> IF f \in r.fields THEN r.row[f] ELSE @[f]]]

LEMMA PutGoes ==
  ASSUME NEW rows \in Seq(AssistantRow), NEW r \in Request, r.id \in 1 .. Len(rows)
  PROVE  /\ Put(rows, r) \in Seq(AssistantRow) /\ Len(Put(rows, r)) = Len(rows)
         /\ \A i \in 1 .. Len(rows) : i # r.id => Put(rows, r)[i] = rows[i]
         /\ \A f \in Forms : Put(rows, r)[r.id][f] = IF f \in r.fields THEN r.row[f] ELSE rows[r.id][f]
<1> DEFINE n == [f \in Forms |-> IF f \in r.fields THEN r.row[f] ELSE rows[r.id][f]]
<1>1. rows[r.id] \in AssistantRow /\ r.row \in AssistantRow
  BY DEF Request
<1>2. n \in AssistantRow /\ \A f \in Forms : n[f] = IF f \in r.fields THEN r.row[f] ELSE rows[r.id][f]
  BY <1>1 DEF AssistantRow
<1>3. Put(rows, r) = [rows EXCEPT ![r.id] = n]
  BY DEF Put
<1> HIDE DEF n
<1>4. /\ [rows EXCEPT ![r.id] = n] \in Seq(AssistantRow) /\ Len([rows EXCEPT ![r.id] = n]) = Len(rows)
      /\ [rows EXCEPT ![r.id] = n][r.id] = n
      /\ \A i \in 1 .. Len(rows) : i # r.id => [rows EXCEPT ![r.id] = n][i] = rows[i]
  BY <1>2, ExceptSeq
<1> QED BY <1>2, <1>3, <1>4

LEMMA AppendGoes ==
  ASSUME NEW rows \in Seq(AssistantRow), NEW row \in AssistantRow
  PROVE  /\ Append(rows, row) \in Seq(AssistantRow) /\ Len(Append(rows, row)) = Len(rows) + 1
         /\ \A i \in 1 .. Len(rows) : Append(rows, row)[i] = rows[i]
BY AppendProperties

\* The rows a window is about are as they were.
LEMMA RowsKept ==
  ASSUME NEW x \in WindowType, NEW r \in RequestsOf, NEW rows \in Seq(AssistantRow), NEW more \in Seq(AssistantRow),
         NEW calm, NEW calm2, calm2 => calm, WindowInv(x, r, rows, calm), Len(rows) <= Len(more),
         calm2 => /\ x.assistant # 0 => more[x.assistant] = rows[x.assistant]
                  /\ r["texts"].op = "load" /\ r["texts"].at = "ok" /\ r["texts"].id # 0
                       => more[r["texts"].id] = rows[r["texts"].id]
  PROVE  WindowInv(x, r, more, calm2)
<1>1. Len(rows) \in Nat /\ Len(more) \in Nat
  OBVIOUS
<1>2. 0 .. Len(rows) \subseteq 0 .. Len(more) /\ 1 .. Len(rows) \subseteq 1 .. Len(more)
  BY <1>1
<1>3. WindowOK(x, Len(more))
  BY <1>2 DEF WindowInv, WindowOK
<1>4. \A f \in Forms : RequestOK(x, f, r[f], Len(more))
  BY <1>2 DEF WindowInv, RequestOK
<1>5. calm2 => Shown(x, r["texts"], r["prompt"], more)
  BY DEF WindowInv, Shown
<1> QED BY <1>3, <1>4, <1>5 DEF WindowInv

LEMMA RowsMove ==
  ASSUME SettingsInv, window' = window, typed' = typed, createsOverlapped' = createsOverlapped,
         assistants' \in Seq(AssistantRow), disrupted' \subseteq Windows, fetch' \in [Windows -> RequestsOf], LateOK',
         \A v \in Windows : WindowInv(window[v], fetch'[v], assistants', v \notin disrupted'),
         ~createsOverlapped => OneCreator'
  PROVE  SettingsInv'
<1>1. AssistantsOK'
  BY Types DEF AssistantsOK
<1>2. WindowsOK'
  BY DEF WindowsOK
<1> QED BY <1>1, <1>2 DEF SettingsInv

\* What a committed request does to the windows that do not wait for it; mine is the
\* window that does, if there is one.
LEMMA CommitKeeps ==
  ASSUME SettingsInv, NEW r \in Request, r.op \in {"create", "put", "rename"},
         r.op = "put" => r.id \in 1 .. Len(assistants),
         NEW mine \in SUBSET Windows, Commit(r, mine)
  PROVE  /\ assistants' \in Seq(AssistantRow) /\ Len(assistants) <= Len(assistants')
         /\ r.op # "create" => Len(assistants') = Len(assistants)
         /\ r.op = "create" => Len(assistants') = Len(assistants) + 1
         /\ disrupted \subseteq disrupted' /\ disrupted' \subseteq Windows
         /\ \A v \in Windows \ mine : WindowInv(window[v], fetch[v], assistants', v \notin disrupted')
         /\ r.op # "put" => \A v \in Windows : WindowInv(window[v], fetch[v], assistants', v \notin disrupted')
         /\ r.op = "put" => assistants' = Put(assistants, r)
<1>1. assistants \in Seq(AssistantRow) /\ Len(assistants) \in Nat /\ disrupted \subseteq Windows /\ r.row \in AssistantRow
  BY Types DEF AssistantsOK, Request
<1>2. \A v \in Windows : /\ window[v] \in WindowType /\ fetch[v] \in RequestsOf
                         /\ WindowInv(window[v], fetch[v], assistants, v \notin disrupted)
  BY Types
<1>3. \A v \in Windows : /\ window[v].assistant \in 0 .. Len(assistants)
                         /\ fetch[v]["texts"].op = "load" => fetch[v]["texts"].id \in 0 .. Len(assistants)
  BY <1>2, InputTypes DEF WindowInv, WindowOK, RequestOK
<1>4. disrupted \subseteq disrupted' /\ disrupted' \subseteq Windows
  BY <1>1 DEF Commit, Showing
<1>5. CASE r.op = "put"
  <2>1. assistants' = Put(assistants, r) /\ disrupted' = disrupted \cup (Showing(r.id) \ mine)
    BY <1>5 DEF Commit, Put
  <2>2. /\ assistants' \in Seq(AssistantRow) /\ Len(assistants') = Len(assistants)
        /\ \A i \in 1 .. Len(assistants) : i # r.id => assistants'[i] = assistants[i]
    BY <1>1, <1>5, <2>1, PutGoes
  <2>3. ASSUME NEW v \in Windows \ mine
        PROVE  WindowInv(window[v], fetch[v], assistants', v \notin disrupted')
    <3>1. ASSUME v \notin disrupted'
          PROVE  /\ window[v].assistant # 0 => assistants'[window[v].assistant] = assistants[window[v].assistant]
                 /\ fetch[v]["texts"].op = "load" /\ fetch[v]["texts"].at = "ok" /\ fetch[v]["texts"].id # 0
                      => assistants'[fetch[v]["texts"].id] = assistants[fetch[v]["texts"].id]
      <4>1. v \notin Showing(r.id)
        BY <2>1, <2>3, <3>1
      <4>2. /\ window[v].assistant # r.id
            /\ ~(fetch[v]["texts"].op = "load" /\ fetch[v]["texts"].at = "ok" /\ fetch[v]["texts"].id = r.id)
        BY <4>1 DEF Showing, Arrived
      <4> QED BY <1>1, <1>3, <2>2, <4>2
    <3>2. Len(assistants) <= Len(assistants')
      BY <1>1, <2>2
    <3>3. v \notin disrupted' => v \notin disrupted
      BY <1>4
    <3>4. v \notin disrupted' =>
            /\ window[v].assistant # 0 => assistants'[window[v].assistant] = assistants[window[v].assistant]
            /\ fetch[v]["texts"].op = "load" /\ fetch[v]["texts"].at = "ok" /\ fetch[v]["texts"].id # 0
                 => assistants'[fetch[v]["texts"].id] = assistants[fetch[v]["texts"].id]
      BY <3>1
    <3> QED BY <1>1, <1>2, <2>2, <3>2, <3>3, <3>4, RowsKept
  <2> QED BY <1>1, <1>4, <1>5, <2>1, <2>2, <2>3
<1>6. CASE r.op = "create"
  <2>1. assistants' = Append(assistants, r.row)
    BY <1>6 DEF Commit
  <2>2. /\ assistants' \in Seq(AssistantRow) /\ Len(assistants') = Len(assistants) + 1
        /\ \A i \in 1 .. Len(assistants) : assistants'[i] = assistants[i]
    BY <1>1, <2>1, AppendGoes
  <2>3. Len(assistants) <= Len(assistants')
    BY <1>1, <2>2
  <2>4. ASSUME NEW v \in Windows
        PROVE  WindowInv(window[v], fetch[v], assistants', v \notin disrupted')
    <3>1. /\ window[v].assistant # 0 => assistants'[window[v].assistant] = assistants[window[v].assistant]
          /\ fetch[v]["texts"].op = "load" /\ fetch[v]["texts"].at = "ok" /\ fetch[v]["texts"].id # 0
               => assistants'[fetch[v]["texts"].id] = assistants[fetch[v]["texts"].id]
      BY <1>1, <1>3, <2>2
    <3> QED BY <1>1, <1>2, <1>4, <2>2, <2>3, <3>1, RowsKept
  <2> QED BY <1>4, <1>6, <2>2, <2>3, <2>4
<1>7. CASE r.op = "rename"
  <2>1. assistants' = assistants
    BY <1>7 DEF Commit
  <2>2. ASSUME NEW v \in Windows
        PROVE  WindowInv(window[v], fetch[v], assistants', v \notin disrupted')
    <3>1. v \notin disrupted' => v \notin disrupted
      BY <1>4
    <3> QED BY <1>2, <2>1, <3>1 DEF WindowInv
  <2> QED BY <1>1, <1>4, <1>7, <2>1, <2>2
<1> QED BY <1>5, <1>6, <1>7

LEMMA LateStaysOK ==
  ASSUME LateOK, late' \subseteq late, Len(assistants) \in Nat, Len(assistants') \in Nat,
         Len(assistants) <= Len(assistants')
  PROVE  LateOK'
BY DEF LateOK

LEMMA ServeLateMoves ==
  ASSUME SettingsInv, NEW r \in late, ServeLate(r)
  PROVE  SettingsInv'
<1>1. /\ late' = late \ {r} /\ Commit(r, {})
      /\ createsOverlapped' = createsOverlapped /\ window' = window /\ fetch' = fetch /\ typed' = typed
  BY DEF ServeLate
<1>2. /\ r \in Request /\ r.op \in {"create", "put"} /\ LateOK /\ Len(assistants) \in Nat
      /\ r.op = "put" => r.id \in 1 .. Len(assistants)
      /\ fetch \in [Windows -> RequestsOf]
  BY Types DEF LateOK
<1>3. /\ assistants' \in Seq(AssistantRow) /\ Len(assistants) <= Len(assistants') /\ disrupted' \subseteq Windows
      /\ r.op # "create" => Len(assistants') = Len(assistants)
      /\ r.op = "create" => Len(assistants') = Len(assistants) + 1
      /\ \A v \in Windows : WindowInv(window[v], fetch'[v], assistants', v \notin disrupted')
  BY <1>1, <1>2, CommitKeeps
<1>4. LateOK'
  BY <1>1, <1>2, <1>3, LateStaysOK
<1>5. ASSUME ~createsOverlapped PROVE OneCreator'
  <2>1. OneCreator /\ Creators' = Creators
    BY <1>1, <1>5 DEF SettingsInv, Creators
  <2>2. LateCreates' = LateCreates \ {r}
    BY <1>1 DEF LateCreates
  <2>3. CASE r.op = "create"
    <3>1. r \in LateCreates
      BY <2>3 DEF LateCreates
    <3>2. LateCreates' = {} /\ Creators = {} /\ Len(assistants) = 0
      BY <2>1, <2>2, <3>1 DEF OneCreator
    <3>3. Len(assistants') = 1 /\ Creators' = {}
      BY <1>3, <2>1, <2>3, <3>2
    <3> QED BY <3>2, <3>3 DEF OneCreator
  <2>4. CASE r.op # "create"
    BY <1>3, <2>1, <2>2, <2>4 DEF OneCreator
  <2> QED BY <2>3, <2>4
<1> QED BY <1>1, <1>2, <1>3, <1>4, <1>5, RowsMove

LEMMA DropLateMoves ==
  ASSUME SettingsInv, NEW r \in late, DropLate(r)
  PROVE  SettingsInv'
<1>1. /\ late' = late \ {r} /\ assistants' = assistants /\ disrupted' = disrupted
      /\ createsOverlapped' = createsOverlapped /\ window' = window /\ fetch' = fetch /\ typed' = typed
  BY DEF DropLate, Inputs
<1>2. LateOK'
  BY <1>1, Types DEF LateOK
<1>3. ASSUME ~createsOverlapped PROVE OneCreator'
  <2>1. OneCreator /\ LateCreates' \subseteq LateCreates
    BY <1>1, <1>3 DEF SettingsInv, LateCreates
  <2> QED BY <1>1, <2>1, CreatorsStay
<1>4. /\ assistants' \in Seq(AssistantRow) /\ disrupted' \subseteq Windows /\ fetch' \in [Windows -> RequestsOf]
      /\ \A v \in Windows : WindowInv(window[v], fetch'[v], assistants', v \notin disrupted')
  BY <1>1, Types DEF AssistantsOK
<1> QED BY <1>1, <1>2, <1>3, <1>4, RowsMove

LEMMA ServeWriteMoves ==
  ASSUME SettingsInv, NEW w \in Windows, NEW f \in Forms, ServeWrite(w, f)
  PROVE  SettingsInv'
<1> DEFINE r == fetch[w][f]
           q == [r EXCEPT !.at = "ok"]
           x == window[w]
<1>1. /\ r.op \in {"create", "put", "rename"} /\ r.at = "sent" /\ Commit(r, {w}) /\ Ask(w, f, q)
      /\ late' = late /\ createsOverlapped' = createsOverlapped /\ window' = window /\ typed' = typed
  BY DEF ServeWrite
<1>2. /\ r \in Request /\ LateOK /\ Len(assistants) \in Nat /\ assistants \in Seq(AssistantRow) /\ x \in WindowType
      /\ WindowInv(x, fetch[w], assistants, w \notin disrupted)
      /\ RequestOK(x, f, r, Len(assistants))
  BY Types DEF WindowInv
<1>3. r.op = "put" => r.id \in 1 .. Len(assistants) /\ r.fields = {f}
  BY <1>2 DEF RequestOK
<1>4. /\ q \in Request /\ q.op = r.op /\ q.at = "ok" /\ q.id = r.id /\ q.row = r.row /\ q.fields = r.fields
  BY <1>2 DEF Request
<1>5. /\ fetch' \in [Windows -> RequestsOf]
      /\ \A v \in Windows : v # w => fetch'[v] = fetch[v]
      /\ \A g \in Forms : fetch'[w][g] = IF g = f THEN q ELSE fetch[w][g]
  BY <1>1, <1>4, Types, AskGoes
<1>6. {w} \in SUBSET Windows
  OBVIOUS
<1> DEFINE rr == fetch'[w]
<1> HIDE DEF r, q, x, rr
<1>7. /\ assistants' \in Seq(AssistantRow) /\ Len(assistants) <= Len(assistants')
      /\ r.op # "create" => Len(assistants') = Len(assistants)
      /\ r.op = "create" => Len(assistants') = Len(assistants) + 1
      /\ disrupted \subseteq disrupted' /\ disrupted' \subseteq Windows
      /\ \A v \in Windows \ {w} : WindowInv(window[v], fetch[v], assistants', v \notin disrupted')
      /\ r.op # "put" => \A v \in Windows : WindowInv(window[v], fetch[v], assistants', v \notin disrupted')
      /\ r.op = "put" => assistants' = Put(assistants, r)
  BY <1>1, <1>2, <1>3, <1>6, CommitKeeps
<1>8. \A v \in Windows : v # w => WindowInv(window[v], fetch'[v], assistants', v \notin disrupted')
  BY <1>5, <1>7
<1>9. \A g \in Forms : rr[g] = IF g = f THEN q ELSE fetch[w][g]
  BY <1>5 DEF rr
<1>10. fetch[w][f] = r
  BY DEF r
<1>11. ASSUME r.op # "put" PROVE WindowInv(x, rr, assistants', w \notin disrupted')
  <2>1. WindowInv(x, fetch[w], assistants', w \notin disrupted')
    BY <1>7, <1>11 DEF x
  <2>2. f = "texts" /\ x.page \notin {"unopened", "settings"}
    BY <1>1, <1>2, <1>11 DEF RequestOK
  <2>3. x.assistant = 0
    BY <1>2, <2>2 DEF WindowInv, WindowOK
  <2>4. \A g \in Forms : RequestOK(x, g, rr[g], Len(assistants'))
    BY <1>4, <1>9, <1>10, <1>11, <2>1 DEF WindowInv, RequestOK
  <2>5. Shown(x, rr["texts"], rr["prompt"], assistants')
    BY <2>2, <2>3 DEF Shown
  <2> QED BY <2>1, <2>4, <2>5 DEF WindowInv
<1>12. ASSUME r.op = "put" PROVE WindowInv(x, rr, assistants', w \notin disrupted')
  <2>1. /\ Len(assistants') = Len(assistants)
        /\ \A g \in Forms : assistants'[r.id][g] = IF g = f THEN r.row[g] ELSE assistants[r.id][g]
    BY <1>2, <1>3, <1>7, <1>12, PutGoes
  <2>2. WindowOK(x, Len(assistants'))
    BY <1>2, <2>1 DEF WindowInv
  <2>3. \A g \in Forms : RequestOK(x, g, rr[g], Len(assistants'))
    BY <1>2, <1>4, <1>9, <1>10, <2>1 DEF WindowInv, RequestOK
  <2>4. ASSUME w \notin disrupted' PROVE Shown(x, rr["texts"], rr["prompt"], assistants')
    <3>1. Shown(x, fetch[w]["texts"], fetch[w]["prompt"], assistants)
      BY <1>2, <1>7, <2>4 DEF WindowInv
    <3>2. CASE x.page # "settings"
      <4>1. x.assistant = 0
        BY <1>2, <3>2 DEF WindowInv, WindowOK
      <4> QED BY <3>2, <4>1 DEF Shown
    <3>3. CASE x.page = "settings"
      <4>1. x.assistant = r.id /\ r.id # 0
        BY <1>2, <1>3, <1>12, <3>3 DEF RequestOK
      <4>2. fetch[w]["texts"].op # "load" /\ rr["texts"].op # "load"
        <5>1. RequestOK(x, "texts", fetch[w]["texts"], Len(assistants)) /\ RequestOK(x, "texts", rr["texts"], Len(assistants'))
          BY <1>2, <2>3, InputTypes DEF WindowInv
        <5> QED BY <3>3, <4>1, <5>1 DEF RequestOK
      <4>3. CASE f = "texts"
        <5>1. rr["texts"] = q /\ rr["prompt"] = fetch[w]["prompt"] /\ fetch[w]["texts"] = r
          BY <1>9, <1>10, <4>3, InputTypes
        <5>2. /\ assistants'[r.id]["texts"] = r.row["texts"]
              /\ assistants'[r.id]["prompt"] = assistants[r.id]["prompt"]
          BY <2>1, <4>3, InputTypes
        <5> QED BY <1>4, <1>12, <3>1, <4>1, <4>2, <5>1, <5>2 DEF Shown
      <4>4. CASE f = "prompt"
        <5>1. rr["prompt"] = q /\ rr["texts"] = fetch[w]["texts"] /\ fetch[w]["prompt"] = r
          BY <1>9, <1>10, <4>4, InputTypes
        <5>2. /\ assistants'[r.id]["prompt"] = r.row["prompt"]
              /\ assistants'[r.id]["texts"] = assistants[r.id]["texts"]
          BY <2>1, <4>4, InputTypes
        <5> QED BY <1>4, <1>12, <3>1, <4>1, <4>2, <5>1, <5>2 DEF Shown
      <4> QED BY <4>3, <4>4, InputTypes
    <3> QED BY <3>2, <3>3
  <2> QED BY <2>2, <2>3, <2>4 DEF WindowInv
<1>13. \A v \in Windows : WindowInv(window[v], fetch'[v], assistants', v \notin disrupted')
  BY <1>8, <1>11, <1>12 DEF x, rr
<1>14. LateOK'
  BY <1>1, <1>2, <1>7, LateStaysOK
<1>15. ASSUME ~createsOverlapped PROVE OneCreator'
  <2>1. OneCreator /\ LateCreates' = LateCreates
    BY <1>1, <1>15 DEF SettingsInv, LateCreates
  <2>2. ~Creating(fetch'[w]["texts"]) \/ fetch'[w]["texts"] = fetch[w]["texts"]
    <3>1. ~Creating(q)
      BY <1>1, <1>4 DEF Creating
    <3> QED BY <1>9, <3>1, InputTypes DEF rr
  <2>3. Creators' \subseteq Creators
    BY <1>5, <2>2 DEF Creators
  <2>4. CASE r.op = "create"
    <3>1. f = "texts"
      BY <1>2, <2>4 DEF RequestOK
    <3>2. w \in Creators /\ ~Creating(fetch'[w]["texts"])
      BY <1>1, <1>4, <1>9, <1>10, <2>4, <3>1, InputTypes DEF Creators, Creating, rr
    <3>3. Creators' = {} /\ LateCreates' = {} /\ Len(assistants') = 1
      BY <1>7, <2>1, <2>3, <2>4, <3>2 DEF OneCreator, Creators
    <3> QED BY <3>3 DEF OneCreator
  <2>5. CASE r.op # "create"
    BY <1>7, <2>1, <2>3, <2>5 DEF OneCreator
  <2> QED BY <2>4, <2>5
<1> QED BY <1>1, <1>5, <1>7, <1>13, <1>14, <1>15, RowsMove

\* A creation that nobody waits for any more is still the only one.
LEMMA AbandonKeepsOne ==
  ASSUME OneCreator, NEW w \in Windows, NEW rs, Abandon(rs), assistants' = assistants,
         \A v \in Windows : v # w => fetch'[v] = fetch[v],
         Creating(fetch'[w]["texts"]) => Creating(fetch[w]["texts"]),
         \A r \in rs : r.op = "create" /\ r.at = "sent" =>
            r = fetch[w]["texts"] /\ ~Creating(fetch'[w]["texts"])
  PROVE  OneCreator'
<1> DEFINE new == {r \in rs : r.at = "sent" /\ r.op = "create"}
<1>1. LateCreates' = LateCreates \cup new
  BY DEF LateCreates, Abandon
<1>2. Creators' \subseteq Creators
  BY DEF Creators
<1>3. CASE new = {}
  BY <1>1, <1>2, <1>3 DEF OneCreator
<1>4. CASE new # {}
  <2>1. new = {fetch[w]["texts"]} /\ w \in Creators /\ w \notin Creators'
    BY <1>4 DEF Creators, Creating
  <2>2. Creators' = {} /\ LateCreates = {} /\ Len(assistants) = 0
    BY <1>2, <2>1 DEF OneCreator
  <2>3. LateCreates' = {fetch[w]["texts"]}
    BY <1>1, <2>1, <2>2
  <2> QED BY <2>2, <2>3 DEF OneCreator
<1> QED BY <1>3, <1>4

LEMMA AbandonLate ==
  ASSUME LateOK, NEW rs, Abandon(rs), assistants' = assistants,
         \A r \in rs : r \in Request /\ (r.op = "put" => r.id \in 1 .. Len(assistants))
  PROVE  LateOK'
BY DEF LateOK, Abandon

LEMMA FetchFailsMoves ==
  ASSUME SettingsInv, NEW w \in Windows, NEW f \in Forms, FetchFails(w, f)
  PROVE  SettingsInv'
<1> DEFINE r == fetch[w][f]
           x == [window[w] EXCEPT !.busy = @ \ {f}]
<1>1. /\ r.op \in {"load", "list", "create", "put"} /\ Ask(w, f, NoFetch)
      /\ window' = [window EXCEPT ![w] = x]
      /\ \/ r.at = "sent" /\ UNCHANGED <<late, disrupted>>
         \/ /\ Abandon({r})
            /\ disrupted' = IF r.op = "put" THEN disrupted \cup {w} ELSE disrupted
      /\ assistants' = assistants /\ createsOverlapped' = createsOverlapped /\ typed' = typed
  BY DEF FetchFails
<1>2. /\ r \in Request /\ LateOK /\ assistants \in Seq(AssistantRow) /\ window[w] \in WindowType
      /\ WindowInv(window[w], fetch[w], assistants, w \notin disrupted)
      /\ RequestOK(window[w], f, r, Len(assistants))
      /\ typed \in 0 .. MaxTyped /\ createsOverlapped \in BOOLEAN /\ disrupted \subseteq Windows
      /\ window \in [Windows -> WindowType]
  BY Types DEF WindowInv, AssistantsOK
<1>3. /\ x \in WindowType /\ x.page = window[w].page /\ x.assistant = window[w].assistant
      /\ x.prompt = window[w].prompt /\ x.busy = window[w].busy \ {f} /\ x.saved = window[w].saved
      /\ x.texts = window[w].texts
  BY <1>2 DEF WindowType
<1>4. /\ fetch' \in [Windows -> RequestsOf]
      /\ \A v \in Windows : v # w => fetch'[v] = fetch[v]
      /\ \A g \in Forms : fetch'[w][g] = IF g = f THEN NoFetch ELSE fetch[w][g]
  BY <1>1, NoFetchType, Types, AskGoes
<1> DEFINE rr == fetch'[w]
<1>5. fetch[w][f] = r
  OBVIOUS
<1> HIDE DEF r, x, rr
<1>6. /\ window' \in [Windows -> WindowType] /\ window'[w] = x
      /\ \A v \in Windows : v # w => window'[v] = window[v]
  BY <1>1, <1>2, <1>3, WindowGoes
<1>7. OnlyWindow(w)
  BY <1>1, <1>4, <1>6 DEF OnlyWindow
<1>8. \A g \in Forms : rr[g] = IF g = f THEN NoFetch ELSE fetch[w][g]
  BY <1>4 DEF rr
<1>9. disrupted \subseteq disrupted' /\ disrupted' \subseteq Windows
  BY <1>1, <1>2
<1>10. WindowOK(x, Len(assistants))
  BY <1>2, <1>3 DEF WindowInv, WindowOK
<1>11. ASSUME NEW g \in Forms PROVE RequestOK(x, g, rr[g], Len(assistants))
  <2>1. CASE g = f
    BY <1>3, <1>8, <2>1, NoFetchType DEF RequestOK
  <2>2. CASE g # f
    <3>1. rr[g] = fetch[w][g] /\ (g \in x.busy <=> g \in window[w].busy)
      BY <1>3, <1>8, <2>2
    <3>2. RequestOK(window[w], g, fetch[w][g], Len(assistants))
      BY <1>2 DEF WindowInv
    <3> QED BY <1>3, <3>1, <3>2 DEF RequestOK
  <2> QED BY <2>1, <2>2
<1>12. ASSUME w \notin disrupted' PROVE Shown(x, rr["texts"], rr["prompt"], assistants)
  <2>1. Shown(window[w], fetch[w]["texts"], fetch[w]["prompt"], assistants)
    BY <1>2, <1>9, <1>12 DEF WindowInv
  <2>2. r.op = "put" => r.at = "sent"
    BY <1>1, <1>12
  <2>3. CASE f = "texts"
    <3>1. rr["texts"] = NoFetch /\ rr["prompt"] = fetch[w]["prompt"]
      BY <1>8, <2>3, InputTypes
    <3> QED BY <1>3, <2>1, <3>1, NoFetchType DEF Shown
  <2>4. CASE f = "prompt"
    <3>1. rr["prompt"] = NoFetch /\ rr["texts"] = fetch[w]["texts"] /\ fetch[w]["prompt"] = r
      BY <1>5, <1>8, <2>4, InputTypes
    <3>2. ~(r.op = "put" /\ r.at = "ok")
      BY <2>2
    <3> QED BY <1>3, <2>1, <3>1, <3>2, NoFetchType DEF Shown
  <2> QED BY <2>3, <2>4, InputTypes
<1>13. WindowInv(window'[w], fetch'[w], assistants, w \notin disrupted')
  BY <1>6, <1>10, <1>11, <1>12 DEF WindowInv, rr
<1>14. LateOK'
  <2>1. CASE late' = late
    BY <1>1, <1>2, <2>1 DEF LateOK
  <2>2. CASE Abandon({r})
    BY <1>1, <1>2, <2>2, AbandonLate DEF RequestOK
  <2> QED BY <1>1, <2>1, <2>2
<1>15. ASSUME ~createsOverlapped' PROVE OneCreator'
  <2>1. OneCreator
    BY <1>1, <1>15 DEF SettingsInv
  <2>2. ~Creating(NoFetch)
    BY NoFetchType DEF Creating
  <2>3. Creating(fetch'[w]["texts"]) => Creating(fetch[w]["texts"])
    BY <1>8, <2>2, InputTypes DEF rr
  <2>4. CASE late' = late
    <3>1. LateCreates' = LateCreates
      BY <2>4 DEF LateCreates
    <3>2. \A v \in Windows : Creating(fetch'[v]["texts"]) => Creating(fetch[v]["texts"])
      BY <1>4, <2>3
    <3> QED BY <1>1, <2>1, <3>1, <3>2, CreatorsStay
  <2>5. CASE Abandon({r})
    <3>1. r.op = "create" => f = "texts"
      BY <1>2 DEF RequestOK
    <3>2. r.op = "create" => r = fetch[w]["texts"] /\ fetch'[w]["texts"] = NoFetch
      BY <1>5, <1>8, <3>1, InputTypes DEF rr
    <3>3. \A s \in {r} : s.op = "create" /\ s.at = "sent" =>
            s = fetch[w]["texts"] /\ ~Creating(fetch'[w]["texts"])
      BY <2>2, <3>2
    <3> QED BY <1>1, <1>4, <2>1, <2>3, <2>5, <3>3, AbandonKeepsOne
  <2> QED BY <1>1, <2>4, <2>5
<1>16. typed' \in 0 .. MaxTyped /\ createsOverlapped' \in BOOLEAN
  BY <1>1, <1>2
<1> QED BY <1>7, <1>9, <1>13, <1>14, <1>15, <1>16, OneWindowMoves

LEMMA UnloadMoves ==
  ASSUME SettingsInv, NEW w \in Windows, Unload(w)
  PROVE  SettingsInv'
<1> DEFINE rs == {fetch[w][f] : f \in Forms}
           none == [f \in Forms |-> NoFetch]
<1>1. /\ window' = [window EXCEPT ![w] = Mounted("left")] /\ Abandon(rs)
      /\ fetch' = [fetch EXCEPT ![w] = none]
      /\ assistants' = assistants /\ createsOverlapped' = createsOverlapped
      /\ typed' = typed /\ disrupted' = disrupted
  BY DEF Unload, Inputs
<1>2. /\ LateOK /\ assistants \in Seq(AssistantRow) /\ fetch \in [Windows -> RequestsOf]
      /\ WindowInv(window[w], fetch[w], assistants, w \notin disrupted)
      /\ \A f \in Forms : fetch[w][f] \in Request
      /\ typed \in 0 .. MaxTyped /\ createsOverlapped \in BOOLEAN /\ disrupted \subseteq Windows
      /\ window \in [Windows -> WindowType]
  BY Types DEF AssistantsOK
<1>3. none \in RequestsOf /\ \A f \in Forms : none[f] = NoFetch
  BY NoFetchType
<1>4. /\ window' \in [Windows -> WindowType] /\ window'[w] = Mounted("left")
      /\ \A v \in Windows : v # w => window'[v] = window[v]
  BY <1>1, <1>2, MountedType, WindowGoes
<1> HIDE DEF none
<1>5. /\ fetch' \in [Windows -> RequestsOf] /\ fetch'[w] = none
      /\ \A v \in Windows : v # w => fetch'[v] = fetch[v]
  BY <1>1, <1>2, <1>3
<1>6. OnlyWindow(w)
  BY <1>1, <1>4, <1>5 DEF OnlyWindow
<1>7. WindowInv(Mounted("left"), none, assistants, w \notin disrupted')
  BY <1>2, <1>3, NoFetchType, MountedOK
<1>8. \A r \in rs : r \in Request /\ (r.op = "put" => r.id \in 1 .. Len(assistants))
  BY <1>2 DEF WindowInv, RequestOK
<1>9. LateOK'
  <2> HIDE DEF rs
  <2> QED BY <1>1, <1>2, <1>8, AbandonLate
<1>10. ASSUME ~createsOverlapped' PROVE OneCreator'
  <2>1. OneCreator
    BY <1>1, <1>10 DEF SettingsInv
  <2>2. fetch'[w]["texts"] = NoFetch /\ ~Creating(NoFetch)
    BY <1>3, <1>5, NoFetchType, InputTypes DEF Creating
  <2>3. \A r \in rs : r.op = "create" => r = fetch[w]["texts"]
    BY <1>2, InputTypes DEF WindowInv, RequestOK
  <2> HIDE DEF rs
  <2> QED BY <1>1, <1>5, <2>1, <2>2, <2>3, AbandonKeepsOne
<1>11. typed' \in 0 .. MaxTyped /\ createsOverlapped' \in BOOLEAN
       /\ disrupted \subseteq disrupted' /\ disrupted' \subseteq Windows
  BY <1>1, <1>2
<1>12. WindowInv(window'[w], fetch'[w], assistants, w \notin disrupted')
  BY <1>4, <1>5, <1>7
<1> QED BY <1>6, <1>9, <1>10, <1>11, <1>12, OneWindowMoves

(***************************************************************************)
(* The theorems.                                                           *)
(***************************************************************************)

LEMMA InitSettings == SettingsInit => SettingsInv
<1> SUFFICES ASSUME SettingsInit PROVE SettingsInv
  OBVIOUS
<1>1. Columns(0, 0) \in AssistantRow
  BY ColumnsType, InputTypes
<1>2. assistants \in Seq(AssistantRow) /\ Len(assistants) \in {0, 1} /\ Len(assistants) \in Nat
  <2> DEFINE c == Columns(0, 0)
  <2>1. assistants = <<>> \/ assistants = <<c>>
    BY DEF SettingsInit
  <2> HIDE DEF c
  <2>2. c \in AssistantRow
    BY <1>1 DEF c
  <2>3. <<c>> \in Seq(AssistantRow) /\ Len(<<c>>) = 1 /\ <<>> \in Seq(AssistantRow) /\ Len(<<>>) = 0
    BY <2>2
  <2> QED BY <2>1, <2>3
<1>3. /\ window = [w \in Windows |-> Mounted("unopened")] /\ late = {} /\ typed = 0
      /\ fetch = [w \in Windows |-> [f \in Forms |-> NoFetch]]
      /\ createsOverlapped = FALSE /\ disrupted = {}
  BY DEF SettingsInit
<1>4. AssistantsOK
  BY <1>2, <1>3, MountedType, NoFetchType, InputTypes DEF AssistantsOK, LateOK
<1>5. \A w \in Windows, f \in Forms : fetch[w][f] = NoFetch /\ window[w] = Mounted("unopened")
  BY <1>3
<1>6. ASSUME NEW w \in Windows PROVE WindowInv(window[w], fetch[w], assistants, w \notin disrupted)
  <2>1. WindowOK(window[w], Len(assistants))
    BY <1>2, <1>3, MountedType DEF WindowOK
  <2>2. \A f \in Forms : RequestOK(window[w], f, fetch[w][f], Len(assistants))
    BY <1>3, <1>5, MountedType, NoFetchType DEF RequestOK
  <2>3. Shown(window[w], fetch[w]["texts"], fetch[w]["prompt"], assistants)
    BY <1>3, MountedType DEF Shown
  <2> QED BY <2>1, <2>2, <2>3 DEF WindowInv
<1>7. Creators = {} /\ LateCreates = {}
  BY <1>3, <1>5, NoFetchType, InputTypes DEF Creators, LateCreates, Creating
<1>8. OneCreator
  <2>1. ASSUME NEW n, n \in {0, 1} PROVE n <= 1
    BY <2>1
  <2>2. Len(assistants) <= 1
    BY <1>2, <2>1
  <2> QED BY <1>7, <2>2, Zenon DEF OneCreator
<1>9. WindowsOK
  BY <1>6 DEF WindowsOK
<1> QED BY <1>4, <1>8, <1>9 DEF SettingsInv

LEMMA NextSettings == SettingsInv /\ [SettingsNext]_settingsVars => SettingsInv'
<1>1. ASSUME SettingsInv, UNCHANGED settingsVars PROVE SettingsInv'
  BY <1>1 DEF settingsVars, SettingsInv, AssistantsOK, LateOK, WindowsOK, OneCreator, Creators, LateCreates
<1>2. ASSUME SettingsInv, SettingsNext PROVE SettingsInv'
  <2>1. CASE \E r \in late : ServeLate(r) \/ DropLate(r)
    BY <1>2, <2>1, ServeLateMoves, DropLateMoves
  <2>2. ASSUME NEW w \in Windows,
               \/ OpenOnboarding(w) \/ NameCompany(w) \/ PrefillCompany(w) \/ StepOn(w) \/ StepBack(w)
               \/ ChooseOption(w) \/ ClickFinish(w) \/ ListReturns(w) \/ CreateReturns(w) \/ RenameReturns(w)
               \/ OpenSettings(w) \/ LoadReturns(w) \/ EditTexts(w) \/ EditPrompt(w)
               \/ SaveTexts(w) \/ SavePrompt(w) \/ ServeRead(w) \/ Leave(w) \/ Unload(w)
        PROVE  SettingsInv'
    BY <1>2, <2>2, OpenOnboardingMoves, OnboardingMoves, ClickFinishMoves, ListReturnsMoves,
       CreateReturnsMoves, RenameReturnsMoves, OpenSettingsMoves, LoadReturnsMoves, EditTextsMoves,
       EditPromptMoves, SavesMove, ServeReadMoves, LeaveMoves, UnloadMoves
  <2>3. ASSUME NEW w \in Windows, NEW f \in Forms, PutReturns(w, f) \/ ServeWrite(w, f) \/ FetchFails(w, f)
        PROVE  SettingsInv'
    BY <1>2, <2>3, PutReturnsMoves, ServeWriteMoves, FetchFailsMoves
  <2> QED BY <1>2, <2>1, <2>2, <2>3 DEF SettingsNext
<1> QED BY <1>1, <1>2

LEMMA SettingsInvHolds == SettingsSpec => []SettingsInv
<1> QED BY InitSettings, NextSettings, PTL DEF SettingsSpec

LEMMA SettingsTypes == SettingsInv => SettingsTypeOK
<1> SUFFICES ASSUME SettingsInv PROVE SettingsTypeOK
  OBVIOUS
<1>1. AssistantsOK /\ WindowsOK /\ assistants \in Seq(AssistantRow) /\ LateOK
  BY Types
<1>2. \A i \in DOMAIN assistants : assistants[i] \in AssistantRow
  BY <1>1
<1>3. ASSUME NEW w \in Windows, NEW f \in Forms
      PROVE  /\ window[w].assistant \in 0 .. Len(assistants)
             /\ fetch[w][f].op \in {"none", "list", "create", "rename", "load", "put"}
             /\ f \in window[w].busy => fetch[w][f] # NoFetch
  <2>1. /\ WindowOK(window[w], Len(assistants)) /\ RequestOK(window[w], f, fetch[w][f], Len(assistants))
        /\ fetch[w][f] \in Request
    BY Types DEF WindowInv
  <2> QED BY <2>1, NoFetchType DEF WindowOK, RequestOK, Request
<1> QED BY <1>1, <1>2, <1>3 DEF SettingsTypeOK, AssistantsOK, LateOK, AssistantRow, WindowType

\* The rows, the windows, the requests under way and the ones nobody waits for keep their
\* types, and a window shows a row there is, for any number of windows and inputs.
THEOREM SettingsTypeCorrect == SettingsSpec => []SettingsTypeOK
<1> QED BY SettingsInvHolds, SettingsTypes, PTL

\* A tenant has one assistant however often the onboarding is finished, left and retried,
\* and the settings page shows what is stored wherever it says so, unless two finishes
\* overlap, somebody else writes or a reply is lost (onboarding/page.tsx:46).
THEOREM SettingsAreKept == SettingsSpec => []SettingsHoldUnlessDisrupted
<1>1. SettingsInv => SettingsHoldUnlessDisrupted
  <2> SUFFICES ASSUME SettingsInv PROVE SettingsHoldUnlessDisrupted
    OBVIOUS
  <2>1. ~createsOverlapped => Len(assistants) <= 1
    BY DEF SettingsInv, OneCreator
  <2>2. ASSUME NEW w \in {v \in Windows \ disrupted : ShowsForm(v)}
        PROVE  /\ "prompt" \notin window[w].busy => assistants[window[w].assistant].prompt = window[w].prompt
               /\ "texts" \in window[w].saved => assistants[window[w].assistant].texts = window[w].texts
    <3>1. window[w].page = "settings" /\ window[w].assistant # 0
      BY DEF ShowsForm, OnPage
    <3>2. /\ Shown(window[w], fetch[w]["texts"], fetch[w]["prompt"], assistants)
          /\ RequestOK(window[w], "prompt", fetch[w]["prompt"], Len(assistants))
      BY Types, InputTypes DEF WindowInv
    <3> QED BY <3>1, <3>2 DEF Shown, RequestOK
  <2> QED BY <2>1, <2>2 DEF SettingsHoldUnlessDisrupted
<1> QED BY <1>1, SettingsInvHolds, PTL

---------------------------------------------------------------------------
(***************************************************************************)
(* The dialogue about an appointment: what is offered is open, and what is *)
(* taken of it is stored.                                                  *)
(***************************************************************************)

\* A set of instants has an earliest.
LEMMA EarliestExists ==
  ASSUME NEW T, T \subseteq Nat, T # {}
  PROVE  \E x \in T : \A y \in T : x <= y
<1>1. PICK x \in T : \A y \in T : ~(<<y, x>> \in OpToRel(<, Nat))
  BY WFMin, NatLessThanWellFounded
<1>2. \A y \in T : y \in Nat /\ x \in Nat /\ ~(y < x)
  BY <1>1 DEF OpToRel
<1> QED BY <1>2

\* One more slot of those that are open.
Further(open, earlier) ==
  IF open \ earlier = {} THEN earlier
  ELSE earlier \cup {CHOOSE c \in open \ earlier : \A d \in open \ earlier : c <= d}

\* `earlier' are the first n of the open slots, or all of them.
AreFirst(open, earlier, n) ==
  /\ earlier \subseteq open /\ IsFiniteSet(earlier)
  /\ \A s \in earlier, c \in open \ earlier : s < c
  /\ Cardinality(earlier) <= n
  /\ Cardinality(earlier) = n \/ earlier = open

LEMMA FurtherSlot ==
  ASSUME NEW open, open \subseteq Nat, NEW earlier, NEW n \in Nat, AreFirst(open, earlier, n)
  PROVE  AreFirst(open, Further(open, earlier), n + 1)
<1>0. Cardinality(earlier) \in Nat /\ IsFiniteSet(earlier) /\ earlier \subseteq open
  BY FS_CardinalityType DEF AreFirst
<1>1. CASE open \ earlier = {}
  <2>1. earlier = open /\ Further(open, earlier) = earlier
    BY <1>0, <1>1 DEF Further
  <2> QED BY <1>0, <2>1 DEF AreFirst
<1>2. CASE open \ earlier # {}
  <2> DEFINE first == CHOOSE c \in open \ earlier : \A d \in open \ earlier : c <= d
  <2>1. first \in open \ earlier /\ \A d \in open \ earlier : first <= d
    <3>1. open \ earlier \subseteq Nat
      OBVIOUS
    <3>2. \E x \in open \ earlier : \A y \in open \ earlier : x <= y
      BY <1>2, <3>1, EarliestExists
    <3> QED BY <3>2
  <2>2. Further(open, earlier) = earlier \cup {first}
    BY <1>2 DEF Further
  <2> HIDE DEF first
  <2>3. IsFiniteSet(earlier \cup {first}) /\ Cardinality(earlier \cup {first}) = Cardinality(earlier) + 1
    BY <1>0, <2>1, FS_AddElement
  <2>4. Cardinality(earlier) = n
    BY <1>2 DEF AreFirst
  <2>5. ASSUME NEW s \in earlier \cup {first}, NEW c \in open \ (earlier \cup {first}) PROVE s < c
    <3>1. c \in open \ earlier /\ c # first /\ c \in Nat /\ first \in Nat
      BY <2>1
    <3>2. first < c
      BY <2>1, <3>1
    <3>3. s \in earlier => s < c
      BY <3>1 DEF AreFirst
    <3> QED BY <3>2, <3>3
  <2>6. earlier \cup {first} \subseteq open
    BY <1>0, <2>1
  <2> DEFINE more == earlier \cup {first}
  <2>7. /\ more \subseteq open /\ IsFiniteSet(more) /\ Cardinality(more) = n + 1
        /\ \A s \in more, c \in open \ more : s < c
    BY <2>3, <2>4, <2>5, <2>6
  <2>8. Further(open, earlier) = more
    BY <2>2
  <2> HIDE DEF more
  <2>9. Cardinality(more) <= n + 1
    <3>1. n + 1 <= n + 1
      OBVIOUS
    <3> QED BY <2>7, <3>1
  <2>10. AreFirst(open, more, n + 1)
    BY <2>7, <2>9 DEF AreFirst
  <2> QED BY <2>8, <2>10
<1> QED BY <1>1, <1>2

\* The first `count' of the open slots.
FirstOf(open, count) ==
  LET slots[k \in 0..count] ==
        LET earlier == IF k = 0 THEN {} ELSE slots[k - 1]
            later == open \ earlier
        IN  IF k = 0 \/ later = {} THEN earlier
            ELSE earlier \cup {CHOOSE c \in later : \A d \in later : c <= d}
  IN  slots[count]

\* The slots are found one after the other: three times, which is what the count is.
LEMMA ThreeSlots ==
  ASSUME NEW open, open \subseteq Nat
  PROVE  AreFirst(open, FirstOf(open, 3), 3)
<1> DEFINE slots[k \in 0..3] ==
        LET earlier == IF k = 0 THEN {} ELSE slots[k - 1]
            later == open \ earlier
        IN  IF k = 0 \/ later = {} THEN earlier
            ELSE earlier \cup {CHOOSE c \in later : \A d \in later : c <= d}
<1>0. FirstOf(open, 3) = slots[3]
  BY DEF FirstOf
<1> DEFINE F(f, k) ==
             LET earlier == IF k = 0 THEN {} ELSE f[k - 1]
                 later == open \ earlier
             IN  IF k = 0 \/ later = {} THEN earlier
                 ELSE earlier \cup {CHOOSE c \in later : \A d \in later : c <= d}
           one == Further(open, {})
           two == Further(open, one)
           three == Further(open, two)
           g == [k \in 0..3 |-> IF k = 0 THEN {} ELSE IF k = 1 THEN one ELSE IF k = 2 THEN two ELSE three]
<1>1. \A f : F(f, 0) = {}
  OBVIOUS
<1>2. \A f, k : k # 0 => F(f, k) = Further(open, f[k - 1])
  BY DEF Further
<1>3. slots = CHOOSE f : f = [k \in 0..3 |-> F(f, k)]
  OBVIOUS
<1> HIDE DEF F, slots
<1>4. F(g, 0) = {} /\ F(g, 1) = one /\ F(g, 2) = two /\ F(g, 3) = three
  <2>1. g[0] = {} /\ g[1] = one /\ g[2] = two
    BY 0 \in 0..3, 1 \in 0..3, 2 \in 0..3
  <2> HIDE DEF g, one, two, three
  <2>2. F(g, 1) = Further(open, g[0]) /\ F(g, 2) = Further(open, g[1]) /\ F(g, 3) = Further(open, g[2])
    BY <1>2, 1 - 1 = 0, 2 - 1 = 1, 3 - 1 = 2
  <2> QED BY <1>1, <2>1, <2>2 DEF one, two, three
<1>5. g = [k \in 0..3 |-> F(g, k)]
  <2>1. \A k \in 0..3 : k \in {0, 1, 2, 3}
    OBVIOUS
  <2>2. \A k \in 0..3 : F(g, k) = IF k = 0 THEN {} ELSE IF k = 1 THEN one ELSE IF k = 2 THEN two ELSE three
    BY <1>4, <2>1
  <2> HIDE DEF F, one, two, three
  <2> QED BY <2>2
<1>6. slots = [k \in 0..3 |-> F(slots, k)]
  <2> HIDE DEF g
  <2> QED BY <1>3, <1>5
<1>7. slots[0] = {} /\ slots[1] = one /\ slots[2] = two /\ slots[3] = three
  <2>0. 0 \in 0..3 /\ 1 \in 0..3 /\ 2 \in 0..3 /\ 3 \in 0..3
    OBVIOUS
  <2>1. slots[0] = F(slots, 0) /\ slots[1] = F(slots, 1) /\ slots[2] = F(slots, 2) /\ slots[3] = F(slots, 3)
    <3> DEFINE h == [k \in 0..3 |-> F(slots, k)]
    <3>1. h[0] = F(slots, 0) /\ h[1] = F(slots, 1) /\ h[2] = F(slots, 2) /\ h[3] = F(slots, 3)
      BY <2>0
    <3>2. slots = h
      BY <1>6
    <3> HIDE DEF h
    <3> QED BY <3>1, <3>2
  <2> HIDE DEF one, two, three
  <2>2. F(slots, 1) = Further(open, slots[0]) /\ F(slots, 2) = Further(open, slots[1])
        /\ F(slots, 3) = Further(open, slots[2])
    BY <1>2, 1 - 1 = 0, 2 - 1 = 1, 3 - 1 = 2
  <2> QED BY <1>1, <2>1, <2>2 DEF one, two, three
<1>8. AreFirst(open, {}, 0)
  BY FS_EmptySet DEF AreFirst
<1>9. AreFirst(open, one, 1)
  BY <1>8, FurtherSlot, 0 + 1 = 1
<1> HIDE DEF one
<1>10. AreFirst(open, two, 2)
  BY <1>9, FurtherSlot, 1 + 1 = 2
<1> HIDE DEF two
<1>11. AreFirst(open, three, 3)
  BY <1>10, FurtherSlot, 2 + 1 = 3
<1> QED BY <1>0, <1>7, <1>11

\* The slots there are for a desired time: on the hour or half past, ahead, within 14 days and
\* the business hours, and free.
Slots(start) ==
  {c \in Nat : /\ c % Step = 0 /\ c >= start /\ c >= now /\ c <= start + 14 * Day
               /\ IsBusinessHours(ZonedParts(c, zone)) /\ IsSlotFree(c, Step, busy)}

LEMMA AlternativesFirst ==
  ASSUME now \in Nat, NEW start \in Int
  PROVE  AreFirst(Slots(start), Alternatives(start), 3)
<1> DEFINE o == [desired |-> start, now |-> now, duration |-> Step, busy |-> busy,
                 step |-> Step, count |-> 3, horizon |-> 14 * Day]
           from == IF o.desired > o.now THEN o.desired ELSE o.now
           first == FirstStep(from, o.step)
           open == {c \in {first + o.step * i : i \in 0..(o.horizon \div o.step)} :
                      /\ c <= o.desired + o.horizon
                      /\ IsBusinessHours(ZonedParts(c, zone)) /\ IsSlotFree(c, o.duration, o.busy)}
<1>1. Alternatives(start) = FirstOf(open, o.count)
  BY DEF Alternatives, ProposeFreeSlots, FirstOf
<1>2. o.count = 3
  OBVIOUS
<1>3. from \in Nat /\ from >= now
  OBVIOUS
<1>4. first \in Nat /\ first >= from
  <2> HIDE DEF from
  <2>1. o.step = 2
    BY DEF Step
  <2> HIDE DEF o
  <2>2. first = ((from + 1) \div 2) * 2
    BY <1>3, <2>1 DEF FirstStep
  <2> QED BY <1>3, <2>2
<1>5. first % 2 = 0 /\ (\A c \in Nat : c % 2 = 0 /\ c >= from => c >= first) /\ first >= start
  <2>1. first = ((from + 1) \div 2) * 2
    BY <1>3 DEF FirstStep, Step
  <2>2. from >= start
    OBVIOUS
  <2> HIDE DEF first, from
  <2>3. from = 2 * (from \div 2) + (from % 2)
    BY <1>3
  <2> QED BY <1>3, <1>4, <2>1, <2>2
<1>6. open = Slots(start)
  <2>1. /\ o.step = 2 /\ o.horizon = 1344 /\ o.desired = start /\ o.duration = Step
        /\ o.busy = busy
    BY DEF Step, Day
  <2>2. o.horizon \div o.step = 672
    BY <2>1
  <2>3. from \in {start, now} /\ from >= start
    OBVIOUS
  <2> HIDE DEF o, from, first
  <2>4. ASSUME NEW c \in Nat
        PROVE  c \in {first + o.step * i : i \in 0..(o.horizon \div o.step)} /\ c <= start + 1344
                 <=> c % 2 = 0 /\ c >= start /\ c >= now /\ c <= start + 1344
    <3>1. ASSUME c % 2 = 0, c >= start, c >= now, c <= start + 1344
          PROVE  c \in {first + o.step * i : i \in 0..(o.horizon \div o.step)}
      <4>1. c >= first
        BY <1>5, <2>3, <3>1
      <4> DEFINE i == (c - first) \div 2
      <4>2. i \in 0..672 /\ c = first + 2 * i
        BY <1>4, <1>5, <3>1, <4>1
      <4> QED BY <2>1, <2>2, <4>2
    <3>2. ASSUME NEW i \in 0..672, c = first + 2 * i
          PROVE  c % 2 = 0 /\ c >= start /\ c >= now
      BY <1>3, <1>4, <1>5, <3>2
    <3> QED BY <2>1, <2>2, <3>1, <3>2
  <2>5. \A i \in 0..672 : first + 2 * i \in Nat
    BY <1>3, <1>4
  <2>6. open \subseteq Nat
    BY <2>1, <2>2, <2>5
  <2>7. ASSUME NEW c \in Nat PROVE c \in open <=> c \in Slots(start)
    <3> DEFINE fits == IsBusinessHours(ZonedParts(c, zone)) /\ IsSlotFree(c, Step, busy)
               near == c \in {first + o.step * i : i \in 0..(o.horizon \div o.step)} /\ c <= start + 1344
               ahead == c % 2 = 0 /\ c >= start /\ c >= now /\ c <= start + 1344
    <3>1. near <=> ahead
      BY <2>4
    <3>2. c \in open <=> near /\ fits
      BY <2>1
    <3>3. c \in Slots(start) <=> ahead /\ fits
      BY DEF Slots, Step, Day
    <3> HIDE DEF near, ahead, fits, open
    <3> QED BY <3>1, <3>2, <3>3
  <2>8. Slots(start) \subseteq Nat
    BY DEF Slots
  <2> HIDE DEF open
  <2> QED BY <2>6, <2>7, <2>8
<1> HIDE DEF open, from, first
<1>7. FirstOf(open, o.count) = FirstOf(open, 3)
  BY <1>2
<1>8. Slots(start) \subseteq Nat
  BY DEF Slots
<1> QED BY <1>1, <1>6, <1>7, <1>8, ThreeSlots

\* What is offered instead of a busy slot is free and within business hours, no free slot is
\* passed over for a later one, and there are three unless there are no more
\* (proposeFreeSlots, calendar-availability.ts).
THEOREM EarliestAreOffered ==
  ASSUME now \in Nat, NEW start \in Int
  PROVE  /\ Alternatives(start) \subseteq Slots(start)
         /\ \A s \in Alternatives(start), c \in Slots(start) \ Alternatives(start) : s < c
         /\ Cardinality(Alternatives(start)) = 3 \/ Alternatives(start) = Slots(start)
BY AlternativesFirst DEF AreFirst

\* At most three slots are offered, all of them ahead and within business hours.
LEMMA AlternativesOpen ==
  ASSUME now \in Nat, NEW start \in Int
  PROVE  /\ IsFiniteSet(Alternatives(start)) /\ Cardinality(Alternatives(start)) <= 3
         /\ \A s \in Alternatives(start) :
              s \in Nat /\ s >= now /\ IsBusinessHours(ZonedParts(s, zone))
BY AlternativesFirst DEF AreFirst, Slots

LEMMA OffsetType ==
  ASSUME NEW z \in TimeZones, NEW utc \in Int
  PROVE  /\ Offset(z, utc) \in {z.before, z.after} /\ Offset(z, utc) \in Int
         /\ ZonedParts(utc, z) \in Int /\ ZonedWallToUtc(utc, z) \in Int
<1>1. z.before \in Int /\ z.after \in Int /\ z.change \in Int
  BY DialogueAssumption
<1> QED BY <1>1 DEF Offset, ZonedParts, ZonedWallToUtc

\* A wall clock reading is its day and its time.
LEMMA DayAndTime ==
  ASSUME NEW wall \in Int
  PROVE  /\ wall \div Day \in Int /\ wall % Day \in 0..95
         /\ (wall \div Day) * Day + (wall % Day) = wall
<1>1. wall \div 96 \in Int /\ wall % 96 \in 0..95
  OBVIOUS
<1>2. wall % 96 = wall - 96 * (wall \div 96)
  OBVIOUS
<1>3. Day = 96
  BY DEF Day
<1> DEFINE q == wall \div 96
           r == wall % 96
<1>4. q * 96 + r = wall /\ q \in Int /\ r \in 0..95
  <2>1. r = wall - 96 * q /\ q \in Int /\ r \in 0..95
    BY <1>1, <1>2
  <2> HIDE DEF q, r
  <2> QED BY <2>1
<1>5. wall \div Day = q /\ wall % Day = r
  BY <1>3
<1> HIDE DEF q, r
<1>6. (wall \div Day) * Day + (wall % Day) = q * 96 + r
  BY <1>3, <1>5, Zenon
<1> QED BY <1>4, <1>5, <1>6, Zenon

LEMMA PhraseTyped ==
  ASSUME NEW s \in Nat, zone \in TimeZones
  PROVE  ByName(s) \in PhraseType /\ FormatSlot(s) \in PhraseType
<1> DEFINE w == ZonedParts(s, zone)
<1>1. w \in Int
  BY OffsetType
<1> HIDE DEF w
<1>2. w \div Day \in Int /\ w % Day \in Nat
  BY <1>1, DayAndTime
<1>3. Weekday(w \div Day) \in Nat /\ DayOfMonth(w \div Day) \in Nat
  BY <1>2 DEF Weekday, DayOfMonth
<1> QED BY <1>2, <1>3 DEF ByName, FormatSlot, Phrase, PhraseType, w

LEMMA ParsedType ==
  ASSUME NEW p \in PhraseType, p.kind # "none", NEW wall \in Int
  PROVE  ParseNaturalDateTime(p, wall) \in Int
<1>1. wall \div Day \in Int
  BY DayAndTime
<1>2. p.n \in Nat /\ p.time \in Int /\ p.number \in Int /\ p.kind \in {"date", "in", "weekday"}
  BY DEF PhraseType, Unsaid
<1>3. ParseTime(p) \in Int
  BY <1>2 DEF ParseTime, Unsaid
<1>4. DaysUntilWeekday(Weekday(wall \div Day), p.n) \in Int
  BY <1>1, <1>2 DEF DaysUntilWeekday, Weekday
<1> DEFINE today == wall \div Day
           day == [date |-> p.n, in |-> today + p.n,
                   weekday |-> today + DaysUntilWeekday(Weekday(today), p.n)][p.kind]
<1>5. day \in Int
  <2>1. CASE p.kind = "date"
    BY <1>2, <2>1
  <2>2. CASE p.kind = "in"
    BY <1>1, <1>2, <2>2
  <2>3. CASE p.kind = "weekday"
    BY <1>1, <1>4, <2>3
  <2> QED BY <1>2, <2>1, <2>2, <2>3
<1>6. ParseNaturalDateTime(p, wall) = day * Day + IF ParseTime(p) = Unsaid THEN DefaultTime ELSE ParseTime(p)
  BY DEF ParseNaturalDateTime
<1> HIDE DEF day
<1> QED BY <1>3, <1>5, <1>6 DEF Day, DefaultTime

\* The weekday of a day of the week ahead means that day.
LEMMA WeekdayMeansDay ==
  ASSUME NEW today \in Int, NEW day \in Int, day - today \in 1..7
  PROVE  today + DaysUntilWeekday(Weekday(today), Weekday(day)) = day
<1> DEFINE ahead == day - today
<1>1. ahead \in 1..7 /\ day = today + ahead
  OBVIOUS
<1> HIDE DEF ahead
<1>2. (Weekday(day) - Weekday(today) + 7) % 7 = ahead % 7
  BY <1>1 DEF Weekday
<1> QED BY <1>1, <1>2 DEF DaysUntilWeekday

\* What the caller means by the weekday and the time of a slot is the slot.
LEMMA SlotUnderstood ==
  ASSUME NEW s \in Nat, zone \in TimeZones, now \in Nat, WithinAWeek(s), ~NearChange(s)
  PROVE  ZonedWallToUtc(ParseNaturalDateTime(ByName(s), ZonedParts(now, zone)), zone) = s
<1> DEFINE w == ZonedParts(s, zone)
           wall == ZonedParts(now, zone)
<1>1. w \in Int /\ wall \in Int
  BY OffsetType
<1>2. (w \div Day) - (wall \div Day) \in 1..7
  BY DEF WithinAWeek
<1>3. ParseNaturalDateTime(ByName(s), wall) = w
  <2> DEFINE p == ByName(s)
  <2>1. p.kind = "weekday" /\ p.n = Weekday(w \div Day) /\ p.time = w % Day /\ p.number = Unsaid
    BY DEF ByName, Phrase
  <2> HIDE DEF w, wall, p
  <2>2. ParseTime(p) = w % Day /\ ParseTime(p) # Unsaid
    BY <1>1, <2>1, DayAndTime DEF ParseTime, Unsaid
  <2>3. ParseNaturalDateTime(p, wall)
          = ((wall \div Day) + DaysUntilWeekday(Weekday(wall \div Day), Weekday(w \div Day))) * Day + (w % Day)
    <3> DEFINE day == [date |-> p.n, in |-> wall \div Day + p.n,
                       weekday |-> wall \div Day + DaysUntilWeekday(Weekday(wall \div Day), p.n)][p.kind]
    <3>1. day = wall \div Day + DaysUntilWeekday(Weekday(wall \div Day), Weekday(w \div Day))
      BY <2>1
    <3>2. ParseNaturalDateTime(p, wall) =
             day * Day + IF ParseTime(p) = Unsaid THEN DefaultTime ELSE ParseTime(p)
      BY DEF ParseNaturalDateTime
    <3> HIDE DEF day
    <3>3. (IF ParseTime(p) = Unsaid THEN DefaultTime ELSE ParseTime(p)) = w % Day
      BY <2>2
    <3> QED BY <3>1, <3>2, <3>3, Zenon
  <2>4. (wall \div Day) + DaysUntilWeekday(Weekday(wall \div Day), Weekday(w \div Day)) = w \div Day
    BY <1>1, <1>2, DayAndTime, WeekdayMeansDay
  <2>5. ParseNaturalDateTime(p, wall) = w
    BY <1>1, <2>3, <2>4, DayAndTime
  <2> QED BY <2>5 DEF p
<1>4. Offset(zone, w) = Offset(zone, s)
  <2> DEFINE o == Offset(zone, s)
  <2>1. o \in {zone.before, zone.after} /\ o \in Int /\ w = s + o
    BY OffsetType DEF ZonedParts
  <2>2. zone.change \in Int
    BY DialogueAssumption
  <2>3. /\ o >= 0 => s \notin (zone.change - o)..(zone.change + o)
        /\ o < 0 => s \notin (zone.change + o)..(zone.change - o)
    BY <2>1 DEF NearChange
  <2>4. s < zone.change <=> w < zone.change
    <3> HIDE DEF o, w
    <3> QED BY <2>1, <2>2, <2>3
  <2> HIDE DEF w
  <2> QED BY <2>4 DEF Offset
<1>5. ZonedWallToUtc(w, zone) = s
  <2>1. w = s + Offset(zone, s) /\ Offset(zone, s) \in Int
    BY OffsetType DEF ZonedParts
  <2> HIDE DEF w
  <2> QED BY <1>4, <2>1 DEF ZonedWallToUtc
<1> HIDE DEF w, wall
<1>6. ZonedWallToUtc(ParseNaturalDateTime(ByName(s), wall), zone) = s
  BY <1>3, <1>5
<1> QED BY <1>6 DEF wall

\* Nothing is answered before the phase says so, and nothing happens after that.
DialogueInv ==
  /\ DialogueTypeOK
  /\ IsFiniteSet(offers)
  /\ now >= began
  /\ phase = "ask" => clarified < 3
  /\ phase # "answered" => answer = NoInstant
  /\ OffersHold

LEMMA InitDialogue == DialogueInit => DialogueInv
<1> SUFFICES ASSUME DialogueInit PROVE DialogueInv
  OBVIOUS
<1>1. IsFiniteSet({}) /\ Cardinality({}) = 0
  BY FS_EmptySet
<1>2. began \in Nat /\ now = began
  BY DialogueAssumption DEF DialogueInit
<1>3. DialogueTypeOK
  <2>1. Cardinality(offers) <= 3 /\ offers \subseteq Nat /\ clarified \in 0..3
    BY <1>1 DEF DialogueInit
  <2>2. began \in CallTimes /\ zone \in TimeZones /\ busy \subseteq BusyInterval
    BY DialogueAssumption DEF DialogueInit
  <2>3. phase \in {"ask", "answered", "skipped"} /\ wanted \in Nat /\ answer \in Int
    BY DEF DialogueInit, NoInstant
  <2>4. verbatim \in BOOLEAN
    BY DEF DialogueInit
  <2> QED BY <1>2, <2>1, <2>2, <2>3, <2>4 DEF DialogueTypeOK
<1>4. OffersHold
  BY DEF DialogueInit, OffersHold, TakenOfferIsStored, OffersAreOpen
<1> QED BY <1>1, <1>2, <1>3, <1>4 DEF DialogueInv, DialogueInit

\* What an answer does to the offers and to the count of clarifications.
LEMMA ResolveMoves ==
  ASSUME DialogueInv, NEW p \in PhraseType, Resolve(p)
  PROVE  /\ offers' \subseteq Nat /\ IsFiniteSet(offers') /\ Cardinality(offers') <= 3
         /\ \A s \in offers' : s >= began /\ IsBusinessHours(ZonedParts(s, zone))
         /\ phase' \in {"ask", "answered", "skipped"} /\ clarified' \in 0..3
         /\ phase' = "ask" => clarified' < 3
         /\ phase' # "answered" => answer' = NoInstant
         /\ answer' \in Int
         /\ answer' # NoInstant =>
              answer' = ZonedWallToUtc(ParseNaturalDateTime(p, ZonedParts(now, zone)), zone)
<1> DEFINE start == ZonedWallToUtc(ParseNaturalDateTime(p, ZonedParts(now, zone)), zone)
<1>1. /\ now \in Nat /\ zone \in TimeZones /\ began \in Nat /\ now >= began
      /\ clarified \in 0..2 /\ answer = NoInstant /\ NoInstant \in Int
  BY DialogueAssumption DEF DialogueInv, DialogueTypeOK, Resolve, NoInstant
<1>2. ASSUME Clarify
      PROVE  /\ clarified' \in 0..3 /\ phase' \in {"ask", "skipped"} /\ answer' = NoInstant
             /\ phase' = "ask" => clarified' < 3
  BY <1>1, <1>2 DEF Clarify
<1>3. CASE p.kind = "none"
  <2>1. Clarify /\ offers' = {}
    BY <1>3 DEF Resolve
  <2>2. IsFiniteSet({}) /\ Cardinality({}) = 0
    BY FS_EmptySet
  <2> QED BY <1>1, <1>2, <2>1, <2>2
<1>4. CASE p.kind # "none"
  <2>1. start \in Int
    <3>1. ZonedParts(now, zone) \in Int
      BY <1>1, OffsetType
    <3>2. ParseNaturalDateTime(p, ZonedParts(now, zone)) \in Int
      BY <1>4, <3>1, ParsedType
    <3> QED BY <1>1, <3>2, OffsetType
  <2>2. Store(start) \/ (Clarify /\ offers' = Alternatives(start))
    BY <1>4 DEF Resolve
  <2> HIDE DEF start
  <2>3. CASE Store(start)
    <3>1. /\ answer' = start /\ phase' = "answered" /\ clarified' = clarified /\ offers' = offers
      BY <2>3 DEF Store
    <3>2. /\ offers \subseteq Nat /\ IsFiniteSet(offers) /\ Cardinality(offers) <= 3
          /\ \A s \in offers : s >= began /\ IsBusinessHours(ZonedParts(s, zone))
      BY DEF DialogueInv, DialogueTypeOK, OffersHold, OffersAreOpen
    <3> QED BY <1>1, <2>1, <3>1, <3>2 DEF start
  <2>4. CASE Clarify /\ offers' = Alternatives(start)
    <3>1. /\ IsFiniteSet(offers') /\ Cardinality(offers') <= 3
          /\ \A s \in offers' : s \in Nat /\ s >= now /\ IsBusinessHours(ZonedParts(s, zone))
      BY <1>1, <2>1, <2>4, AlternativesOpen
    <3>2. /\ offers' \subseteq Nat
          /\ \A s \in offers' : s >= began /\ IsBusinessHours(ZonedParts(s, zone))
      BY <1>1, <3>1
    <3> QED BY <1>1, <1>2, <2>4, <3>1, <3>2
  <2> QED BY <2>2, <2>3, <2>4
<1> QED BY <1>3, <1>4

\* The offers stay open while nothing moves but the clock.
LEMMA OffersStay ==
  ASSUME offers' = offers, began' = began, zone' = zone, OffersAreOpen
  PROVE  OffersAreOpen'
BY DEF OffersAreOpen, ZonedParts, Offset

LEMMA SayMoves ==
  ASSUME DialogueInv, NEW p \in Phrases, Say(p)
  PROVE  DialogueInv'
<1>1. p \in PhraseType /\ Resolve(p) /\ wanted' = NoInstant /\ verbatim' = FALSE
  BY DialogueAssumption DEF Say
<1>2. began' = began /\ now' = now /\ zone' = zone /\ busy' = busy
  BY <1>1 DEF Resolve
<1>3. OffersAreOpen'
  BY <1>1, <1>2, ResolveMoves DEF OffersAreOpen, ZonedParts, Offset
<1>4. DialogueTypeOK'
  BY <1>1, <1>2, ResolveMoves DEF DialogueInv, DialogueTypeOK, NoInstant
<1> QED BY <1>1, <1>2, <1>3, <1>4, ResolveMoves DEF DialogueInv, OffersHold, TakenOfferIsStored

LEMMA TakeOfferMoves ==
  ASSUME DialogueInv, NEW s \in offers, NEW inFull \in BOOLEAN, TakeOffer(s, inFull)
  PROVE  DialogueInv'
<1> DEFINE p == IF inFull THEN FormatSlot(s) ELSE ByName(s)
<1>1. s \in Nat /\ zone \in TimeZones /\ now \in Nat
  BY DEF DialogueInv, DialogueTypeOK
<1>2. p \in PhraseType
  BY <1>1, PhraseTyped
<1>3. Resolve(p) /\ wanted' = s /\ verbatim' = inFull
  BY DEF TakeOffer
<1>4. ~inFull => p = ByName(s)
  OBVIOUS
<1> HIDE DEF p
<1>5. began' = began /\ now' = now /\ zone' = zone /\ busy' = busy
  BY <1>3 DEF Resolve
<1>6. OffersAreOpen'
  BY <1>2, <1>3, <1>5, ResolveMoves DEF OffersAreOpen, ZonedParts, Offset
<1>7. DialogueTypeOK'
  BY <1>1, <1>2, <1>3, <1>5, ResolveMoves DEF DialogueInv, DialogueTypeOK
<1>8. TakenOfferIsStored'
  <2> SUFFICES ASSUME answer' # NoInstant, ~inFull, WithinAWeek(s), ~NearChange(s)
               PROVE  answer' = s
    BY <1>3, <1>5 DEF TakenOfferIsStored, WithinAWeek, NearChange, ZonedParts, Offset
  <2>1. answer' = ZonedWallToUtc(ParseNaturalDateTime(ByName(s), ZonedParts(now, zone)), zone)
    BY <1>2, <1>3, <1>4, ResolveMoves
  <2> QED BY <1>1, <2>1, SlotUnderstood
<1> QED BY <1>2, <1>3, <1>5, <1>6, <1>7, <1>8, ResolveMoves DEF DialogueInv, OffersHold

LEMMA CalendarFillsMoves ==
  ASSUME DialogueInv, NEW s \in offers, CalendarFills(s)
  PROVE  DialogueInv'
<1>1. UNCHANGED <<began, now, zone, phase, clarified, offers, wanted, verbatim, answer>>
  BY DEF CalendarFills
<1>2. busy' \subseteq BusyInterval
  <2>1. s \in Nat /\ busy \subseteq BusyInterval
    BY DEF DialogueInv, DialogueTypeOK
  <2>2. Interval(s, s + Step) \in BusyInterval
    BY <2>1 DEF Interval, BusyInterval, Step
  <2> QED BY <2>1, <2>2 DEF CalendarFills
<1>3. DialogueTypeOK'
  BY <1>1, <1>2 DEF DialogueInv, DialogueTypeOK
<1>4. OffersHold'
  BY <1>1 DEF DialogueInv, OffersHold, TakenOfferIsStored, OffersAreOpen, WithinAWeek, NearChange,
              ZonedParts, Offset
<1> QED BY <1>1, <1>3, <1>4 DEF DialogueInv

LEMMA TimePassesMoves ==
  ASSUME DialogueInv, TimePasses
  PROVE  DialogueInv'
<1>1. /\ UNCHANGED <<began, zone, busy, phase, clarified, offers, wanted, verbatim, answer>>
      /\ phase = "ask" /\ now' = now + 1
  BY DEF TimePasses
<1>2. now \in Nat /\ began \in Nat /\ now >= began /\ answer = NoInstant
  BY <1>1, DialogueAssumption DEF DialogueInv, DialogueTypeOK
<1>3. now' \in Nat /\ now' >= began'
  BY <1>1, <1>2
<1>4. DialogueTypeOK'
  BY <1>1, <1>3 DEF DialogueInv, DialogueTypeOK
<1>5. OffersHold'
  BY <1>1, <1>2, OffersStay DEF DialogueInv, OffersHold, TakenOfferIsStored
<1> QED BY <1>1, <1>2, <1>3, <1>4, <1>5 DEF DialogueInv

LEMMA NextDialogue == DialogueInv /\ [DialogueNext]_dialogueVars => DialogueInv'
<1>1. ASSUME DialogueInv, UNCHANGED dialogueVars PROVE DialogueInv'
  <2>1. UNCHANGED <<began, now, zone, busy, phase, clarified, offers, wanted, verbatim, answer>>
    BY <1>1 DEF dialogueVars
  <2>2. OffersHold'
    BY <1>1, <2>1 DEF DialogueInv, OffersHold, TakenOfferIsStored, OffersAreOpen, WithinAWeek,
                     NearChange, ZonedParts, Offset
  <2>3. DialogueTypeOK'
    BY <1>1, <2>1 DEF DialogueInv, DialogueTypeOK
  <2> QED BY <1>1, <2>1, <2>2, <2>3 DEF DialogueInv
<1>2. ASSUME DialogueInv, DialogueNext PROVE DialogueInv'
  BY <1>2, SayMoves, TakeOfferMoves, CalendarFillsMoves, TimePassesMoves DEF DialogueNext
<1> QED BY <1>1, <1>2

LEMMA DialogueInvariant == DialogueSpec => []DialogueInv
BY InitDialogue, NextDialogue, PTL DEF DialogueSpec

\* The state of a dialogue has its type: never more than three slots are offered, and
\* never more than three clarifications are asked for (resolveDatetimeAnswer).
THEOREM DialogueTypeCorrect == DialogueSpec => []DialogueTypeOK
<1>1. DialogueInv => DialogueTypeOK
  BY DEF DialogueInv
<1> QED BY DialogueInvariant, <1>1, PTL

\* The slot a caller takes by weekday and time is the one that is stored, in every time zone
\* and at every time but the ones OffersHold excepts, and what is offered is ahead and within
\* business hours (resolveDatetimeAnswer, conversation.service.ts:113).
THEOREM OffersAreKept == DialogueSpec => []OffersHold
<1>1. DialogueInv => OffersHold
  BY DEF DialogueInv
<1> QED BY DialogueInvariant, <1>1, PTL

---------------------------------------------------------------------------
(***************************************************************************)
(* The end of a call: what is stored fits its question, and what is        *)
(* computed of it is fair.                                                 *)
(***************************************************************************)

LEMMA QuestionTyped ==
  ASSUME NEW k \in DOMAIN Questionnaire
  PROVE  /\ k \in Keys /\ Questionnaire[k] \in Question
         /\ Questionnaire[k].type \in QuestionTypes /\ Questionnaire[k].order \in Nat
         /\ Questionnaire[k].options \subseteq JSValue
         /\ Questionnaire[k].scaleMin \in Nat /\ Questionnaire[k].scaleMax \in Nat
<1>1. k \in Keys /\ Questionnaire[k] \in Question
  BY EvaluationAssumption DEF IsQuestionnaire
<1> QED BY <1>1 DEF Question

\* What validateAnswerValue lets through fits the question.
LEMMA ValidatedFits ==
  ASSUME NEW k \in DOMAIN Questionnaire, NEW raw \in Raw,
         ValidateAnswerValue(Questionnaire[k], raw) # Rejected
  PROVE  /\ ValidateAnswerValue(Questionnaire[k], raw) \in JSValue
         /\ Fits(ValidateAnswerValue(Questionnaire[k], raw), Questionnaire[k])
<1> DEFINE q == Questionnaire[k]
           v == ValidateAnswerValue(q, raw)
<1>1. /\ q.type \in QuestionTypes /\ q.options \subseteq JSValue
      /\ q.scaleMin \in Nat /\ q.scaleMax \in Nat
  BY QuestionTyped
<1>2. raw.kind \in RawKinds /\ raw.n \in Nat
  BY DEF Raw
<1>3. v # Rejected
  OBVIOUS
<1> HIDE DEF q
<1>4. Text(1) \in JSValue /\ Text(1).typeof = "string" /\ \A n \in Nat : Num(n) \in JSValue /\ Text(n) \in JSValue
      /\ Num(n).typeof = "number" /\ Num(n).n = n
  BY DEF Text, Num, JSValue
<1>5. Bool(0) \in JSValue /\ Bool(1) \in JSValue
  BY DEF Bool, JSValue
<1>6. \A one \in {1, 10} : ToNumber(raw, one) \in Nat
  BY <1>2 DEF ToNumber
<1>7. ASSUME NEW one \in {1, 10}, NEW a \in Nat, NEW b \in Nat, IfNumberIn(raw, one, a, b) # Rejected
      PROVE  /\ IfNumberIn(raw, one, a, b) \in JSValue /\ IfNumberIn(raw, one, a, b).typeof = "number"
             /\ IfNumberIn(raw, one, a, b).n \in a..b
  <2>1. IfNumberIn(raw, one, a, b) = Num(ToNumber(raw, one)) /\ ToNumber(raw, one) \in a..b
    BY <1>7 DEF IfNumberIn
  <2> QED BY <1>4, <1>6, <2>1
<1>8. IfText(raw) # Rejected => IfText(raw) = Text(1)
  BY DEF IfText
<1>9. CASE q.type = "yes_no"
  <2>1. v \in {Bool(0), Bool(1)}
    BY <1>3, <1>9 DEF ValidateAnswerValue
  <2> QED BY <1>5, <1>9, <2>1 DEF Fits, q
<1>10. CASE q.type = "scale"
  <2>1. v = IfNumberIn(raw, 1, q.scaleMin, q.scaleMax)
    BY <1>10 DEF ValidateAnswerValue
  <2> HIDE DEF v
  <2>2. v \in JSValue /\ v.typeof = "number" /\ v.n \in q.scaleMin..q.scaleMax
    BY <1>1, <1>3, <1>7, <2>1
  <2>3. Fits(v, q)
    BY <1>10, <2>2 DEF Fits
  <2> QED BY <2>2, <2>3 DEF v, q
<1>11. CASE q.type = "urgency"
  <2>1. v = IfNumberIn(raw, 10, 0, 10)
    BY <1>11 DEF ValidateAnswerValue
  <2> HIDE DEF v
  <2>2. v \in JSValue /\ v.typeof = "number" /\ v.n \in 0..10
    BY <1>1, <1>3, <1>7, <2>1
  <2>3. Fits(v, q)
    BY <1>11, <2>2 DEF Fits
  <2> QED BY <2>2, <2>3 DEF v, q
<1>12. CASE q.type = "multiple_choice"
  <2>1. v \in q.options
    BY <1>3, <1>12 DEF ValidateAnswerValue
  <2> HIDE DEF v
  <2>2. Fits(v, q)
    BY <1>12, <2>1 DEF Fits
  <2> QED BY <1>1, <2>1, <2>2 DEF v, q
<1>13. CASE q.type = "budget"
  <2>1. v = Num(raw.n) \/ v = Text(1)
    BY <1>3, <1>8, <1>13 DEF ValidateAnswerValue
  <2> HIDE DEF v
  <2>2. v \in JSValue /\ v.typeof \in {"number", "string"}
    BY <1>2, <1>4, <2>1
  <2>3. Fits(v, q)
    BY <1>13, <2>2 DEF Fits
  <2> QED BY <2>2, <2>3 DEF v, q
<1>14. CASE q.type \in {"email", "phone", "datetime", "free_text"}
  <2>1. v = Text(1)
    BY <1>3, <1>8, <1>14 DEF ValidateAnswerValue
  <2> HIDE DEF v
  <2>2. Fits(v, q)
    BY <1>14, <2>1 DEF Fits
  <2> QED BY <1>4, <2>1, <2>2 DEF v, q
<1> QED BY <1>1, <1>9, <1>10, <1>11, <1>12, <1>13, <1>14 DEF QuestionTypes

LEMMA InitEvaluation == EvaluationInit => EvaluationTypeOK
<1> SUFFICES ASSUME EvaluationInit PROVE EvaluationTypeOK
  OBVIOUS
<1>1. callerId \in BOOLEAN /\ answers = NoAnswers /\ used = Silence /\ date = NoDate
  BY DEF EvaluationInit
<1>2. answers \in AnswerMap /\ \A k \in Keys : ~IsAnswered(answers, k)
  BY <1>1, NoAnswersType DEF NoAnswers, IsAnswered
<1>3. used \in CallUsage /\ used.seconds <= MaxSeconds
  BY <1>1, EvaluationAssumption DEF Silence, CallUsage
<1> QED BY <1>1, <1>2, <1>3 DEF EvaluationTypeOK

LEMMA NextEvaluation == EvaluationTypeOK /\ [EvaluationNext]_evaluationVars => EvaluationTypeOK'
<1>1. ASSUME EvaluationTypeOK, UNCHANGED evaluationVars PROVE EvaluationTypeOK'
  BY <1>1 DEF evaluationVars, EvaluationTypeOK, IsAnswered
<1>2. ASSUME EvaluationTypeOK, NEW k \in DOMAIN Questionnaire, NEW raw \in RawValues, SaveAnswer(k, raw)
      PROVE  EvaluationTypeOK'
  <2> DEFINE v == ValidateAnswerValue(Questionnaire[k], raw)
  <2>1. answers' = [answers EXCEPT ![k] = v] /\ UNCHANGED <<callerId, used, date>>
    BY <1>2 DEF SaveAnswer
  <2>2. v \in JSValue /\ Fits(v, Questionnaire[k])
    BY <1>2, EvaluationAssumption, ValidatedFits DEF SaveAnswer
  <2> HIDE DEF v
  <2>3. k \in Keys
    BY QuestionTyped
  <2>4. answers' \in AnswerMap
    BY <1>2, <2>1, <2>2 DEF EvaluationTypeOK, AnswerMap
  <2>5. answers'[k] = v /\ \A j \in Keys : j # k => answers'[j] = answers[j]
    BY <1>2, <2>1, <2>3 DEF EvaluationTypeOK, AnswerMap
  <2>6. ASSUME NEW j \in Keys, IsAnswered(answers', j)
        PROVE  j \in DOMAIN Questionnaire /\ Fits(answers'[j], Questionnaire[j])
    <3>1. CASE j = k
      BY <2>2, <2>5, <3>1
    <3>2. CASE j # k
      <4>1. IsAnswered(answers, j) /\ answers'[j] = answers[j]
        BY <2>5, <2>6, <3>2 DEF IsAnswered
      <4> QED BY <1>2, <4>1 DEF EvaluationTypeOK
    <3> QED BY <3>1, <3>2
  <2> QED BY <1>2, <2>1, <2>4, <2>6 DEF EvaluationTypeOK
<1>3. ASSUME EvaluationTypeOK, NEW d \in Dates, SaveDate(d)
      PROVE  EvaluationTypeOK'
  BY <1>3 DEF EvaluationTypeOK, SaveDate, IsAnswered
<1>4. ASSUME EvaluationTypeOK, NEW u \in Talks, Talk(u)
      PROVE  EvaluationTypeOK'
  <2>1. u \in CallUsage /\ used \in CallUsage
    BY <1>4, EvaluationAssumption DEF EvaluationTypeOK
  <2>2. used' \in CallUsage
    BY <1>4, <2>1 DEF Talk, CallUsage
  <2>3. used'.seconds <= MaxSeconds
    BY <1>4 DEF Talk
  <2>4. UNCHANGED <<callerId, answers, date>>
    BY <1>4 DEF Talk
  <2> QED BY <1>4, <2>2, <2>3, <2>4 DEF EvaluationTypeOK, IsAnswered
<1> QED BY <1>1, <1>2, <1>3, <1>4 DEF EvaluationNext

\* What the end of a call finds has its type: every answer that was stored fits its
\* question, whatever the model passed to save_answer (validateAnswerValue).
THEOREM EvaluationTypeCorrect == EvaluationSpec => []EvaluationTypeOK
BY InitEvaluation, NextEvaluation, PTL DEF EvaluationSpec

\* Of some questions, one comes first.
LEMMA FirstQuestion ==
  ASSUME NEW ks, ks \subseteq DOMAIN Questionnaire, ks # {}
  PROVE  First(ks) \in ks
<1> DEFINE orders == {Questionnaire[k].order : k \in ks}
<1>1. orders \subseteq Nat /\ orders # {}
  BY QuestionTyped
<1>2. PICK n \in orders : \A m \in orders : n <= m
  <2> HIDE DEF orders
  <2> QED BY <1>1, EarliestExists
<1>3. \E k \in ks : \A j \in ks : Questionnaire[k].order <= Questionnaire[j].order
  BY <1>2
<1> QED BY <1>3 DEF First

\* One more answer: of questions it belongs to it is the only one, of others it changes nothing.
LEMMA FindMoves ==
  ASSUME NEW k \in DOMAIN Questionnaire, NEW before, NEW after, NEW ks, ks \subseteq DOMAIN Questionnaire,
         ~IsAnswered(before, k), IsAnswered(after, k),
         \A j \in DOMAIN Questionnaire : j # k => after[j] = before[j],
         k \in ks => AnsweredIn(ks, before) = {}
  PROVE  /\ k \in ks => Find(ks, before) = Undefined /\ Find(ks, after) = after[k]
         /\ k \notin ks => Find(ks, after) = Find(ks, before)
<1>1. \A j \in ks : j # k => (IsAnswered(after, j) <=> IsAnswered(before, j))
  BY DEF IsAnswered
<1>2. ASSUME k \in ks
      PROVE  Find(ks, before) = Undefined /\ Find(ks, after) = after[k]
  <2>1. AnsweredIn(ks, after) = {k}
    BY <1>1, <1>2 DEF AnsweredIn
  <2>2. First({k}) = k
    <3>1. First({k}) \in {k}
      BY FirstQuestion
    <3> QED BY <3>1
  <2> QED BY <1>2, <2>1, <2>2 DEF Find
<1>3. ASSUME k \notin ks
      PROVE  Find(ks, after) = Find(ks, before)
  <2>1. AnsweredIn(ks, after) = AnsweredIn(ks, before)
    BY <1>1, <1>3 DEF AnsweredIn
  <2>2. CASE AnsweredIn(ks, before) = {}
    BY <2>1, <2>2 DEF Find
  <2>3. CASE AnsweredIn(ks, before) # {}
    <3>1. AnsweredIn(ks, before) \subseteq ks
      BY DEF AnsweredIn
    <3>2. First(AnsweredIn(ks, before)) \in ks
      BY <2>3, <3>1, FirstQuestion
    <3>3. after[First(AnsweredIn(ks, before))] = before[First(AnsweredIn(ks, before))]
      BY <1>3, <3>2
    <3> QED BY <2>1, <2>3, <3>3 DEF Find
  <2> QED BY <2>2, <2>3
<1> QED BY <1>2, <1>3

\* What a question is answered with is a value.
LEMMA FindType ==
  ASSUME NEW given \in AnswerMap, NEW ks, ks \subseteq DOMAIN Questionnaire
  PROVE  Find(ks, given) \in JSValue
<1>1. CASE AnsweredIn(ks, given) = {}
  BY <1>1, JSValueType DEF Find
<1>2. CASE AnsweredIn(ks, given) # {}
  <2>1. First(AnsweredIn(ks, given)) \in AnsweredIn(ks, given)
    BY <1>2, FirstQuestion DEF AnsweredIn
  <2>2. First(AnsweredIn(ks, given)) \in Keys
    BY <2>1, QuestionTyped DEF AnsweredIn
  <2> QED BY <1>2, <2>2 DEF Find, AnswerMap
<1> QED BY <1>1, <1>2

LEMMA SignalsType ==
  ASSUME NEW given \in AnswerMap, NEW id \in BOOLEAN
  PROVE  Signals(given, id) \in LeadSignals
<1>1. \A type : OfType(type) \subseteq DOMAIN Questionnaire
  BY DEF OfType
<1>2. \A meaning : Named(meaning) \subseteq DOMAIN Questionnaire
  BY DEF Named
<1> DEFINE urgency == Find(OfType("urgency"), given)
           phone == Find(OfType("phone"), given)
<1>3. urgency \in JSValue
  BY <1>1, FindType
<1>4. \A v : Truthy(v) \in BOOLEAN
  BY DEF Truthy
<1>5. (IF urgency.typeof = "number" THEN urgency.n ELSE Unknown) \in Nat \cup {Unknown}
  <2> HIDE DEF urgency
  <2> QED BY <1>3 DEF JSValue
<1>6. (IF phone = Undefined THEN id ELSE Truthy(phone)) \in BOOLEAN
  <2> HIDE DEF phone
  <2> QED BY <1>4
<1>7. \A ks : (AnsweredIn(ks, given) # {}) \in BOOLEAN
  OBVIOUS
<1> QED BY <1>4, <1>5, <1>6, <1>7 DEF Signals, LeadSignals

\* No signal is lost.
NotLess(s, t) ==
  /\ s.email => t.email
  /\ s.phone => t.phone
  /\ s.name => t.name
  /\ s.urgency <= t.urgency
  /\ s.callback => t.callback
  /\ s.budget => t.budget
  /\ s.need => t.need

LEMMA SignalsGrow ==
  ASSUME EvaluationTypeOK, EvaluationTypeOK', NEW k \in DOMAIN Questionnaire, AnswersNew(k),
         \A j \in DOMAIN Questionnaire : j # k => answers'[j] = answers[j]
  PROVE  NotLess(Signals(answers, callerId), Signals(answers', callerId))
<1>1. /\ answers \in AnswerMap /\ answers' \in AnswerMap /\ callerId \in BOOLEAN
      /\ ~IsAnswered(answers, k) /\ IsAnswered(answers', k)
      /\ Fits(answers'[k], Questionnaire[k])
  BY QuestionTyped DEF EvaluationTypeOK, AnswersNew, IsAnswered
<1>2. ASSUME NEW j \in DOMAIN Questionnaire, IsAnswered(answers, j)
      PROVE  Bears(j) \cap Bears(k) = {}
  BY <1>2 DEF AnswersNew
<1>3. ASSUME NEW type \in {"email", "phone", "urgency", "budget"}, k \in OfType(type)
      PROVE  AnsweredIn(OfType(type), answers) = {}
  <2>1. type \in Bears(k)
    BY <1>3 DEF OfType, Bears
  <2>2. ASSUME NEW j \in AnsweredIn(OfType(type), answers) PROVE FALSE
    <3>1. j \in DOMAIN Questionnaire /\ IsAnswered(answers, j) /\ type \in Bears(j)
      BY <2>2 DEF AnsweredIn, OfType, Bears
    <3> QED BY <1>2, <2>1, <3>1
  <2> QED BY <2>2
<1>4. ASSUME NEW meaning, k \in Named(meaning)
      PROVE  AnsweredIn(Named(meaning), answers) = {}
  <2>1. meaning \in Bears(k)
    BY <1>4 DEF Named, Bears
  <2>2. ASSUME NEW j \in AnsweredIn(Named(meaning), answers) PROVE FALSE
    <3>1. j \in DOMAIN Questionnaire /\ IsAnswered(answers, j) /\ meaning \in Bears(j)
      BY <2>2 DEF AnsweredIn, Named, Bears
    <3> QED BY <1>2, <2>1, <3>1
  <2> QED BY <2>2
<1>5. ASSUME NEW ks, ks \subseteq DOMAIN Questionnaire, k \in ks => AnsweredIn(ks, answers) = {}
      PROVE  /\ k \in ks => Find(ks, answers) = Undefined /\ Find(ks, answers') = answers'[k]
             /\ k \notin ks => Find(ks, answers') = Find(ks, answers)
             /\ AnsweredIn(ks, answers) # {} => AnsweredIn(ks, answers') # {}
             /\ Truthy(Find(ks, answers)) => Truthy(Find(ks, answers'))
  <2>1. /\ k \in ks => Find(ks, answers) = Undefined /\ Find(ks, answers') = answers'[k]
        /\ k \notin ks => Find(ks, answers') = Find(ks, answers)
    BY <1>1, <1>5, FindMoves
  <2>2. ASSUME NEW j \in AnsweredIn(ks, answers) PROVE j \in AnsweredIn(ks, answers')
    BY <1>1, <1>5, <2>2 DEF AnsweredIn, IsAnswered
  <2>3. ~Truthy(Undefined)
    BY DEF Truthy, Undefined
  <2> QED BY <2>1, <2>2, <2>3
<1>6. \A type \in {"email", "phone", "urgency", "budget"} :
        /\ OfType(type) \subseteq DOMAIN Questionnaire
        /\ k \in OfType(type) => AnsweredIn(OfType(type), answers) = {}
  BY <1>3 DEF OfType
<1>7. \A meaning : /\ Named(meaning) \subseteq DOMAIN Questionnaire
                   /\ k \in Named(meaning) => AnsweredIn(Named(meaning), answers) = {}
  BY <1>4 DEF Named
<1> DEFINE phone(given) == Find(OfType("phone"), given)
           urgency(given) == Find(OfType("urgency"), given)
           Called(given) == IF phone(given) = Undefined THEN callerId ELSE Truthy(phone(given))
           Haste10(given) == IF urgency(given).typeof = "number" THEN urgency(given).n ELSE Unknown
<1>8. Called(answers) => Called(answers')
  <2>1. CASE k \in OfType("phone")
    <3>1. phone(answers) = Undefined /\ phone(answers') = answers'[k]
      BY <1>5, <1>6, <2>1
    <3>2. answers'[k] = Text(1)
      BY <1>1, <2>1 DEF OfType, Fits
    <3>3. Truthy(Text(1)) /\ Text(1) # Undefined
      BY DEF Truthy, Text, Undefined
    <3> QED BY <3>1, <3>2, <3>3
  <2>2. CASE k \notin OfType("phone")
    <3>1. phone(answers') = phone(answers)
      BY <1>5, <1>6, <2>2
    <3> QED BY <3>1
  <2> QED BY <2>1, <2>2
<1>9. Haste10(answers) <= Haste10(answers')
  <2>1. CASE k \in OfType("urgency")
    <3>1. urgency(answers) = Undefined /\ urgency(answers') = answers'[k]
      BY <1>5, <1>6, <2>1
    <3>2. answers'[k].typeof = "number" /\ answers'[k].n \in 0..10
      BY <1>1, <2>1 DEF OfType, Fits
    <3>3. Undefined.typeof # "number"
      BY DEF Undefined
    <3> QED BY <3>1, <3>2, <3>3 DEF Unknown
  <2>2. CASE k \notin OfType("urgency")
    <3>1. urgency(answers') = urgency(answers)
      BY <1>5, <1>6, <2>2
    <3>2. urgency(answers) \in JSValue
      BY <1>1, <1>6, FindType
    <3>3. Haste10(answers) \in Int
      <4> HIDE DEF urgency
      <4> QED BY <3>2 DEF JSValue, Unknown
    <3>4. Haste10(answers') = Haste10(answers)
      BY <3>1
    <3> HIDE DEF Haste10
    <3> QED BY <3>3, <3>4
  <2> QED BY <2>1, <2>2
<1>10. /\ Truthy(Find(OfType("email"), answers)) => Truthy(Find(OfType("email"), answers'))
       /\ AnsweredIn(OfType("budget"), answers) # {} => AnsweredIn(OfType("budget"), answers') # {}
  BY <1>5, <1>6
<1>11. /\ Truthy(Find(Named("name"), answers)) => Truthy(Find(Named("name"), answers'))
       /\ Truthy(Find(Named("concern"), answers)) => Truthy(Find(Named("concern"), answers'))
       /\ AnsweredIn(Named("callback"), answers) # {} => AnsweredIn(Named("callback"), answers') # {}
  BY <1>5, <1>7
<1>12. ASSUME NEW given \in {answers, answers'}
       PROVE  /\ Signals(given, callerId).email = Truthy(Find(OfType("email"), given))
              /\ Signals(given, callerId).phone = Called(given)
              /\ Signals(given, callerId).name = Truthy(Find(Named("name"), given))
              /\ Signals(given, callerId).urgency = Haste10(given)
              /\ Signals(given, callerId).callback = (AnsweredIn(Named("callback"), given) # {})
              /\ Signals(given, callerId).budget = (AnsweredIn(OfType("budget"), given) # {})
              /\ Signals(given, callerId).need = Truthy(Find(Named("concern"), given))
  BY DEF Signals
<1> HIDE DEF Called, Haste10
<1> QED BY <1>8, <1>9, <1>10, <1>11, <1>12 DEF NotLess

LEMMA PointsGrow ==
  ASSUME NEW s \in BOOLEAN, NEW t \in BOOLEAN, s => t, NEW weight \in Nat
  PROVE  Points(s, weight) \in Nat /\ Points(t, weight) \in Nat /\ Points(s, weight) <= Points(t, weight)
BY DEF Points

LEMMA UrgencyPointsGrow ==
  ASSUME NEW s \in Nat \cup {Unknown}, NEW t \in Nat \cup {Unknown}, s <= t
  PROVE  UrgencyPoints(s) \in Nat /\ UrgencyPoints(t) \in Nat /\ UrgencyPoints(s) <= UrgencyPoints(t)
<1>1. \A n \in 1..9 : Rounded(25 * n, 10) = (50 * n + 10) \div 20
  BY DEF Rounded
<1>2. \A m, n \in 1..9 : m <= n => (50 * m + 10) \div 20 <= (50 * n + 10) \div 20
  OBVIOUS
<1>3. \A n \in 1..9 : (50 * n + 10) \div 20 \in 0..25
  OBVIOUS
<1>4. \A n \in Nat \cup {Unknown} :
        \/ n <= 0 /\ UrgencyPoints(n) = 0
        \/ n \in 1..9 /\ UrgencyPoints(n) = Rounded(25 * n, 10)
        \/ n >= 10 /\ UrgencyPoints(n) = 25
  BY DEF UrgencyPoints, Unknown
<1>5. s \in Int /\ t \in Int
  BY DEF Unknown
<1> QED BY <1>1, <1>2, <1>3, <1>4, <1>5

\* A lead of which more is known is scored, ranked and hurried at least as high.
LEMMA LeadGrows ==
  ASSUME NEW s \in LeadSignals, NEW t \in LeadSignals, NotLess(s, t)
  PROVE  /\ Score(t) >= Score(s)
         /\ Rank(ScoreLead(t)) >= Rank(ScoreLead(s))
         /\ Haste(RecommendNextAction(t)) >= Haste(RecommendNextAction(s))
<1>1. \A r \in {s, t} :
        /\ r.email \in BOOLEAN /\ r.phone \in BOOLEAN /\ r.name \in BOOLEAN /\ r.callback \in BOOLEAN
        /\ r.budget \in BOOLEAN /\ r.need \in BOOLEAN /\ r.urgency \in Nat \cup {Unknown}
  BY DEF LeadSignals
<1>2. /\ Points(s.need, 20) \in Nat /\ Points(t.need, 20) \in Nat /\ Points(s.need, 20) <= Points(t.need, 20)
      /\ Points(s.email, 15) \in Nat /\ Points(t.email, 15) \in Nat /\ Points(s.email, 15) <= Points(t.email, 15)
      /\ Points(s.phone, 15) \in Nat /\ Points(t.phone, 15) \in Nat /\ Points(s.phone, 15) <= Points(t.phone, 15)
      /\ Points(s.name, 10) \in Nat /\ Points(t.name, 10) \in Nat /\ Points(s.name, 10) <= Points(t.name, 10)
  BY <1>1, PointsGrow DEF NotLess
<1>3. /\ Points(s.callback, 15) \in Nat /\ Points(t.callback, 15) \in Nat
      /\ Points(s.callback, 15) <= Points(t.callback, 15)
      /\ Points(s.budget, 10) \in Nat /\ Points(t.budget, 10) \in Nat
      /\ Points(s.budget, 10) <= Points(t.budget, 10)
  BY <1>1, PointsGrow DEF NotLess
<1>4. /\ UrgencyPoints(s.urgency) \in Nat /\ UrgencyPoints(t.urgency) \in Nat
      /\ UrgencyPoints(s.urgency) <= UrgencyPoints(t.urgency)
  BY <1>1, UrgencyPointsGrow DEF NotLess
<1>5. Score(t) >= Score(s) /\ Score(t) \in Nat /\ Score(s) \in Nat
  BY <1>2, <1>3, <1>4 DEF Score
<1>6. s.urgency \in Int /\ t.urgency \in Int /\ s.urgency <= t.urgency
  BY <1>1 DEF Unknown, NotLess
<1>7. ContactComplete(s) => ContactComplete(t)
  BY DEF ContactComplete, NotLess
<1>8. /\ (s.need /\ ContactComplete(s) /\ (s.urgency >= 6 \/ s.callback))
           => (t.need /\ ContactComplete(t) /\ (t.urgency >= 6 \/ t.callback))
      /\ (s.need \/ (ContactComplete(s) /\ Score(s) >= 30)) => (t.need \/ (ContactComplete(t) /\ Score(t) >= 30))
  <2>1. (s.need => t.need) /\ (s.callback => t.callback)
    BY DEF NotLess
  <2> QED BY <1>5, <1>6, <1>7, <2>1
<1>9. \/ ScoreLead(s) = "C" /\ ScoreLead(t) \in {"A", "B", "C"}
      \/ ScoreLead(s) = "B" /\ ScoreLead(t) \in {"A", "B"}
      \/ ScoreLead(s) = "A" /\ ScoreLead(t) = "A"
  BY <1>8 DEF ScoreLead
<1>10. Rank("A") = 3 /\ Rank("B") = 2 /\ Rank("C") = 1
  BY DEF Rank
<1>11. ASSUME NEW r \in {s, t}
       PROVE  /\ ScoreLead(r) = "A" /\ r.urgency >= 8 => Haste(RecommendNextAction(r)) = 4
              /\ ScoreLead(r) = "A" /\ ~(r.urgency >= 8) => Haste(RecommendNextAction(r)) = 3
              /\ ScoreLead(r) = "B" => Haste(RecommendNextAction(r)) = 2
              /\ ScoreLead(r) = "C" => Haste(RecommendNextAction(r)) = 1
  <2>1. /\ ScoreLead(r) = "A" /\ r.urgency >= 8 => RecommendNextAction(r) = "today"
        /\ ScoreLead(r) = "A" /\ ~(r.urgency >= 8) => RecommendNextAction(r) = "24 hours"
        /\ ScoreLead(r) = "B" => RecommendNextAction(r) = "3 days"
        /\ ScoreLead(r) = "C" => RecommendNextAction(r) = "no hurry"
    BY DEF RecommendNextAction
  <2>2. Haste("today") = 4 /\ Haste("24 hours") = 3 /\ Haste("3 days") = 2 /\ Haste("no hurry") = 1
    BY DEF Haste
  <2> QED BY <2>1, <2>2
<1>12. s.urgency >= 8 => t.urgency >= 8
  BY <1>6
<1>13. Rank(ScoreLead(t)) >= Rank(ScoreLead(s))
  BY <1>9, <1>10
<1>14. Haste(RecommendNextAction(t)) >= Haste(RecommendNextAction(s))
  <2> DEFINE before == Haste(RecommendNextAction(s))
             after == Haste(RecommendNextAction(t))
  <2>1. /\ ScoreLead(s) = "A" => before \in {3, 4} /\ (s.urgency >= 8 <=> before = 4)
        /\ ScoreLead(s) = "B" => before = 2
        /\ ScoreLead(s) = "C" => before = 1
    BY <1>11
  <2>2. /\ ScoreLead(t) = "A" => after \in {3, 4} /\ (t.urgency >= 8 <=> after = 4)
        /\ ScoreLead(t) = "B" => after = 2
        /\ ScoreLead(t) = "C" => after = 1
    BY <1>11
  <2> HIDE DEF before, after
  <2>3. after >= before
    BY <1>9, <1>12, <2>1, <2>2
  <2> QED BY <2>3 DEF before, after
<1> QED BY <1>5, <1>13, <1>14

LEMMA OneAnswerMoves ==
  ASSUME EvaluationTypeOK, EvaluationTypeOK', [EvaluationNext]_evaluationVars, answers' # answers
  PROVE  LeadNeverDrops
<1>1. PICK k \in DOMAIN Questionnaire, raw \in RawValues : SaveAnswer(k, raw)
  BY DEF EvaluationNext, evaluationVars, SaveDate, Talk
<1>2. \A j \in DOMAIN Questionnaire : j # k => answers'[j] = answers[j]
  BY <1>1, QuestionTyped DEF EvaluationTypeOK, AnswerMap, SaveAnswer
<1>3. callerId' = callerId /\ callerId \in BOOLEAN /\ answers \in AnswerMap /\ answers' \in AnswerMap
  BY <1>1 DEF SaveAnswer, EvaluationTypeOK
<1>4. \A j \in DOMAIN Questionnaire : AnswersNew(j) => j = k
  BY <1>2 DEF AnswersNew, IsAnswered
<1> SUFFICES ASSUME AnswersNew(k)
             PROVE  /\ Score(Lead') >= Score(Lead)
                    /\ Rank(ScoreLead(Lead')) >= Rank(ScoreLead(Lead))
                    /\ Haste(RecommendNextAction(Lead')) >= Haste(RecommendNextAction(Lead))
  BY <1>4, Zenon DEF LeadNeverDrops
<1>5. Lead = Signals(answers, callerId) /\ Lead' = Signals(answers', callerId)
  BY <1>3 DEF Lead, Signals
<1>6. Lead \in LeadSignals /\ Lead' \in LeadSignals
  BY <1>3, <1>5, SignalsType
<1>7. NotLess(Lead, Lead')
  BY <1>2, <1>5, SignalsGrow
<1> QED BY <1>6, <1>7, LeadGrows

---------------------------------------------------------------------------
LEMMA ProductGrows ==
  ASSUME NEW a \in Nat, NEW b \in Nat, a <= b, NEW rate \in Nat
  PROVE  a * rate \in Nat /\ b * rate \in Nat /\ a * rate <= b * rate
<1>1. a * rate \in Nat /\ b * rate \in Nat /\ (b - a) * rate \in Nat
  OBVIOUS
<1>2. b * rate = a * rate + (b - a) * rate
  OBVIOUS
<1> QED BY <1>1, <1>2

LEMMA RoundedGrows ==
  ASSUME NEW a \in Nat, NEW b \in Nat, a <= b, NEW n \in {60, 100, 1000}
  PROVE  Rounded(a, n) \in Nat /\ Rounded(b, n) \in Nat /\ Rounded(a, n) <= Rounded(b, n)
<1>1. CASE n = 60
  BY <1>1 DEF Rounded
<1>2. CASE n = 100
  BY <1>2 DEF Rounded
<1>3. CASE n = 1000
  BY <1>3 DEF Rounded
<1> QED BY <1>1, <1>2, <1>3

\* The longer call with more tokens is not the cheaper one.
LEMMA CostGrows ==
  ASSUME NEW u \in CallUsage, NEW v \in CallUsage,
         u.seconds <= v.seconds, u.input <= v.input, u.output <= v.output
  PROVE  /\ CalculateCallCost(u) \in Nat /\ CalculateCallCost(v) \in Nat /\ ProviderSubtotal(v) \in Nat
         /\ CalculateCallCost(u) <= CalculateCallCost(v) /\ ProviderSubtotal(v) <= CalculateCallCost(v)
<1>1. /\ u.seconds \in Nat /\ v.seconds \in Nat /\ u.input \in Nat /\ v.input \in Nat
      /\ u.output \in Nat /\ v.output \in Nat
  BY DEF CallUsage
<1>2. /\ Rates.telephony \in Nat /\ Rates.stt \in Nat /\ Rates.tts \in Nat
      /\ Rates.input \in Nat /\ Rates.output \in Nat /\ Rates.markup \in Int
  BY EvaluationAssumption DEF RateType
<1>3. \A n \in Nat : NotNegative(n) = n
  BY DEF NotNegative
<1>4. ASSUME NEW rate \in Nat
      PROVE  PerMinute(u, rate) \in Nat /\ PerMinute(v, rate) \in Nat /\ PerMinute(u, rate) <= PerMinute(v, rate)
  <2>1. u.seconds * rate \in Nat /\ v.seconds * rate \in Nat /\ u.seconds * rate <= v.seconds * rate
    BY <1>1, ProductGrows
  <2>2. PerMinute(u, rate) = Rounded(u.seconds * rate, 60) /\ PerMinute(v, rate) = Rounded(v.seconds * rate, 60)
    BY <1>1, <1>3 DEF PerMinute
  <2> DEFINE x == u.seconds * rate
             y == v.seconds * rate
  <2>3. x \in Nat /\ y \in Nat /\ x <= y
    BY <2>1
  <2> HIDE DEF x, y
  <2>4. Rounded(x, 60) \in Nat /\ Rounded(y, 60) \in Nat /\ Rounded(x, 60) <= Rounded(y, 60)
    BY <2>3, RoundedGrows
  <2> QED BY <2>2, <2>4, Zenon DEF x, y
<1>5. LlmCost(u) \in Nat /\ LlmCost(v) \in Nat /\ LlmCost(u) <= LlmCost(v)
  <2> DEFINE tokens(w) == w.input * Rates.input + w.output * Rates.output
  <2>1. tokens(u) \in Nat /\ tokens(v) \in Nat /\ tokens(u) <= tokens(v)
    <3>1. u.input * Rates.input \in Nat /\ v.input * Rates.input \in Nat
          /\ u.input * Rates.input <= v.input * Rates.input
      BY <1>1, <1>2, ProductGrows
    <3>2. u.output * Rates.output \in Nat /\ v.output * Rates.output \in Nat
          /\ u.output * Rates.output <= v.output * Rates.output
      BY <1>1, <1>2, ProductGrows
    <3> QED BY <3>1, <3>2
  <2>2. LlmCost(u) = Rounded(tokens(u), 1000) /\ LlmCost(v) = Rounded(tokens(v), 1000)
    BY <1>1, <1>3 DEF LlmCost
  <2> HIDE DEF tokens
  <2> QED BY <2>1, <2>2, RoundedGrows
<1>6. /\ ProviderSubtotal(u) \in Nat /\ ProviderSubtotal(v) \in Nat
      /\ ProviderSubtotal(u) <= ProviderSubtotal(v)
  BY <1>2, <1>4, <1>5 DEF ProviderSubtotal
<1> DEFINE markup == NotNegative(Rates.markup)
           share(w) == Rounded(ProviderSubtotal(w) * markup, 100)
<1>7. share(u) \in Nat /\ share(v) \in Nat /\ share(u) <= share(v)
  <2>1. markup \in Nat
    BY <1>2 DEF NotNegative
  <2> HIDE DEF markup
  <2>2. /\ ProviderSubtotal(u) * markup \in Nat /\ ProviderSubtotal(v) * markup \in Nat
        /\ ProviderSubtotal(u) * markup <= ProviderSubtotal(v) * markup
    BY <1>6, <2>1, ProductGrows
  <2> QED BY <2>2, RoundedGrows
<1>8. CalculateCallCost(u) = ProviderSubtotal(u) + share(u) /\ CalculateCallCost(v) = ProviderSubtotal(v) + share(v)
  BY DEF CalculateCallCost
<1> HIDE DEF share
<1> QED BY <1>6, <1>7, <1>8

LEMMA TalkingMoves ==
  ASSUME EvaluationTypeOK, EvaluationTypeOK', [EvaluationNext]_evaluationVars, used' # used
  PROVE  CostNeverDrops
<1>1. PICK u \in Talks : Talk(u)
  BY DEF EvaluationNext, evaluationVars, SaveDate, SaveAnswer
<1>2. u \in CallUsage /\ used \in CallUsage /\ used' \in CallUsage
  BY EvaluationAssumption DEF EvaluationTypeOK
<1>3. used.seconds <= used'.seconds /\ used.input <= used'.input /\ used.output <= used'.output
  BY <1>1, <1>2 DEF Talk, CallUsage
<1>4. /\ CalculateCallCost(used) \in Nat /\ CalculateCallCost(used') \in Nat /\ ProviderSubtotal(used') \in Nat
      /\ CalculateCallCost(used) <= CalculateCallCost(used')
      /\ ProviderSubtotal(used') <= CalculateCallCost(used')
  BY <1>2, <1>3, CostGrows
<1> QED BY <1>4 DEF CostNeverDrops

---------------------------------------------------------------------------
LEMMA HourAndMinute ==
  ASSUME NEW day \in Nat, NEW hour \in Nat, NEW minute \in 0..59
  PROVE  /\ (hour * 60 + minute) \div 60 = hour
         /\ (day * 1440 + (hour * 60 + minute)) % 60 = minute
<1>1. day * 1440 + (hour * 60 + minute) = (24 * day + hour) * 60 + minute
  OBVIOUS
<1>2. \A n \in Nat : (n * 60 + minute) % 60 = minute /\ (n * 60 + minute) \div 60 = n
  OBVIOUS
<1>3. 24 * day + hour \in Nat
  OBVIOUS
<1> QED BY <1>1, <1>2, <1>3

\* A date that is understood is the one that was written.
LEMMA DateIsRead ==
  ASSUME NEW d \in Written, ParseGermanDateTime(d) # NoStart
  PROVE  LET draft == BuildAppointmentDraft(d) IN
         /\ draft.start \div 1440 = DaysBefore[d.month] + d.day - 1
         /\ d.minute < 60 => (draft.start % 1440) \div 60 = d.hour /\ draft.start % 60 = d.minute
         /\ draft.end = draft.start + 30
<1> DEFINE draft == BuildAppointmentDraft(d)
           day == DaysBefore[d.month] + d.day - 1
<1>1. d.day \in Nat /\ d.month \in Nat /\ d.hour \in Nat /\ d.minute \in Nat
  BY DEF Written
<1>2. d.month \in 1..12 /\ d.day \in 1..DaysOfMonth[d.month] /\ MinuteOfDay(d) < 1440
  BY DEF ParseGermanDateTime
<1>3. day \in Nat
  <2>1. \A m \in 1..12 : DaysBefore[m] \in Nat
    BY DEF DaysBefore
  <2>2. d.day >= 1
    BY <1>1, <1>2
  <2> QED BY <1>1, <1>2, <2>1, <2>2
<1>4. MinuteOfDay(d) = d.hour * 60 + d.minute /\ MinuteOfDay(d) \in 0..1439
  <2>1. MinuteOfDay(d) = d.hour * 60 + d.minute
    BY DEF MinuteOfDay
  <2>2. d.hour * 60 + d.minute \in Nat
    BY <1>1
  <2> QED BY <1>2, <2>1, <2>2
<1>5. draft.start = day * 1440 + MinuteOfDay(d)
  <2>1. ParseGermanDateTime(d) = day * 1440 + MinuteOfDay(d)
    BY <1>2 DEF ParseGermanDateTime
  <2> QED BY <2>1 DEF BuildAppointmentDraft, ParseDateValue
<1>6. draft.end = draft.start + 30
  BY DEF BuildAppointmentDraft
<1> DEFINE start == draft.start
<1>7. start = day * 1440 + MinuteOfDay(d)
  BY <1>5
<1> HIDE DEF day, start
<1>8. start \div 1440 = day /\ start % 1440 = MinuteOfDay(d)
  <2> DEFINE minute == MinuteOfDay(d)
             sum == day * 1440 + minute
  <2>1. minute \in 0..1439
    BY <1>4
  <2>2. start = sum
    BY <1>7
  <2> HIDE DEF minute
  <2>3. sum \div 1440 = day /\ sum % 1440 = minute
    BY <1>3, <2>1
  <2> HIDE DEF sum
  <2>4. start \div 1440 = day /\ start % 1440 = minute
    BY <2>2, <2>3
  <2> QED BY <2>4 DEF minute
<1>9. d.minute < 60 => (start % 1440) \div 60 = d.hour /\ start % 60 = d.minute
  <2> SUFFICES ASSUME d.minute < 60
               PROVE  (start % 1440) \div 60 = d.hour /\ start % 60 = d.minute
    OBVIOUS
  <2>1. d.minute \in 0..59
    BY <1>1
  <2>2. /\ (d.hour * 60 + d.minute) \div 60 = d.hour
        /\ (day * 1440 + (d.hour * 60 + d.minute)) % 60 = d.minute
    BY <1>1, <1>3, <2>1, HourAndMinute
  <2> QED BY <1>4, <1>7, <1>8, <2>2
<1> QED BY <1>6, <1>8, <1>9 DEF day, start

LEMMA DateMoves ==
  ASSUME [EvaluationNext]_evaluationVars, date' # date
  PROVE  DraftIsAsWritten'
<1>1. PICK d \in Dates : date' = d
  BY DEF EvaluationNext, evaluationVars, SaveDate, SaveAnswer, Talk
<1>2. d \in Written
  BY EvaluationAssumption
<1>3. ASSUME ParseGermanDateTime(d) # NoStart
      PROVE  /\ BuildAppointmentDraft(d).start \div 1440 = DaysBefore[d.month] + d.day - 1
             /\ d.minute < 60 => /\ (BuildAppointmentDraft(d).start % 1440) \div 60 = d.hour
                                 /\ BuildAppointmentDraft(d).start % 60 = d.minute
             /\ BuildAppointmentDraft(d).end = BuildAppointmentDraft(d).start + 30
  BY <1>2, <1>3, DateIsRead
<1>4. ASSUME ParseGermanDateTime(date') # NoStart
      PROVE  /\ BuildAppointmentDraft(date').start \div 1440 = DaysBefore[date'.month] + date'.day - 1
             /\ date'.minute < 60 => /\ (BuildAppointmentDraft(date').start % 1440) \div 60 = date'.hour
                                     /\ BuildAppointmentDraft(date').start % 60 = date'.minute
             /\ BuildAppointmentDraft(date').end = BuildAppointmentDraft(date').start + 30
  BY <1>1, <1>3, <1>4
<1> QED BY <1>4 DEF DraftIsAsWritten

\* A step of a call is fair in what it changes.
FairStep ==
  /\ answers' # answers => LeadNeverDrops
  /\ used' # used => CostNeverDrops
  /\ date' # date => DraftIsAsWritten'

\* Who gives one signal more is never served worse, no part of a call makes it cheaper, and a
\* German date is read as it is written, a minute above 59 carried (scoreLead,
\* calculateCallCost, parseDateValue): for every questionnaire, all prices and every length.
THEOREM EvaluationFair == EvaluationSpec => EvaluationIsFair
<1>1. EvaluationTypeOK /\ EvaluationTypeOK' /\ [EvaluationNext]_evaluationVars => [FairStep]_evaluationVars
  BY OneAnswerMoves, TalkingMoves, DateMoves DEF FairStep
<1>2. EvaluationSpec => [][FairStep]_evaluationVars
  BY <1>1, EvaluationTypeCorrect, PTL DEF EvaluationSpec
<1> QED BY <1>2 DEF EvaluationIsFair, FairStep

---------------------------------------------------------------------------
(***************************************************************************)
(* All the parts side by side.                                             *)
(***************************************************************************)

OperationsInv ==
  PoolInv /\ CalendarInv /\ BudgetInv /\ DialogueInv /\ SettingsInv /\ EvaluationTypeOK

\* Where one part moves, each part moves as it does alone or not at all.
LEMMA PartsMove ==
  ASSUME [MCNext]_<<focus, numberVars, calendarVars, budgetVars, dialogueVars, settingsVars, evaluationVars>>
  PROVE  /\ [NumbersNext]_numberVars /\ [CalendarNext]_calendarVars /\ [BudgetNext]_budgetVars
         /\ [DialogueNext]_dialogueVars /\ [SettingsNext]_settingsVars /\ [EvaluationNext]_evaluationVars
         /\ UNCHANGED focus
<1>1. CASE Only("numbers", NumbersNext /\ AtMostTwo',
                <<calendarVars, budgetVars, dialogueVars, settingsVars, evaluationVars>>)
  BY <1>1 DEF Only
<1>2. CASE Only("calendar", CalendarNext /\ OneUserStory',
                <<numberVars, budgetVars, dialogueVars, settingsVars, evaluationVars>>)
  BY <1>2 DEF Only
<1>3. CASE Only("budget", BudgetNext,
                <<numberVars, calendarVars, dialogueVars, settingsVars, evaluationVars>>)
  BY <1>3 DEF Only
<1>4. CASE Only("dialogue", DialogueNext,
                <<numberVars, calendarVars, budgetVars, settingsVars, evaluationVars>>)
  BY <1>4 DEF Only
<1>5. CASE Only("settings", SettingsNext,
                <<numberVars, calendarVars, budgetVars, dialogueVars, evaluationVars>>)
  BY <1>5 DEF Only
<1>6. CASE Only("evaluation", EvaluationNext /\ OneAspect',
                <<numberVars, calendarVars, budgetVars, dialogueVars, settingsVars>>)
  BY <1>6 DEF Only
<1>7. CASE UNCHANGED <<focus, numberVars, calendarVars, budgetVars, dialogueVars, settingsVars, evaluationVars>>
  BY <1>7
<1> QED BY <1>1, <1>2, <1>3, <1>4, <1>5, <1>6, <1>7 DEF MCNext

\* Every part keeps its inductive invariant, so the part that moves has its types: the
\* numbers, the bookings, the budget, the dialogue, the settings and what the end of a
\* call finds.
THEOREM OperationsTypeCorrect == MCSpec => []OperationsTypeOK
<1>1. MCInit => OperationsInv
  BY PoolInvInit, CalendarInvInit, InitBudget, InitDialogue, InitSettings, InitEvaluation
     DEF MCInit, OperationsInv
<1>2. OperationsInv
      /\ [MCNext]_<<focus, numberVars, calendarVars, budgetVars, dialogueVars, settingsVars, evaluationVars>>
      => OperationsInv'
  BY PartsMove, PoolInvStep, CalendarInvStep, NextBudget, NextDialogue, NextSettings, NextEvaluation
     DEF OperationsInv
<1>3. OperationsInv => OperationsTypeOK
  BY SettingsTypes DEF OperationsInv, OperationsTypeOK, PoolInv, CalendarInv, BudgetInv, DialogueInv
<1> QED BY <1>1, <1>2, <1>3, PTL DEF MCSpec
=============================================================================
