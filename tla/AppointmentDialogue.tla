------------------------ MODULE AppointmentDialogue ------------------------
(***************************************************************************)
(* How a caller's words become an appointment: one date question of a call *)
(* (resolveDatetimeAnswer), with the phrases understood                    *)
(* (shared/datetime-nl.ts), the tenant's time zone (lib/timezone.ts) and   *)
(* the free slots offered instead of a busy one.                           *)
(*                                                                         *)
(* An instant is a number of quarters of an hour; a wall clock reading is  *)
(* the instant it would be in UTC.  Days are counted, day 0 is a Sunday.   *)
(***************************************************************************)
EXTENDS CalendarAvailability, Integers, FiniteSets

CONSTANTS
  CallTimes,   \* instants a call may begin at
  TimeZones,   \* offsets of a zone, and when it changes from one to the other
  BusySets,    \* what may be in the calendar
  Phrases,     \* what a caller may say
  MaxWait      \* bound: quarters of an hour that pass in the call

NoInstant == 0
Unsaid == -1

BusyInterval == [start : Nat, end : Nat]

\* What is understood of a phrase: "date" n, "in" n days ("heute" in 0, "morgen" in
\* 1), "weekday" n or "none"; the time said, or a number before it that is left of
\* an incomplete date, and is taken for the hour.
PhraseType == [kind : {"date", "in", "weekday", "none"}, n : Nat,
               time : Nat \cup {Unsaid}, number : Nat \cup {Unsaid}]
Phrase(kind, n, time, number) == [kind |-> kind, n |-> n, time |-> time, number |-> number]

ASSUME DialogueAssumption ==
  /\ CallTimes \subseteq Nat \ {NoInstant} /\ MaxWait \in Nat
  /\ TimeZones \subseteq [before : Int, after : Int, change : Int]
  /\ BusySets \subseteq SUBSET BusyInterval
  /\ Phrases \subseteq PhraseType

VARIABLES began, now, zone, busy,
          phase,    \* "ask", "answered", or "skipped" after three clarifications: the
                    \* question is given up here (and asked again, see Conversation)
          clarified,
          offers,   \* slots offered last
          wanted,   \* the offer the caller took last, NoInstant if none
          verbatim, \* whether he repeated the words of the offer
          answer    \* the instant stored, or NoInstant

dialogueVars == <<began, now, zone, busy, phase, clarified, offers, wanted, verbatim, answer>>

Day == 96
Step == 2

Offset(z, utc) == IF utc < z.change THEN z.before ELSE z.after

ZonedParts(utc, z) == utc + Offset(z, utc)

\* Mutant: the offset of the moment of the call.
ZonedWallToUtc_OffsetNow(wall, z) == wall - Offset(z, now)

\* The offset is taken where the wall clock reading would be in UTC.
ZonedWallToUtc(wall, z) == wall - Offset(z, wall)

Weekday(day) == day % 7

\* Monday to Friday, 8 to 18.
IsBusinessHours(wall) == Weekday(wall \div Day) \in 1..5 /\ wall % Day \in 32..71

DaysUntilWeekday(from, target) ==
  LET diff == (target - from + 7) % 7 IN IF diff = 0 THEN 7 ELSE diff

DefaultTime == 36

\* An hour above 23 is no time.
ParseTime(p) ==
  IF p.number = Unsaid THEN p.time ELSE IF p.number <= 23 THEN p.number * 4 ELSE Unsaid

ParseNaturalDateTime(p, wall) ==
  LET today == wall \div Day
      day == [date |-> p.n, in |-> today + p.n,
              weekday |-> today + DaysUntilWeekday(Weekday(today), p.n)][p.kind]
      time == ParseTime(p)
  IN  day * Day + IF time = Unsaid THEN DefaultTime ELSE time

\* Days of the month, in months of 30 days.
DayOfMonth(day) == (day % 30) + 1

\* The caller takes slot s: by weekday and time, or in the words of formatSlot.
ByName(s) == LET w == ZonedParts(s, zone) IN
  Phrase("weekday", Weekday(w \div Day), w % Day, Unsaid)
FormatSlot(s) == LET w == ZonedParts(s, zone) IN
  Phrase("weekday", Weekday(w \div Day), w % Day, DayOfMonth(w \div Day))

\* The slots proposed instead of a busy one, within 14 days.
Alternatives(start) ==
  LET IsWithinHours(s) == IsBusinessHours(ZonedParts(s, zone)) IN
  ProposeFreeSlots([desired |-> start, now |-> now, duration |-> Step, busy |-> busy,
                    step |-> Step, count |-> 3, horizon |-> 14 * Day], IsWithinHours)

DialogueInit ==
  /\ now \in CallTimes /\ began = now
  /\ zone \in TimeZones /\ busy \in BusySets
  /\ phase = "ask" /\ clarified = 0 /\ offers = {}
  /\ wanted = NoInstant /\ verbatim = FALSE /\ answer = NoInstant

Clarify ==
  /\ clarified' = clarified + 1
  /\ phase' = IF clarified' = 3 THEN "skipped" ELSE "ask"
  /\ UNCHANGED answer

Store(start) == answer' = start /\ phase' = "answered" /\ UNCHANGED <<clarified, offers>>

\* resolveDatetimeAnswer; a calendar that cannot be asked is taken as free.
Resolve(p) ==
  /\ phase = "ask"
  /\ IF p.kind = "none" THEN Clarify /\ offers' = {}
     ELSE LET start == ZonedWallToUtc(ParseNaturalDateTime(p, ZonedParts(now, zone)), zone) IN
          \/ Store(start)
          \/ /\ ~IsSlotFree(start, Step, busy)
             /\ Clarify /\ offers' = Alternatives(start)
  /\ UNCHANGED <<began, now, zone, busy>>

\* Any phrase; or one of the offers.
Say(p) == Resolve(p) /\ wanted' = NoInstant /\ verbatim' = FALSE

TakeOffer(s, inFull) ==
  /\ Resolve(IF inFull THEN FormatSlot(s) ELSE ByName(s))
  /\ wanted' = s /\ verbatim' = inFull

\* Somebody enters an event while the call goes on.
CalendarFills(s) ==
  /\ phase = "ask" /\ IsSlotFree(s, Step, busy)
  /\ busy' = busy \cup {Interval(s, s + Step)}
  /\ UNCHANGED <<began, now, zone, phase, clarified, offers, wanted, verbatim, answer>>

TimePasses ==
  /\ phase = "ask" /\ now < began + MaxWait
  /\ now' = now + 1
  /\ UNCHANGED <<began, zone, busy, phase, clarified, offers, wanted, verbatim, answer>>

DialogueNext ==
  \/ \E p \in Phrases : Say(p)
  \/ \E s \in offers : CalendarFills(s) \/ \E inFull \in BOOLEAN : TakeOffer(s, inFull)
  \/ TimePasses

DialogueSpec == DialogueInit /\ [][DialogueNext]_dialogueVars

---------------------------------------------------------------------------
DialogueTypeOK ==
  /\ began \in CallTimes /\ now \in Nat /\ zone \in TimeZones /\ busy \subseteq BusyInterval
  /\ phase \in {"ask", "answered", "skipped"} /\ clarified \in 0..3
  /\ Cardinality(offers) <= 3 /\ offers \subseteq Nat
  /\ wanted \in Nat /\ verbatim \in BOOLEAN /\ answer \in Int

\* Within an offset of the change of the zone a wall clock reading can be mistaken.
NearChange(s) ==
  \E o \in {zone.before, zone.after} :
    \/ o >= 0 /\ s \in (zone.change - o)..(zone.change + o)
    \/ o < 0 /\ s \in (zone.change + o)..(zone.change - o)

\* The weekday of s, said now, means the day of s.
WithinAWeek(s) ==
  (ZonedParts(s, zone) \div Day) - (ZonedParts(now, zone) \div Day) \in 1..7

\* "Ich koennte Ihnen anbieten ... Welcher passt Ihnen?" (conversation.service.ts:136):
\* the slot the caller takes is the one stored, although it goes through his words,
\* the wall clock and back, and the clock of the call moves on.  Not so: for a slot
\* today or more than a week ahead, when he repeats the day of the month (it is taken
\* for the hour), or next to the change of the clocks.
TakenOfferIsStored ==
  answer # NoInstant /\ wanted # NoInstant /\ ~verbatim /\ WithinAWeek(wanted) /\ ~NearChange(wanted) =>
    answer = wanted

\* Offered slots are ahead of the call and within business hours.
OffersAreOpen ==
  \A s \in offers : s >= began /\ IsBusinessHours(ZonedParts(s, zone))

OffersHold == TakenOfferIsStored /\ OffersAreOpen
=============================================================================
