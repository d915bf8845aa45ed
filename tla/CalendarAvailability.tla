------------------------ MODULE CalendarAvailability ------------------------
(***************************************************************************)
(* Free slots (lib/calendar-availability.ts), a pure algorithm.  Instants  *)
(* are natural numbers of one unit of time.                                *)
(***************************************************************************)
EXTENDS Naturals

\* A busy interval [from, to) of a calendar.
Interval(from, to) == [start |-> from, end |-> to]

\* [start, start + duration) meets none of the busy intervals.
IsSlotFree(start, duration, busy) ==
  \A b \in busy : ~(start < b.end /\ start + duration > b.start)

\* Rounded up to the next step.
FirstStep(from, step) == ((from + step - 1) \div step) * step

\* Of the candidates from the first step at or after the desired time and now, up to
\* the horizon, that are open and free: the first `count'.
ProposeFreeSlots(o, IsWithinHours(_)) ==
  LET from == IF o.desired > o.now THEN o.desired ELSE o.now
      first == FirstStep(from, o.step)
      open == {c \in {first + o.step * i : i \in 0..(o.horizon \div o.step)} :
                 /\ c <= o.desired + o.horizon
                 /\ IsWithinHours(c) /\ IsSlotFree(c, o.duration, o.busy)}
      slots[k \in 0..o.count] ==
        LET earlier == IF k = 0 THEN {} ELSE slots[k - 1]
            later == open \ earlier
        IN  IF k = 0 \/ later = {} THEN earlier
            ELSE earlier \cup {CHOOSE c \in later : \A d \in later : c <= d}
  IN  slots[o.count]
=============================================================================
