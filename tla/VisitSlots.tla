----------------------------- MODULE VisitSlots -----------------------------
(***************************************************************************)
(* VisitsService.getAvailableSlots(): the hourly slots of a day, each free *)
(* or taken, computed from the visits of that day.  It is a read of its    *)
(* own, with its own idea of when a visit takes a slot; book() has         *)
(* another.  This module compares the two on the visits that Visits can    *)
(* reach.                                                                  *)
(***************************************************************************)
EXTENDS Visits

CONSTANTS
    Day,         \* the days asked about, numbered
    DayLength,   \* 24 hours, in units of the clock
    Hour,        \* 1 hour
    FirstHour,   \* 9: the first slot of a day starts at this hour
    EndHour      \* 18: slots start before this hour

ASSUME SlotsAssumption ==
    /\ Day \subseteq Nat
    /\ DayLength \in Nat /\ Hour \in Nat /\ FirstHour \in Nat /\ EndHour \in Nat
    \* a slot is an hour, and the first and last are at least one away from
    \* the ends of the day
    /\ SlotDuration = Hour
    /\ \A h \in FirstHour .. (EndHour - 1) : Hour <= h * Hour /\ h * Hour + Hour < DayLength

\* day.startOf('day')
StartOf(d) == d * DayLength

SlotAt(d, h) == StartOf(d) + h * Hour

OpenHours == FirstHour .. (EndHour - 1)

\* where: { propertyId, status: { notIn: [CANCELLED] }, scheduledAt: { gte: start, lte: end } }
BookedOn(p, d) ==
    {v \in VisitId : /\ Active(v) /\ visits[v].propertyId = p
                     /\ visits[v].scheduledAt \in StartOf(d) .. (StartOf(d) + DayLength - 1)}

CloseUnsigned(s, t) == s < t + SlotDuration

\* Math.abs(diff in minutes) < SLOT_DURATION_MINUTES.  diff drops the seconds,
\* which changes no comparison with a whole number of minutes.
Close(s, t) == s < t + SlotDuration /\ t < s + SlotDuration

IsBooked(p, d, h) == \E v \in BookedOn(p, d) : Close(visits[v].scheduledAt, SlotAt(d, h))

\* The two lists a caller reads off the answer.
Available(p, d) == {h \in OpenHours : ~IsBooked(p, d, h)}

Unavailable(p, d) == OpenHours \ Available(p, d)

-----------------------------------------------------------------------------

\* The two ideas agree but at the edge.  A slot reported as taken is one that
\* book() would refuse: the day's visits are enough to know, and no free time is
\* withheld.  A slot reported as available that book() would refuse all the same
\* is exactly one slot away from each visit it is refused for.
TakenIsRefused(p, d) == \A h \in Unavailable(p, d) : Conflicts(p, SlotAt(d, h)) # {}

OfferedUpToTheEdge(p, d) ==
    \A h \in Available(p, d) : \A v \in Conflicts(p, SlotAt(d, h)) :
       \/ visits[v].scheduledAt + SlotDuration = SlotAt(d, h)
       \/ SlotAt(d, h) + SlotDuration = visits[v].scheduledAt

SlotsAgreeUpToTheEdge ==
    \A p \in Property, d \in Day : TakenIsRefused(p, d) /\ OfferedUpToTheEdge(p, d)
=============================================================================
