-------------------------- MODULE VisitSlotsProofs --------------------------
(***************************************************************************)
(* getAvailableSlots() and the conflict query of book() agree but at the   *)
(* edge, whatever the visits, the opening hours and the length of a slot.  *)
(***************************************************************************)
EXTENDS VisitSlots, VisitsProofs

\* The visits concerned have times the clock has, and so have the slots.
LEMMA TimesAreNumbers ==
    ASSUME TypeOK, NEW v \in VisitId, Active(v), NEW d \in Day, NEW h \in OpenHours
    PROVE  /\ visits[v].scheduledAt \in Nat /\ SlotDuration \in Nat
           /\ StartOf(d) \in Nat /\ DayLength \in Nat
           /\ SlotAt(d, h) \in Nat
           /\ StartOf(d) + SlotDuration <= SlotAt(d, h)
           /\ SlotAt(d, h) + SlotDuration < StartOf(d) + DayLength
<1>1. visits[v].scheduledAt \in Nat /\ SlotDuration \in Nat
  BY VisitsAssumption DEF TypeOK, Active, Visit, Time
<1>2. d \in Nat /\ DayLength \in Nat /\ StartOf(d) \in Nat
  BY SlotsAssumption DEF StartOf
<1>3. h \in Nat /\ h * Hour \in Nat /\ Hour <= h * Hour /\ h * Hour + Hour < DayLength
  BY SlotsAssumption DEF OpenHours
<1>4. QED
  BY <1>1, <1>2, <1>3, SlotsAssumption DEF SlotAt

LEMMA TakenIsRefusedNow ==
    ASSUME TypeOK, NEW p \in Property, NEW d \in Day PROVE TakenIsRefused(p, d)
<1>. SUFFICES ASSUME NEW h \in Unavailable(p, d)
              PROVE  Conflicts(p, SlotAt(d, h)) # {}
  BY DEF TakenIsRefused
<1>1. PICK v \in BookedOn(p, d) : Close(visits[v].scheduledAt, SlotAt(d, h))
  BY DEF Unavailable, Available, IsBooked
<1>2. v \in VisitId /\ Active(v) /\ visits[v].propertyId = p /\ h \in OpenHours
  BY DEF BookedOn, Unavailable
<1>3. InSlot(visits[v].scheduledAt, SlotAt(d, h))
  BY <1>1, <1>2, TimesAreNumbers DEF Close, InSlot
<1>4. QED
  BY <1>2, <1>3 DEF Conflicts

LEMMA OfferedUpToTheEdgeNow ==
    ASSUME TypeOK, NEW p \in Property, NEW d \in Day PROVE OfferedUpToTheEdge(p, d)
<1>. SUFFICES ASSUME NEW h \in Available(p, d),
                     NEW v \in Conflicts(p, SlotAt(d, h))
              PROVE  \/ visits[v].scheduledAt + SlotDuration = SlotAt(d, h)
                     \/ SlotAt(d, h) + SlotDuration = visits[v].scheduledAt
  BY DEF OfferedUpToTheEdge
<1>1. /\ v \in VisitId /\ Active(v) /\ visits[v].propertyId = p /\ h \in OpenHours
      /\ InSlot(visits[v].scheduledAt, SlotAt(d, h))
  BY DEF Conflicts, Available
<1>2. visits[v].scheduledAt \in StartOf(d) .. (StartOf(d) + DayLength - 1)
  BY <1>1, TimesAreNumbers DEF InSlot
<1>3. ~Close(visits[v].scheduledAt, SlotAt(d, h))
  BY <1>1, <1>2 DEF Available, IsBooked, BookedOn
<1>4. QED
  BY <1>1, <1>3, TimesAreNumbers DEF Close, InSlot

\* No free slot is withheld, for what is reported as taken book() refuses; and
\* what is reported as available and refused is exactly one slot away from a
\* visit.
THEOREM SlotsAgree == Spec => []SlotsAgreeUpToTheEdge
<1>1. TypeOK => SlotsAgreeUpToTheEdge
  BY TakenIsRefusedNow, OfferedUpToTheEdgeNow DEF SlotsAgreeUpToTheEdge
<1>2. QED
  BY <1>1, TypeCorrect, PTL
=============================================================================
