------------------------- MODULE VisitAlertsProofs -------------------------
(***************************************************************************)
(* Proofs about VisitAlerts, for every set of calls, visits, properties,   *)
(* users and keys, and every order in which listeners end, fail and        *)
(* notices are read.                                                       *)
(***************************************************************************)
EXTENDS VisitAlerts, VisitsProofs

-----------------------------------------------------------------------------
(* The visits are those of Visits.                                         *)

LEMMA StepsOfVisits == ASSUME [AlertsNext]_<<vars, alertVars>> PROVE [Next]_vars
BY DEF AlertsNext, Service, Deliver, Lose, MarkRead, MarkAllRead, vars

\* The listeners and the readers of notices do not disturb VisitsService: what
\* holds of Visits holds of its part in VisitAlerts.
THEOREM VisitsUndisturbed == AlertsSpec => Spec
<1>1. AlertsInit => Init
  BY DEF AlertsInit
<1>2. [AlertsNext]_<<vars, alertVars>> => [Next]_vars
  BY StepsOfVisits
<1>3. QED
  BY <1>1, <1>2, PTL DEF AlertsSpec, Spec

-----------------------------------------------------------------------------
(* The notices.                                                            *)

\* An event waits for its listener, or has its one notice, or was lost; what
\* the notice says is what the event said, of a row whose owner is who it was.
Noticed ==
    /\ \A e \in handling : Heard(e)
    /\ \A n \in notifications :
          /\ n.about \in emitted \ handling /\ Heard(n.about)
          /\ n.type = TypeOf(n.about)
          /\ n.userId = visits[n.about.visit].ownerId
    /\ \A m, n \in notifications : m.about = n.about => m = n

AlertsInv == TypeInv /\ Behind /\ AlertsTypeOK /\ Noticed

\* VisitsService takes a step, and adds to what is heard.
LEMMA ServiceNotices ==
    ASSUME TypeInv, Behind, AlertsTypeOK, Noticed, TypeInv', Service
    PROVE  AlertsTypeOK' /\ Noticed'
<1>1. emitted \subseteq emitted'
  BY Emits DEF Service
<1>2. AlertsTypeOK'
  BY <1>1 DEF AlertsTypeOK, Service
<1>3. \A e \in handling' : Heard(e)
  BY DEF Service, Noticed
<1>4. ASSUME NEW n \in notifications
      PROVE  /\ n.about \in emitted' \ handling'
             /\ n.userId = visits'[n.about.visit].ownerId
  <2>1. n.about \in emitted \ handling /\ n.userId = visits[n.about.visit].ownerId
    BY DEF Noticed
  <2>2. n.about.visit \in Booked
    BY <2>1 DEF Behind, EventsMeant
  <2>3. SameVisit(visits[n.about.visit], visits'[n.about.visit])
    BY <2>2, RowsStay DEF Service
  <2>4. QED
    BY <1>1, <2>1, <2>3 DEF Service, SameVisit
<1>5. QED
  BY <1>2, <1>3, <1>4 DEF Noticed, Service

\* A notice goes to the owner, also that of a cancellation.
LEMMA OwnerIsTold ==
    ASSUME TypeInv, Behind, NEW e \in emitted, Heard(e)
    PROVE  Recipient(e) = visits[e.visit].ownerId /\ Recipient(e) \in User
<1>1. visits[e.visit] \in Visit
  BY DEF Behind, EventsMeant, TypeInv, TypeOK, Booked
<1>2. Recipient(e) = visits[e.visit].ownerId
  BY DEF Recipient, Heard, PayloadStatus
<1>3. QED
  BY <1>1, <1>2 DEF Visit

LEMMA DeliverNotices ==
    ASSUME TypeInv, Behind, AlertsTypeOK, Noticed, NEW e \in handling, Deliver(e)
    PROVE  AlertsTypeOK' /\ Noticed'
<1> DEFINE new == [userId |-> Recipient(e), type |-> TypeOf(e), about |-> e, read |-> FALSE]
<1>1. /\ notifications' = notifications \cup {new} /\ handling' = handling \ {e}
      /\ visits' = visits /\ emitted' = emitted /\ lost' = lost
  BY DEF Deliver, vars
<1>2. e \in emitted /\ e \in Event /\ Heard(e)
  BY DEF AlertsTypeOK, Noticed, TypeInv, TypeOK
<1>3. Recipient(e) = visits[e.visit].ownerId /\ Recipient(e) \in User
  BY <1>2, OwnerIsTold
<1>4. TypeOf(e) \in {"VISIT_CONFIRMED", "VISIT_CANCELLED"}
  BY DEF TypeOf
<1>5. new \in Notification
  BY <1>2, <1>3, <1>4 DEF Notification
<1>6. /\ new.about = e /\ new.type = TypeOf(e)
      /\ new.userId = visits[e.visit].ownerId
  BY <1>3
<1> HIDE DEF new
<1>7. AlertsTypeOK'
  BY <1>1, <1>5 DEF AlertsTypeOK
<1>8. \A n \in notifications : n.about # e
  BY DEF Noticed
<1>9. QED
  BY <1>1, <1>2, <1>6, <1>7, <1>8 DEF Noticed, Heard, TypeOf

\* A notice is marked as read and says what it said.
LEMMA ReadNotices ==
    ASSUME AlertsTypeOK, Noticed, UNCHANGED <<vars, handling, lost>>,
           NEW S \in SUBSET notifications,
           notifications' = (notifications \ S) \cup {Read(n) : n \in S}
    PROVE  AlertsTypeOK' /\ Noticed'
<1>1. ASSUME NEW n \in S
      PROVE  /\ Read(n) \in Notification
             /\ Read(n).about = n.about /\ Read(n).type = n.type /\ Read(n).userId = n.userId
  BY DEF AlertsTypeOK, Notification, Read
<1>2. AlertsTypeOK'
  BY <1>1 DEF AlertsTypeOK, vars
<1>3. ASSUME NEW k \in notifications'
      PROVE  \E n \in notifications :
                /\ k.about = n.about /\ k.type = n.type /\ k.userId = n.userId
                /\ k = IF n \in S THEN Read(n) ELSE n
  BY <1>1
<1>4. QED
  BY <1>2, <1>3 DEF Noticed, vars, Heard, TypeOf

LEMMA NoticesStep ==
    ASSUME AlertsInv, TypeInv', [AlertsNext]_<<vars, alertVars>>
    PROVE  AlertsTypeOK' /\ Noticed'
<1>1. CASE Service
  BY <1>1, ServiceNotices DEF AlertsInv
<1>2. ASSUME NEW e \in handling, Deliver(e) PROVE AlertsTypeOK' /\ Noticed'
  BY <1>2, DeliverNotices DEF AlertsInv
<1>3. ASSUME NEW e \in handling, Lose(e) PROVE AlertsTypeOK' /\ Noticed'
  BY <1>3 DEF AlertsInv, AlertsTypeOK, Noticed, Lose, vars, Heard, TypeOf
<1>4. ASSUME NEW n \in notifications, MarkRead(n.userId, n) PROVE AlertsTypeOK' /\ Noticed'
  <2> DEFINE S == {n}
  <2>1. notifications' = (notifications \ S) \cup {Read(k) : k \in S}
    BY <1>4 DEF MarkRead
  <2>2. S \in SUBSET notifications
    OBVIOUS
  <2> HIDE DEF S
  <2>3. QED
    BY <1>4, <2>1, <2>2, ReadNotices DEF AlertsInv, MarkRead
<1>5. ASSUME NEW u \in User, MarkAllRead(u) PROVE AlertsTypeOK' /\ Noticed'
  <2> DEFINE S == {n \in notifications : n.userId = u}
  <2>1. notifications' = (notifications \ S) \cup {Read(n) : n \in S}
    BY <1>5 DEF MarkAllRead
  <2>2. S \in SUBSET notifications
    OBVIOUS
  <2> HIDE DEF S
  <2>3. QED
    BY <1>5, <2>1, <2>2, ReadNotices DEF AlertsInv, MarkAllRead
<1>6. CASE UNCHANGED <<vars, alertVars>>
  BY <1>6 DEF AlertsInv, AlertsTypeOK, Noticed, vars, alertVars, Heard, TypeOf
<1>7. QED
  BY <1>1, <1>2, <1>3, <1>4, <1>5, <1>6 DEF AlertsNext

LEMMA AlertsInvariant == AlertsSpec => []AlertsInv
<1>1. AlertsInit => AlertsTypeOK /\ Noticed
  BY DEF AlertsInit, AlertsTypeOK, Noticed
<1>2. AlertsInv /\ TypeInv' /\ [AlertsNext]_<<vars, alertVars>> => (AlertsTypeOK /\ Noticed)'
  BY NoticesStep
<1>3. AlertsInv <=> (TypeInv /\ Behind /\ AlertsTypeOK /\ Noticed)
  BY DEF AlertsInv
<1>4. QED
  BY <1>1, <1>2, <1>3, VisitsUndisturbed, TypeInvariant, BehindInvariant, PTL DEF AlertsSpec

\* Events waiting, lost and told have their types.
THEOREM AlertsTypeCorrect == AlertsSpec => []AlertsTypeOK
<1>1. AlertsInv => AlertsTypeOK
  BY DEF AlertsInv
<1>2. QED
  BY <1>1, AlertsInvariant, PTL

\* The owner of a visit has one notice of its booking, and nobody else any.
THEOREM OwnersToldOnce == AlertsSpec => []OwnerToldOnce
<1>1. ASSUME AlertsInv PROVE OwnerToldOnce
  <2>1. ASSUME NEW n \in notifications, n.type = "VISIT_CONFIRMED"
        PROVE  /\ n.about \in emitted /\ n.about.name = "visit.booked"
               /\ n.userId = visits[n.about.visit].ownerId
    BY <1>1, <2>1 DEF AlertsInv, Noticed, TypeOf
  <2>2. QED
    BY <1>1, <2>1 DEF AlertsInv, Behind, AnnounceInv, BookedAnnouncedOnce, Noticed, OwnerToldOnce
<1>2. QED
  BY <1>1, AlertsInvariant, PTL

\* A notice of cancellation is about a visit that a party of it cancelled, by a
\* call that was answered.
THEOREM CancellationsDidHappen == AlertsSpec => []CancellationsHappened
<1>1. ASSUME AlertsInv PROVE CancellationsHappened
  <2>1. SUFFICES ASSUME NEW n \in notifications, n.type = "VISIT_CANCELLED"
                 PROVE  /\ visits[n.about.visit].cancelledAt
                        /\ LET call == req[n.about.src] IN
                              /\ call.op = "cancel" /\ call.pc = "answered"
                              /\ call.id = n.about.visit
                              /\ call.user \in {visits[call.id].tenantId, visits[call.id].ownerId}
    BY DEF CancellationsHappened
  <2>2. n.about \in emitted /\ n.about.name = "visit.cancelled"
    BY <1>1, <2>1 DEF AlertsInv, Noticed, TypeOf, Heard
  <2>3. n.about.src \in Request
    BY <1>1, <2>2 DEF AlertsInv, TypeInv, TypeOK, Event
  <2>4. QED
    BY <1>1, <2>2, <2>3 DEF AlertsInv, Behind, EventsMeant, CancelledByParty, Cancelled
<1>2. QED
  BY <1>1, AlertsInvariant, PTL

-----------------------------------------------------------------------------
(* Nobody is left untold but by a failure.                                 *)

\* A call about v that wrote it and has yet to emit its event, or that failed.
Unsaid(r, op, v) == req[r].op = op /\ req[r].id = v /\ req[r].pc \in {"written", "aborted"}

Said(op, v) == \E e \in emitted : e.name = EventOf(op) /\ e.visit = v

\* What was written was announced, unless its call has yet to, or failed.
SaidOrFailed ==
    \A v \in Booked :
       /\ Said("book", v) \/ \E r \in Request : Unsaid(r, "book", v)
       /\ visits[v].cancelledAt => Said("cancel", v) \/ \E r \in Request : Unsaid(r, "cancel", v)

\* What was announced is heard, and then told or lost.
HeardOrLost ==
    \A e \in emitted : Heard(e) =>
       e \in handling \cup lost \/ \E n \in notifications : n.about = e

OwnerHears(op, v) ==
    \/ \E r \in Request : Unsaid(r, op, v)
    \/ \E e \in handling \cup lost : e.name = EventOf(op) /\ e.visit = v
    \/ \E n \in notifications : n.about.name = EventOf(op) /\ n.about.visit = v
                                /\ n.userId = visits[v].ownerId

\* A visit in the table, and its cancellation, reach the owner: a notice is
\* there, or a call or a listener is about to see to it, or one of them failed.
ChangesAreTold ==
    \A v \in Booked : OwnerHears("book", v) /\ (visits[v].cancelledAt => OwnerHears("cancel", v))

LEMMA UnsaidStays ==
    ASSUME TypeInv, [Next]_vars, NEW r \in Request, NEW op \in {"book", "cancel"}, NEW v,
           Unsaid(r, op, v)
    PROVE  Unsaid(r, op, v)' \/ Said(op, v)'
<1>1. /\ req \in [Request -> {NewCall} \cup BookCall \cup UpdateCall]
      /\ req[r] \in BookCall \cup UpdateCall
  BY DEF TypeInv, TypeOK, Unsaid, NewCall
<1>2. CASE req'[r] = req[r]
  BY <1>2 DEF Unsaid
<1>3. CASE Emit(r)
  <2> DEFINE e == [name |-> EventOf(req[r].op), visit |-> req[r].id, src |-> r]
  <2>1. e \in emitted'
    BY <1>3 DEF Emit
  <2>2. e.name = EventOf(op) /\ e.visit = v
    BY DEF Unsaid
  <2> HIDE DEF e
  <2>3. QED
    BY <2>1, <2>2 DEF Said
<1>4. CASE Abort(r)
  <2>1. req'[r] = [req[r] EXCEPT !.pc = "aborted"]
    BY <1>1, <1>4 DEF Abort, GoTo
  <2>2. QED
    BY <1>1, <2>1 DEF Unsaid, BookCall, UpdateCall
<1>5. ASSUME Handle(r) PROVE Emit(r) \/ Abort(r)
  BY <1>5 DEF Unsaid, Handle, Book, BookNew, BookReplay, BookProperty, BookConflict, BookCreate,
     Cancel, Reschedule, Confirm, CancelRead, RescheduleRead, ConfirmRead, ReadVisit, Admitted,
     CancelWrite, RescheduleWrite, ConfirmWrite, Update
<1>6. QED
  BY <1>2, <1>3, <1>4, <1>5, OneMoves

LEMMA SaidStays ==
    ASSUME TypeInv, [Next]_vars, NEW op, NEW v, Said(op, v)
    PROVE  Said(op, v)'
<1>1. emitted \subseteq emitted'
  BY Emits
<1>2. PICK e \in emitted : e.name = EventOf(op) /\ e.visit = v
  BY DEF Said
<1>3. EventOf(op)' = EventOf(op)
  BY DEF EventOf
<1>4. QED
  BY <1>1, <1>2, <1>3 DEF Said

\* A row that a step inserts is one its call has yet to announce.
LEMMA InsertedIsUnsaid ==
    ASSUME TypeInv, [Next]_vars, NEW v \in Booked', v \notin Booked
    PROVE  visits'[v].cancelledAt = FALSE /\ \E r \in Request : Unsaid(r, "book", v)'
<1>1. v \in VisitId /\ visits[v] = None /\ visits'[v] # None
  BY DEF Booked
<1>2. PICK r \in Request, w \in VisitId \ Booked :
         /\ BookCreate(r)
         /\ visits' = [visits EXCEPT ![w] = NewRow(r)]
         /\ req' = [req EXCEPT ![r] = [req[r] EXCEPT !.pc = "written", !.id = w]]
  BY <1>1, NewRows
<1>3. w = v /\ visits \in [VisitId -> Visit \cup {None}]
  BY <1>1, <1>2 DEF TypeInv, TypeOK
<1>4. req[r] \in BookCall /\ req \in [Request -> {NewCall} \cup BookCall \cup UpdateCall]
  BY <1>2, BookCreates DEF TypeInv, TypeOK
<1>5. req'[r].op = "book" /\ req'[r].id = v /\ req'[r].pc = "written"
  BY <1>2, <1>3, <1>4 DEF BookCall
<1>6. QED
  BY <1>1, <1>2, <1>3, <1>5 DEF Unsaid, NewRow

\* A row that a step cancels is one its call has yet to announce.
LEMMA CancelledIsUnsaid ==
    ASSUME TypeInv, [Next]_vars, NEW v \in Booked, ~visits[v].cancelledAt, visits'[v].cancelledAt
    PROVE  \E r \in Request : Unsaid(r, "cancel", v)'
<1>1. visits[v] \in Visit /\ req \in [Request -> {NewCall} \cup BookCall \cup UpdateCall]
  BY DEF TypeInv, TypeOK, Booked
<1>2. PICK r \in Request :
         /\ req[r].id = v /\ req[r] \in UpdateCall
         /\ CancelWrite(r) \/ RescheduleWrite(r) \/ ConfirmWrite(r)
  BY RowsChange
<1>3. visits \in [VisitId -> Visit \cup {None}] /\ v \in VisitId
  BY DEF TypeInv, TypeOK, Booked
<1>4. ~RescheduleWrite(r) /\ ~ConfirmWrite(r)
  BY <1>1, <1>2, <1>3 DEF RescheduleWrite, ConfirmWrite, Visit
<1>5. req'[r] = [req[r] EXCEPT !.pc = "written"] /\ req[r].op = "cancel"
  BY <1>1, <1>2, <1>4 DEF CancelWrite, Update, GoTo
<1>6. QED
  BY <1>2, <1>5 DEF Unsaid, UpdateCall

LEMMA SaidOrFailedStep ==
    ASSUME TypeInv, SaidOrFailed, [Next]_vars
    PROVE  SaidOrFailed'
<1>1. ASSUME NEW v \in Booked'
      PROVE  Said("book", v)' \/ \E r \in Request : Unsaid(r, "book", v)'
  <2>1. CASE v \in Booked
    BY <2>1, UnsaidStays, SaidStays DEF SaidOrFailed
  <2>2. QED
    BY <2>1, InsertedIsUnsaid
<1>2. ASSUME NEW v \in Booked', visits'[v].cancelledAt
      PROVE  Said("cancel", v)' \/ \E r \in Request : Unsaid(r, "cancel", v)'
  <2>1. CASE v \in Booked /\ visits[v].cancelledAt
    BY <2>1, UnsaidStays, SaidStays DEF SaidOrFailed
  <2>2. CASE v \in Booked /\ ~visits[v].cancelledAt
    BY <1>2, <2>2, CancelledIsUnsaid
  <2>3. QED
    BY <1>2, <2>1, <2>2, InsertedIsUnsaid
<1>3. QED
  BY <1>1, <1>2 DEF SaidOrFailed

LEMMA HeardOrLostStep ==
    ASSUME AlertsInv, HeardOrLost, [AlertsNext]_<<vars, alertVars>>
    PROVE  HeardOrLost'
<1>1. CASE Service
  BY <1>1 DEF Service, HeardOrLost, Heard
<1>2. ASSUME NEW e \in handling, Deliver(e) PROVE HeardOrLost'
  <2> DEFINE new == [userId |-> Recipient(e), type |-> TypeOf(e), about |-> e, read |-> FALSE]
  <2>1. new \in notifications' /\ new.about = e
    BY <1>2 DEF Deliver
  <2> HIDE DEF new
  <2>2. QED
    BY <1>2, <2>1 DEF Deliver, HeardOrLost, Heard, vars
<1>3. ASSUME NEW e \in handling, Lose(e) PROVE HeardOrLost'
  BY <1>3 DEF Lose, HeardOrLost, Heard, vars
<1>4. ASSUME handling' = handling, lost' = lost, emitted' = emitted,
             \A n \in notifications : \E m \in notifications' : m.about = n.about
      PROVE  HeardOrLost'
  BY <1>4 DEF HeardOrLost, Heard
<1>5. ASSUME NEW n \in notifications PROVE Read(n).about = n.about
  BY DEF AlertsInv, AlertsTypeOK, Notification, Read
<1>6. ASSUME NEW n \in notifications, MarkRead(n.userId, n) PROVE HeardOrLost'
  BY <1>4, <1>5, <1>6 DEF MarkRead, vars
<1>7. ASSUME NEW u \in User, MarkAllRead(u) PROVE HeardOrLost'
  <2>1. ASSUME NEW n \in notifications PROVE \E m \in notifications' : m.about = n.about
    <3>1. (IF n.userId = u THEN Read(n) ELSE n) \in notifications'
      BY <1>7 DEF MarkAllRead
    <3>2. QED
      BY <1>5, <3>1
  <2>2. QED
    BY <1>4, <1>7, <2>1 DEF MarkAllRead, vars
<1>8. CASE UNCHANGED <<vars, alertVars>>
  BY <1>4, <1>8 DEF vars, alertVars
<1>9. QED
  BY <1>1, <1>2, <1>3, <1>6, <1>7, <1>8 DEF AlertsNext

\* The owner is told of each visit and of each cancellation, unless a call or
\* a listener is on its way to it, or failed.
THEOREM OwnersAreTold == AlertsSpec => []ChangesAreTold
<1>1. AlertsInit => SaidOrFailed /\ HeardOrLost
  BY DEF AlertsInit, Init, SaidOrFailed, HeardOrLost, Booked
<1>2. TypeInv /\ SaidOrFailed /\ [AlertsNext]_<<vars, alertVars>> => SaidOrFailed'
  BY SaidOrFailedStep, StepsOfVisits
<1>3. AlertsInv /\ HeardOrLost /\ [AlertsNext]_<<vars, alertVars>> => HeardOrLost'
  BY HeardOrLostStep
<1>4. ASSUME AlertsInv, SaidOrFailed, HeardOrLost PROVE ChangesAreTold
  <2>1. ASSUME NEW v \in Booked, NEW op \in {"book", "cancel"},
               Said(op, v) \/ \E r \in Request : Unsaid(r, op, v)
        PROVE  OwnerHears(op, v)
    <3>1. CASE Said(op, v)
      <4>1. PICK e \in emitted : e.name = EventOf(op) /\ e.visit = v
        BY <3>1 DEF Said
      <4>2. Heard(e)
        BY <4>1 DEF Heard, EventOf
      <4>3. QED
        BY <1>4, <4>1, <4>2 DEF HeardOrLost, OwnerHears, AlertsInv, Noticed
    <3>2. QED
      BY <2>1, <3>1 DEF OwnerHears
  <2>2. QED
    BY <1>4, <2>1 DEF SaidOrFailed, ChangesAreTold
<1>5. AlertsInv => TypeInv
  BY DEF AlertsInv
<1>6. QED
  BY <1>1, <1>2, <1>3, <1>4, <1>5, AlertsInvariant, PTL DEF AlertsSpec
=============================================================================
