---------------------------- MODULE VisitAlerts ----------------------------
(***************************************************************************)
(* Visits together with the listeners of NotificationsService              *)
(* (src/modules/notifications/notifications.module.ts).  emit() runs a     *)
(* listener up to its first await, the insert of a notification; nobody    *)
(* waits for the rest.  A failed insert is caught and logged, never tried  *)
(* again, and there is no queue that outlives the process.                 *)
(***************************************************************************)
EXTENDS Visits

VARIABLES
    handling,       \* events whose listener awaits the insert
    notifications,  \* table "notifications"
    lost            \* events whose listener failed

alertVars == <<handling, notifications, lost>>

Notification == [userId: User, type: {"VISIT_CONFIRMED", "VISIT_CANCELLED"},
                 about: Event, read: BOOLEAN]

AlertsTypeOK ==
    /\ handling \subseteq emitted
    /\ notifications \subseteq Notification
    /\ lost \subseteq emitted

-----------------------------------------------------------------------------

HeardCancellations(e) == e.name = "visit.cancelled"

\* @OnEvent: nobody listens to visit.rescheduled.
Heard(e) == e.name \in {"visit.booked", "visit.cancelled"}

\* The status in the payload of visit.cancelled: the row the update of cancel()
\* returned, which that update has just made CANCELLED.
PayloadStatus(e) == "CANCELLED"

Recipient(e) ==
    CASE e.name = "visit.booked"    -> visits[e.visit].ownerId
      [] e.name = "visit.cancelled" ->
            IF PayloadStatus(e) = "CANCELLED" THEN visits[e.visit].ownerId
                                              ELSE visits[e.visit].tenantId

TypeOfName(e) == e.name

TypeOf(e) == IF e.name = "visit.booked" THEN "VISIT_CONFIRMED" ELSE "VISIT_CANCELLED"

\* A step of VisitsService; what it emits, the listeners hear at once.
Service ==
    /\ Next
    /\ handling' = handling \cup {e \in emitted' \ emitted : Heard(e)}
    /\ UNCHANGED <<notifications, lost>>

\* onVisitBooked(), onVisitCancelled(): the insert succeeds.
Deliver(e) ==
    /\ e \in handling
    /\ handling' = handling \ {e}
    /\ notifications' = notifications \cup
          {[userId |-> Recipient(e), type |-> TypeOf(e), about |-> e, read |-> FALSE]}
    /\ UNCHANGED <<vars, lost>>

\* The insert fails, or the process stops.
Lose(e) ==
    /\ e \in handling
    /\ handling' = handling \ {e}
    /\ lost' = lost \cup {e}
    /\ UNCHANGED <<vars, notifications>>

Read(n) == [n EXCEPT !.read = TRUE]

\* markRead(): where { id, userId }.
MarkRead(u, n) ==
    /\ n \in notifications /\ n.userId = u
    /\ notifications' = (notifications \ {n}) \cup {Read(n)}
    /\ UNCHANGED <<vars, handling, lost>>

\* markAllRead(): where { userId, readAt: null }.
MarkAllRead(u) ==
    /\ notifications' = {IF n.userId = u THEN Read(n) ELSE n : n \in notifications}
    /\ UNCHANGED <<vars, handling, lost>>

AlertsInit == Init /\ handling = {} /\ notifications = {} /\ lost = {}

AlertsNext ==
    \/ Service
    \/ \E e \in handling : Deliver(e) \/ Lose(e)
    \/ \E n \in notifications : MarkRead(n.userId, n)
    \/ \E u \in User : MarkAllRead(u)

AlertsSpec == AlertsInit /\ [][AlertsNext]_<<vars, alertVars>>

\* Node runs a continuation whose promise has settled, and every promise does:
\* a request that was admitted goes on, a listener ends.
Fairness ==
    /\ \A r \in Request : WF_<<vars, alertVars>>(Served(r) /\ Service /\ Handle(r))
    /\ WF_<<vars, alertVars>>(\E e \in handling : Deliver(e) \/ Lose(e))

FairAlertsSpec == AlertsSpec /\ Fairness

-----------------------------------------------------------------------------

\* The owner finds one notice of a visit, and nobody else any, however often
\* the booking was sent and whichever calls crossed.
OwnerToldOnce ==
    \A m, n \in notifications :
       /\ m.type = "VISIT_CONFIRMED" => m.userId = visits[m.about.visit].ownerId
       /\ m.type = "VISIT_CONFIRMED" /\ n.type = "VISIT_CONFIRMED" /\ m.about.visit = n.about.visit
             => m = n

\* A notice of cancellation is about a visit that somebody did cancel, who may
\* cancel it, by a call that was not refused.
CancellationsHappened ==
    \A n \in notifications : n.type = "VISIT_CANCELLED" =>
       /\ visits[n.about.visit].cancelledAt
       /\ LET call == req[n.about.src] IN
             /\ call.op = "cancel" /\ call.pc = "answered" /\ call.id = n.about.visit
             /\ call.user \in {visits[call.id].tenantId, visits[call.id].ownerId}

\* A booking whose insert went through is told to the owner, unless the request
\* or the listener failed on the way.
BookingIsHeard ==
    \A r \in Request :
       req[r].pc = "written" /\ req[r].op = "book" ~>
          \/ req[r].pc = "aborted"
          \/ \E e \in lost : e.src = r
          \/ \E n \in notifications : n.about.src = r /\ n.userId = visits[req[r].id].ownerId

\* "Notify the other party": the notice of a cancellation goes to the party
\* that did not cancel.
OtherPartyTold ==
    \A n \in notifications : n.type = "VISIT_CANCELLED" => n.userId # req[n.about.src].user
=============================================================================
