------------------------------- MODULE Visits -------------------------------
(***************************************************************************)
(* VisitsService (src/modules/visits/visits.service.ts): booking,          *)
(* cancelling, rescheduling and confirming property visits.                *)
(*                                                                         *)
(* Every handler is an async function: it suspends at each `await` of a    *)
(* database call, and the other requests run meanwhile.  One action below  *)
(* is one database call together with the synchronous code that follows it *)
(* up to the next await.  The only atomicity is that of a single statement *)
(* (no handler of this service opens a transaction), so what a handler has *)
(* read may be stale when it writes.                                       *)
(*                                                                         *)
(* A Request is one HTTP call, served once; a retry is another Request.    *)
(***************************************************************************)
EXTENDS Naturals

CONSTANTS
    Request,       \* the HTTP calls of a behaviour (bounds its length)
    VisitId,       \* uuids the database hands out to rows of "visits"
    Property,      \* rows of "properties"
    OwnerOf,       \* OwnerOf[p] is the ownerId of p, which no code changes
    Tenant,        \* users whose role is TENANT
    Key,           \* idempotency keys
    SlotDuration,  \* SLOT_DURATION_MINUTES, in units of the model's clock
    MaxTime,       \* the last instant of the clock and of a requested visit
    Ops,           \* which of the four operations the clients call
    None           \* null

Time == 0 .. MaxTime
User == Tenant \cup {OwnerOf[p] : p \in Property}

ASSUME VisitsAssumption ==
    /\ MaxTime \in Nat /\ SlotDuration \in Nat
    /\ OwnerOf \in [Property -> User]
    /\ None \notin VisitId \cup Property \cup User \cup Key \cup Time

VARIABLES
    visits,   \* table "visits": a row, or None for an id not handed out yet
    listed,   \* properties whose deletedAt is null
    now,      \* the clock
    req,      \* what each request is about and where it is suspended
    emitted,  \* every event handed to EventEmitter2 so far
    crossed   \* pairs of calls that had both passed their check, about one
              \* property or one visit, before either of them wrote

vars == <<visits, listed, now, req, emitted, crossed>>

-----------------------------------------------------------------------------
(* Types.  A call has the same fields whatever its operation; the fields   *)
(* an operation does not have hold None.                                   *)

VisitStatus == {"PENDING", "CONFIRMED", "CANCELLED", "COMPLETED", "NO_SHOW"}

\* cancelledAt stands for "cancelledAt is not null".
Visit == [propertyId: Property, tenantId: Tenant, ownerId: User,
          scheduledAt: Time, status: VisitStatus, idempotencyKey: Key,
          cancelledAt: BOOLEAN]

ASSUME NoRowIsNone == None \notin Visit

\* Where a handler is suspended: before the property lookup, the conflict
\* query or the insert of book, before the update of the other three, or
\* before the code that follows the write.
Suspended == {"property", "conflict", "create", "update", "written"}
Ended     == {"answered", "rejected", "aborted"}

NewCall == [pc |-> "new", op |-> None, user |-> None, propertyId |-> None,
            scheduledAt |-> None, key |-> None, id |-> None]

BookCall ==
    {c \in [pc: (Suspended \ {"update"}) \cup Ended, op: {"book"}, user: Tenant,
            propertyId: Property, scheduledAt: Time, key: Key,
            id: VisitId \cup {None}] :
       /\ c.pc \in {"property", "conflict", "create"} => c.id = None
       /\ c.pc \in {"written", "answered"} => c.id \in VisitId}

UpdateCall ==
    {c \in [pc: {"update", "written"} \cup Ended, op: {"cancel", "reschedule", "confirm"},
            user: User, propertyId: {None}, scheduledAt: Time \cup {None}, key: {None},
            id: VisitId] :
       /\ c.op = "reschedule" => c.scheduledAt \in Time
       /\ c.op = "confirm" => c.pc # "written"}

Event == [name: {"visit.booked", "visit.cancelled", "visit.rescheduled"},
          visit: VisitId, src: Request]

-----------------------------------------------------------------------------
(* Queries.                                                                *)

Booked == {v \in VisitId : visits[v] # None}

\* where: { status: { notIn: [CANCELLED] } }
Active(v) == visits[v] # None /\ visits[v].status # "CANCELLED"

\* scheduledAt: { gte: slotStart, lte: slotEnd }: both ends included.
InSlot(s, t) == s <= t + SlotDuration /\ t <= s + SlotDuration

ConflictsConfirmed(p, t) ==
    {v \in VisitId : visits[v] # None /\ visits[v].status = "CONFIRMED"
                                     /\ visits[v].propertyId = p
                                     /\ InSlot(visits[v].scheduledAt, t)}

Conflicts(p, t) ==
    {v \in VisitId : Active(v) /\ visits[v].propertyId = p
                               /\ InSlot(visits[v].scheduledAt, t)}

FindByAnyKey(k) == Booked

FindByKey(k) == {v \in Booked : visits[v].idempotencyKey = k}

\* The unique index on idempotency_key, which rejects an insert (P2002).
KeyTaken(k) == \E v \in Booked : visits[v].idempotencyKey = k

HasAccessToAny(u, v) == TRUE

HasAccess(u, v) == u \in {visits[v].tenantId, visits[v].ownerId}

-----------------------------------------------------------------------------
(* Serving a request.                                                      *)

Served(r) == req[r].pc \in Suspended

Admitted(r, op) ==
    /\ req[r].pc = "new"
    /\ op \in Ops

GoTo(r, pc) == req' = [req EXCEPT ![r].pc = pc]

Serve(r, call) == req' = [req EXCEPT ![r] = call]

\* The calls of book() about to insert a visit of p, and those about to update v.
Inserting(p) == {q \in Request : req[q].pc = "create" /\ req[q].propertyId = p}
Updating(v)  == {q \in Request : req[q].pc = "update" /\ req[q].id = v}

\* A check of call r passes while those of Q stand between check and write.
Crosses(r, Q) == crossed' = crossed \cup {{r, q} : q \in Q}

\* book: no visit has the idempotency key yet.
BookNew(r) ==
    /\ Admitted(r, "book")
    /\ \E u \in Tenant, p \in Property, t \in Time, k \in Key :
          /\ FindByKey(k) = {}
          /\ Serve(r, [NewCall EXCEPT !.pc = "property", !.op = "book", !.user = u,
                           !.propertyId = p, !.scheduledAt = t, !.key = k])
    /\ UNCHANGED <<visits, listed, now, emitted, crossed>>

BookReplayAnnounced(r) ==
    /\ Admitted(r, "book")
    /\ \E u \in Tenant, p \in Property, t \in Time, k \in Key :
       \E v \in FindByKey(k) :
          Serve(r, [pc |-> "written", op |-> "book", user |-> u, propertyId |-> p,
                    scheduledAt |-> t, key |-> k, id |-> v])
    /\ UNCHANGED <<visits, listed, now, emitted, crossed>>

\* book: the key is known, and the visit found is the answer whatever else
\* the call says.
BookReplay(r) ==
    /\ Admitted(r, "book")
    /\ \E u \in Tenant, p \in Property, t \in Time, k \in Key :
       \E v \in FindByKey(k) :
          Serve(r, [pc |-> "answered", op |-> "book", user |-> u, propertyId |-> p,
                    scheduledAt |-> t, key |-> k, id |-> v])
    /\ UNCHANGED <<visits, listed, now, emitted, crossed>>

\* book: the property must be listed and the visit not in the past.
BookProperty(r) ==
    /\ req[r].pc = "property"
    /\ IF req[r].propertyId \in listed /\ req[r].scheduledAt >= now
       THEN GoTo(r, "conflict")
       ELSE GoTo(r, "rejected")
    /\ UNCHANGED <<visits, listed, now, emitted, crossed>>

\* book: no active visit of the property near the requested time.
BookConflict(r) ==
    /\ req[r].pc = "conflict"
    /\ IF Conflicts(req[r].propertyId, req[r].scheduledAt) = {}
       THEN GoTo(r, "create") /\ Crosses(r, Inserting(req[r].propertyId))
       ELSE GoTo(r, "rejected") /\ UNCHANGED crossed
    /\ UNCHANGED <<visits, listed, now, emitted>>

\* book: the insert, which the unique index on the key may refuse.
BookCreate(r) ==
    /\ req[r].pc = "create"
    /\ \/ /\ KeyTaken(req[r].key)
          /\ GoTo(r, "rejected")
          /\ UNCHANGED visits
       \/ /\ ~KeyTaken(req[r].key)
          /\ \E v \in VisitId \ Booked :
                /\ visits' = [visits EXCEPT ![v] =
                      [propertyId |-> req[r].propertyId, tenantId |-> req[r].user,
                       ownerId |-> OwnerOf[req[r].propertyId],
                       scheduledAt |-> req[r].scheduledAt, status |-> "PENDING",
                       idempotencyKey |-> req[r].key, cancelledAt |-> FALSE]]
                /\ req' = [req EXCEPT ![r].pc = "written", ![r].id = v]
    /\ UNCHANGED <<listed, now, emitted, crossed>>

\* The read of cancel, reschedule and confirm: 404, 403 and the status check
\* of each operation.
ReadVisit(r, op, u, v, t, ok) ==
    /\ Admitted(r, op)
    /\ Serve(r, [pc |-> IF v \in Booked /\ ok THEN "update" ELSE "rejected",
                 op |-> op, user |-> u, propertyId |-> None, scheduledAt |-> t,
                 key |-> None, id |-> v])
    /\ Crosses(r, IF v \in Booked /\ ok THEN Updating(v) ELSE {})
    /\ UNCHANGED <<visits, listed, now, emitted>>

CancelReadAnyStatus(r) ==
    \E u \in User, v \in VisitId : ReadVisit(r, "cancel", u, v, None, HasAccess(u, v))

CancelRead(r) ==
    \E u \in User, v \in VisitId :
       ReadVisit(r, "cancel", u, v, None,
                 HasAccess(u, v) /\ visits[v].status \notin {"CANCELLED", "COMPLETED"})

\* reschedule is for tenants; it looks at the clock, not at the slots taken.
RescheduleRead(r) ==
    \E u \in Tenant, v \in VisitId, t \in Time :
       ReadVisit(r, "reschedule", u, v, t,
                 /\ HasAccess(u, v)
                 /\ visits[v].status \notin {"CANCELLED", "COMPLETED"}
                 /\ t >= now)

ConfirmReadAnyStatus(r) ==
    \E u \in User \ Tenant, v \in VisitId :
       ReadVisit(r, "confirm", u, v, None, visits[v].ownerId = u)

\* confirm is for owners, and finds only the caller's own visits.
ConfirmRead(r) ==
    \E u \in User \ Tenant, v \in VisitId :
       ReadVisit(r, "confirm", u, v, None,
                 visits[v].ownerId = u /\ visits[v].status = "PENDING")

\* The updates name the row by its id alone: none repeats the check made on
\* the row that was read.
Update(r, op, pc) ==
    /\ req[r].pc = "update" /\ req[r].op = op
    /\ GoTo(r, pc)
    /\ UNCHANGED <<listed, now, emitted, crossed>>

CancelWriteUnstamped(r) ==
    /\ Update(r, "cancel", "written")
    /\ visits' = [visits EXCEPT ![req[r].id].status = "CANCELLED"]

CancelWrite(r) ==
    /\ Update(r, "cancel", "written")
    /\ visits' = [visits EXCEPT ![req[r].id].status = "CANCELLED",
                                ![req[r].id].cancelledAt = TRUE]

RescheduleWriteConfirmed(r) ==
    /\ Update(r, "reschedule", "written")
    /\ visits' = [visits EXCEPT ![req[r].id].scheduledAt = req[r].scheduledAt]

RescheduleWrite(r) ==
    /\ Update(r, "reschedule", "written")
    /\ visits' = [visits EXCEPT ![req[r].id].scheduledAt = req[r].scheduledAt,
                                ![req[r].id].status = "PENDING"]

\* confirm emits no event: the update is its last step.
ConfirmWrite(r) ==
    /\ Update(r, "confirm", "answered")
    /\ visits' = [visits EXCEPT ![req[r].id].status = "CONFIRMED"]

EventOfUpdate(op) == IF op = "book" THEN "visit.booked" ELSE "visit.updated"

EventOf(op) == CASE op = "book"       -> "visit.booked"
                 [] op = "cancel"     -> "visit.cancelled"
                 [] op = "reschedule" -> "visit.rescheduled"

\* The code after the write: emit the event, answer the client.
Emit(r) ==
    /\ req[r].pc = "written"
    /\ GoTo(r, "answered")
    /\ emitted' = emitted \cup
          {[name |-> EventOf(req[r].op), visit |-> req[r].id, src |-> r]}
    /\ UNCHANGED <<visits, listed, now, crossed>>

-----------------------------------------------------------------------------
(* The environment.                                                        *)

\* The awaited call fails, or the process stops: the request is forgotten,
\* what it has written stays.
Abort(r) ==
    /\ Served(r)
    /\ GoTo(r, "aborted")
    /\ UNCHANGED <<visits, listed, now, emitted, crossed>>

\* PropertiesService.remove, of which this service sees only deletedAt.
Delist(p) ==
    /\ p \in listed
    /\ listed' = listed \ {p}
    /\ UNCHANGED <<visits, now, req, emitted, crossed>>

Tick ==
    /\ now < MaxTime
    /\ now' = now + 1
    /\ UNCHANGED <<visits, listed, req, emitted, crossed>>

-----------------------------------------------------------------------------

Init ==
    /\ visits = [v \in VisitId |-> None]
    /\ listed = Property
    /\ now = 0
    /\ req = [r \in Request |-> NewCall]
    /\ emitted = {}
    /\ crossed = {}

Book(r) == BookNew(r) \/ BookReplay(r) \/ BookProperty(r) \/ BookConflict(r) \/ BookCreate(r)

Cancel(r) == CancelRead(r) \/ CancelWrite(r)

Reschedule(r) == RescheduleRead(r) \/ RescheduleWrite(r)

Confirm(r) == ConfirmRead(r) \/ ConfirmWrite(r)

Handle(r) == Book(r) \/ Cancel(r) \/ Reschedule(r) \/ Confirm(r) \/ Emit(r) \/ Abort(r)

Next == (\E r \in Request : Handle(r)) \/ (\E p \in Property : Delist(p)) \/ Tick

Spec == Init /\ [][Next]_vars

-----------------------------------------------------------------------------
(* What holds whatever the interleaving.                                   *)

\* The tables and the requests hold what their types allow.
TypeOK ==
    /\ visits \in [VisitId -> Visit \cup {None}]
    /\ listed \subseteq Property
    /\ now \in Time
    /\ req \in [Request -> {NewCall} \cup BookCall \cup UpdateCall]
    /\ emitted \subseteq Event
    /\ crossed \subseteq SUBSET Request

\* An idempotency key books one visit, however many calls carry it and
\* however they interleave: book() looks the key up first, and the unique
\* index stops the calls that looked before the first insert.
KeyUnique ==
    \A v, w \in Booked : visits[v].idempotencyKey = visits[w].idempotencyKey => v = w

\* Two calls of book() with one key that both succeed are given one visit,
\* and it is a visit booked under that key.
RetriesAgree ==
    \A r, q \in Request :
       /\ req[r].op = "book" /\ req[r].pc = "answered"
       /\ req[q].op = "book" /\ req[q].pc = "answered"
       /\ req[r].key = req[q].key
       => /\ req[r].id = req[q].id
          /\ req[r].id \in Booked
          /\ visits[req[r].id].idempotencyKey = req[r].key

\* The owner hears of a new visit once: visit.booked is emitted by the call
\* that inserted the row, never by a retry that found it.
BookedAnnouncedOnce ==
    \A e, f \in emitted :
       e.name = "visit.booked" /\ f.name = "visit.booked" /\ e.visit = f.visit => e = f

\* Only the tenant and the owner of a visit change it, and only the owner
\* confirms it, although the access check and the update are two statements
\* between which other requests run.
OnlyPartiesChange ==
    [][\A v \in Booked : visits'[v] # visits[v] =>
          \E r \in Request :
             /\ req[r].pc = "update" /\ req'[r].pc # "update" /\ req[r].id = v
             /\ req[r].user \in {visits[v].tenantId, visits[v].ownerId}
             /\ visits'[v].status = "CONFIRMED" /\ visits[v].status # "CONFIRMED"
                   => req[r].user = visits[v].ownerId]_vars

-----------------------------------------------------------------------------
(* What a check made before an await is worth: it holds at the write but   *)
(* for calls that crossed.                                                 *)

Apart(v, w) ==
    \/ visits[v].scheduledAt + SlotDuration <= visits[w].scheduledAt
    \/ visits[w].scheduledAt + SlotDuration <= visits[v].scheduledAt

Rivals(v, w) == v # w /\ visits[v].propertyId = visits[w].propertyId /\ Active(v) /\ Active(w)

\* A call of reschedule() was let through for this visit.
Moved(v) ==
    \E r \in Request : req[r].op = "reschedule" /\ req[r].id = v /\ req[r].pc # "rejected"

\* The visits were inserted by calls that crossed.
BookedCrossing(v, w) ==
    \E r, q \in Request :
       {r, q} \in crossed /\ req[r].op = "book" /\ req[q].op = "book" /\ req[r].id = v /\ req[q].id = w

\* A cancel() of the visit crossed another operation on it.
CancelCrossed(v) ==
    \E r, q \in Request :
       /\ {r, q} \in crossed /\ req[r].id = v /\ req[q].id = v
       /\ req[r].op = "cancel" /\ req[q].op \in {"reschedule", "confirm"}

\* Two visits of a property that are not cancelled do not overlap: each takes
\* SLOT_DURATION_MINUTES.  This is what the conflict query of book() is for.
NoDoubleBooking == \A v, w \in Booked : Rivals(v, w) => Apart(v, w)

\* The same where no two calls ever crossed.
NoDoubleBookingAlone == crossed = {} => NoDoubleBooking

\* What is left of it.  Two visits overlap only when one was rescheduled, or
\* was cancelled and is live again, or when the two were inserted by calls each
\* of which had asked for conflicts before the other inserted.
BookedApart ==
    \A v, w \in Booked : Rivals(v, w) =>
       \/ Apart(v, w)
       \/ \E x \in {v, w} : Moved(x) \/ visits[x].cancelledAt
       \/ BookedCrossing(v, w)

\* A visit that is CANCELLED says when it was; and one that says so is
\* CANCELLED, unless a cancel() crossed a reschedule() or a confirm(), which
\* puts the status back and leaves the stamp.
CancelledIsStamped ==
    \A v \in Booked :
       /\ visits[v].status = "CANCELLED" => visits[v].cancelledAt
       /\ visits[v].cancelledAt => visits[v].status = "CANCELLED" \/ CancelCrossed(v)

\* A cancelled visit is changed only by a call that had passed its check while
\* one that cancelled the visit was on its way to write.
CancelledIsFinal ==
    [][\A v \in Booked : visits[v].status = "CANCELLED" /\ visits'[v] # visits[v] =>
          \E r, q \in Request :
             /\ req[r].id = v /\ req[r].pc = "update" /\ req'[r].pc # "update"
             /\ req[q].id = v /\ req[q].op = "cancel"
             /\ {r, q} \in crossed]_vars

\* A visit is announced as cancelled once, unless two calls of cancel() crossed
\* or one crossed a call that put the status back.
CancelAnnouncedOnce ==
    \A e, f \in emitted :
       /\ e.name = "visit.cancelled" /\ f.name = "visit.cancelled" /\ e.visit = f.visit
       /\ e # f
       => {e.src, f.src} \in crossed \/ CancelCrossed(e.visit)

\* What a call that has passed its check is about to write.
Plan(r) ==
    IF req[r].pc \in {"create", "update"}
    THEN {[op |-> req[r].op, user |-> req[r].user, propertyId |-> req[r].propertyId,
           scheduledAt |-> req[r].scheduledAt, key |-> req[r].key, id |-> req[r].id]}
    ELSE {}

Plans == [r \in Request |-> Plan(r)]

\* The service implements the board: what a call decided when it checked, it
\* writes once or never, and a key is fresh also at the write.
Board == INSTANCE VisitBoard WITH board <- visits, decided <- Plans

ImplementsBoard == Board!Spec
=============================================================================
