---------------------------- MODULE VisitsProofs ----------------------------
(***************************************************************************)
(* Proofs about Visits, for every set of calls, visits, properties, users  *)
(* and keys, and every length of a slot and of the clock.                  *)
(***************************************************************************)
EXTENDS Visits, TLAPS

-----------------------------------------------------------------------------
(* Type correctness.  TypeOK alone is not inductive: an update that named  *)
(* an id no row has would write a field of None.  What makes it so is that *)
(* a request past its read or its insert names a row, which no code        *)
(* deletes.                                                                *)

\* A request that is about to write, has written or has been answered names
\* a row; if it books, the row is one with its key.
Found ==
    \A r \in Request : req[r].pc \in {"update", "written", "answered"} =>
       /\ req[r].id \in Booked
       /\ req[r].op = "book" => visits[req[r].id].idempotencyKey = req[r].key

TypeInv == TypeOK /\ Found

\* The fields of a row that identify the visit.
SameVisit(a, b) ==
    /\ a.propertyId = b.propertyId /\ a.tenantId = b.tenantId
    /\ a.ownerId = b.ownerId /\ a.idempotencyKey = b.idempotencyKey

LEMMA TypeInit == ASSUME Init PROVE TypeOK
BY VisitsAssumption DEF Init, TypeOK, Time

LEMMA TypeBookNew == ASSUME TypeOK, NEW r \in Request, BookNew(r) PROVE TypeOK'
<1>1. PICK u \in Tenant, p \in Property, t \in Time, k \in Key :
        Serve(r, [NewCall EXCEPT !.pc = "property", !.op = "book", !.user = u,
                      !.propertyId = p, !.scheduledAt = t, !.key = k])
  BY DEF BookNew
<1> DEFINE call == [NewCall EXCEPT !.pc = "property", !.op = "book", !.user = u,
                        !.propertyId = p, !.scheduledAt = t, !.key = k]
<1>2. call \in BookCall
  BY DEF NewCall, BookCall, Suspended, Ended
<1>3. req' \in [Request -> {NewCall} \cup BookCall \cup UpdateCall]
  BY <1>1, <1>2 DEF TypeOK, Serve
<1>4. QED
  BY <1>3 DEF TypeOK, BookNew

LEMMA TypeBookReplay == ASSUME TypeOK, NEW r \in Request, BookReplay(r) PROVE TypeOK'
BY DEF TypeOK, BookReplay, Serve, FindByKey, Booked, BookCall, Suspended, Ended

LEMMA TypeBookProperty == ASSUME TypeOK, NEW r \in Request, BookProperty(r) PROVE TypeOK'
<1>1. req[r] \in BookCall
  BY DEF TypeOK, BookProperty, NewCall, BookCall, UpdateCall, Ended
<1>2. QED
  BY <1>1 DEF TypeOK, BookProperty, GoTo, BookCall, Suspended, Ended

LEMMA TypeBookConflict == ASSUME TypeOK, NEW r \in Request, BookConflict(r) PROVE TypeOK'
<1>1. req[r] \in BookCall
  BY DEF TypeOK, BookConflict, NewCall, BookCall, UpdateCall, Ended
<1>2. crossed' \subseteq SUBSET Request
  BY DEF TypeOK, BookConflict, Crosses, Inserting
<1>3. QED
  BY <1>1, <1>2 DEF TypeOK, BookConflict, GoTo, BookCall, Suspended, Ended

\* The row a call of book() inserts.
NewRow(r) ==
    [propertyId |-> req[r].propertyId, tenantId |-> req[r].user,
     ownerId |-> OwnerOf[req[r].propertyId],
     scheduledAt |-> req[r].scheduledAt, status |-> "PENDING",
     idempotencyKey |-> req[r].key, cancelledAt |-> FALSE]

\* An insert puts that row under an unused id, or is refused.
LEMMA BookCreates ==
    ASSUME TypeOK, NEW r \in Request, BookCreate(r)
    PROVE  /\ req[r] \in BookCall
           /\ NewRow(r) \in Visit
           /\ \/ /\ KeyTaken(req[r].key)
                 /\ req' = [req EXCEPT ![r] = [req[r] EXCEPT !.pc = "rejected"]]
                 /\ visits' = visits
              \/ /\ ~KeyTaken(req[r].key)
                 /\ \E v \in VisitId \ Booked :
                       /\ visits' = [visits EXCEPT ![v] = NewRow(r)]
                       /\ req' = [req EXCEPT ![r] = [req[r] EXCEPT !.pc = "written", !.id = v]]
<1>1. req[r] \in BookCall
  BY DEF TypeOK, BookCreate, NewCall, BookCall, UpdateCall, Ended
<1>2. req[r].propertyId \in Property /\ OwnerOf[req[r].propertyId] \in User
  BY <1>1, VisitsAssumption DEF BookCall
<1>3. NewRow(r) \in Visit
  BY <1>1, <1>2 DEF NewRow, BookCall, Visit, VisitStatus
<1>4. CASE KeyTaken(req[r].key)
  BY <1>1, <1>3, <1>4 DEF TypeOK, BookCreate, GoTo
<1>5. CASE ~KeyTaken(req[r].key)
  BY <1>1, <1>3, <1>5 DEF TypeOK, BookCreate, NewRow
<1>6. QED
  BY <1>4, <1>5

LEMMA TypeBookCreate == ASSUME TypeOK, NEW r \in Request, BookCreate(r) PROVE TypeOK'
<1>1. req[r] \in BookCall /\ NewRow(r) \in Visit
  BY BookCreates
<1>2. /\ visits' \in [VisitId -> Visit \cup {None}]
      /\ req' \in [Request -> {NewCall} \cup BookCall \cup UpdateCall]
  <2>1. CASE KeyTaken(req[r].key)
    <3>1. [req[r] EXCEPT !.pc = "rejected"] \in BookCall
      BY <1>1 DEF BookCall, Suspended, Ended
    <3>2. visits' = visits /\ req' = [req EXCEPT ![r] = [req[r] EXCEPT !.pc = "rejected"]]
      BY <2>1, BookCreates
    <3>3. QED
      BY <3>1, <3>2 DEF TypeOK
  <2>2. CASE ~KeyTaken(req[r].key)
    <3>1. PICK v \in VisitId \ Booked :
            /\ visits' = [visits EXCEPT ![v] = NewRow(r)]
            /\ req' = [req EXCEPT ![r] = [req[r] EXCEPT !.pc = "written", !.id = v]]
      BY <2>2, BookCreates
    <3>2. [req[r] EXCEPT !.pc = "written", !.id = v] \in BookCall
      BY <1>1 DEF BookCall, Suspended
    <3>3. visits' \in [VisitId -> Visit \cup {None}]
      BY <1>1, <3>1 DEF TypeOK
    <3>4. req' \in [Request -> {NewCall} \cup BookCall \cup UpdateCall]
      BY <3>1, <3>2 DEF TypeOK
    <3>5. QED
      BY <3>3, <3>4
  <2>3. QED
    BY <2>1, <2>2
<1>3. QED
  BY <1>2 DEF TypeOK, BookCreate

\* The three reads are one action with different parameters.
LEMMA ReadsVisit ==
    ASSUME NEW r \in Request, CancelRead(r) \/ RescheduleRead(r) \/ ConfirmRead(r)
    PROVE  \E op \in {"cancel", "reschedule", "confirm"}, u \in User, v \in VisitId,
              t \in Time \cup {None}, ok \in BOOLEAN :
              ReadVisit(r, op, u, v, t, ok) /\ (op = "reschedule" => t \in Time)
<1>1. CASE CancelRead(r)
  BY <1>1 DEF CancelRead, ReadVisit
<1>2. CASE RescheduleRead(r)
  BY <1>2 DEF RescheduleRead, User
<1>3. CASE ConfirmRead(r)
  BY <1>3 DEF ConfirmRead
<1>4. QED
  BY <1>1, <1>2, <1>3

LEMMA TypeRead ==
    ASSUME TypeOK, NEW r \in Request, CancelRead(r) \/ RescheduleRead(r) \/ ConfirmRead(r)
    PROVE  TypeOK'
<1>1. PICK op \in {"cancel", "reschedule", "confirm"}, u \in User, v \in VisitId,
           t \in Time \cup {None}, ok \in BOOLEAN :
        ReadVisit(r, op, u, v, t, ok) /\ (op = "reschedule" => t \in Time)
  BY ReadsVisit
<1>2. crossed' \subseteq SUBSET Request
  BY <1>1 DEF TypeOK, ReadVisit, Crosses, Updating
<1>3. QED
  BY <1>1, <1>2 DEF TypeOK, ReadVisit, Serve, UpdateCall, Ended

LEMMA TypeWrite ==
    ASSUME TypeInv, NEW r \in Request, CancelWrite(r) \/ RescheduleWrite(r) \/ ConfirmWrite(r)
    PROVE  TypeOK'
<1>1. req[r] \in UpdateCall /\ (RescheduleWrite(r) => req[r].scheduledAt \in Time)
  BY DEF TypeInv, TypeOK, CancelWrite, RescheduleWrite, ConfirmWrite, Update, NewCall, BookCall,
         UpdateCall, Suspended, Ended
<1>2. req' \in [Request -> {NewCall} \cup BookCall \cup UpdateCall]
  BY <1>1 DEF TypeInv, TypeOK, CancelWrite, RescheduleWrite, ConfirmWrite, Update, GoTo, UpdateCall, Ended
<1>3. req[r].id \in VisitId /\ visits[req[r].id] \in Visit
  BY DEF TypeInv, TypeOK, Found, Booked, CancelWrite, RescheduleWrite, ConfirmWrite, Update
<1>4. visits' \in [VisitId -> Visit \cup {None}]
  BY <1>1, <1>3
     DEF TypeInv, TypeOK, CancelWrite, RescheduleWrite, ConfirmWrite, Visit, VisitStatus
<1>5. QED
  BY <1>2, <1>4 DEF TypeInv, TypeOK, CancelWrite, RescheduleWrite, ConfirmWrite, Update

LEMMA TypeEmit == ASSUME TypeInv, NEW r \in Request, Emit(r) PROVE TypeOK'
<1>1. req[r] \in BookCall \cup UpdateCall
  BY DEF TypeInv, TypeOK, Emit, NewCall
<1>2. [req[r] EXCEPT !.pc = "answered"] \in BookCall \cup UpdateCall
  BY <1>1 DEF Emit, BookCall, UpdateCall, Suspended, Ended
<1>3. [name |-> EventOf(req[r].op), visit |-> req[r].id, src |-> r] \in Event
  BY <1>1 DEF Emit, BookCall, UpdateCall, EventOf, Event
<1>4. QED
  BY <1>2, <1>3 DEF TypeInv, TypeOK, Emit, GoTo

LEMMA TypeAbort == ASSUME TypeOK, NEW r \in Request, Abort(r) PROVE TypeOK'
<1>1. req[r] \in BookCall \cup UpdateCall
  BY DEF TypeOK, Abort, Served, NewCall, Suspended
<1>2. [req[r] EXCEPT !.pc = "aborted"] \in BookCall \cup UpdateCall
  BY <1>1 DEF BookCall, UpdateCall, Suspended, Ended
<1>3. QED
  BY <1>2 DEF TypeOK, Abort, GoTo

LEMMA TypeEnvironment ==
    ASSUME TypeOK, Tick \/ \E p \in Property : Delist(p)
    PROVE  TypeOK'
BY VisitsAssumption DEF TypeOK, Tick, Delist, Time

LEMMA TypeStep == ASSUME TypeInv, [Next]_vars PROVE TypeOK'
<1>1. ASSUME NEW r \in Request, Handle(r) PROVE TypeOK'
  BY <1>1, TypeBookNew, TypeBookReplay, TypeBookProperty, TypeBookConflict, TypeBookCreate,
     TypeRead, TypeWrite, TypeEmit, TypeAbort
     DEF TypeInv, Handle, Book, Cancel, Reschedule, Confirm
<1>2. CASE UNCHANGED vars
  BY <1>2 DEF TypeInv, TypeOK, vars
<1>3. QED
  BY <1>1, <1>2, TypeEnvironment DEF TypeInv, Next

\* A row stays, and stays the visit it is.
LEMMA RowsStay ==
    ASSUME TypeInv, [Next]_vars, NEW v \in Booked
    PROVE  v \in Booked' /\ SameVisit(visits[v], visits'[v])
<1>1. CASE visits' = visits
  BY <1>1 DEF Booked, SameVisit
<1>2. ASSUME NEW r \in Request, BookCreate(r), visits' # visits
      PROVE  v \in Booked' /\ SameVisit(visits[v], visits'[v])
  BY <1>2 DEF BookCreate, TypeInv, TypeOK, Booked, SameVisit
<1>3. ASSUME NEW r \in Request, CancelWrite(r) \/ RescheduleWrite(r) \/ ConfirmWrite(r)
      PROVE  v \in Booked' /\ SameVisit(visits[v], visits'[v])
  <2>1. visits[v] \in Visit
    BY DEF TypeInv, TypeOK, Booked
  <2>2. SameVisit(visits[v], visits'[v]) /\ visits'[v] \in Visit
    <3>1. CASE v # req[r].id
      <4>1. v \in VisitId /\ visits \in [VisitId -> Visit \cup {None}]
        BY DEF TypeInv, TypeOK, Booked
      <4>2. visits'[v] = visits[v]
        BY <1>3, <3>1, <4>1 DEF CancelWrite, RescheduleWrite, ConfirmWrite
      <4>3. QED
        BY <2>1, <4>2 DEF SameVisit
    <3>2. CASE v = req[r].id /\ CancelWrite(r)
      BY <2>1, <3>2 DEF TypeInv, TypeOK, Booked, Visit, VisitStatus, CancelWrite, SameVisit
    <3>3. CASE v = req[r].id /\ RescheduleWrite(r)
      <4>1. req[r].scheduledAt \in Time
        BY <3>3 DEF TypeInv, TypeOK, RescheduleWrite, Update, NewCall, BookCall, UpdateCall, Suspended, Ended
      <4>2. QED
        BY <2>1, <3>3, <4>1 DEF TypeInv, TypeOK, Booked, Visit, VisitStatus, RescheduleWrite, SameVisit
    <3>4. CASE v = req[r].id /\ ConfirmWrite(r)
      BY <2>1, <3>4 DEF TypeInv, TypeOK, Booked, Visit, VisitStatus, ConfirmWrite, SameVisit
    <3>5. QED
      BY <1>3, <3>1, <3>2, <3>3, <3>4
  <2>3. QED
    BY <2>2, NoRowIsNone DEF Booked
<1>4. CASE UNCHANGED vars
  BY <1>1, <1>4 DEF vars
<1>5. ASSUME NEW r \in Request, Handle(r)
      PROVE  v \in Booked' /\ SameVisit(visits[v], visits'[v])
  BY <1>1, <1>2, <1>3, <1>5
     DEF Handle, Book, Cancel, Reschedule, Confirm, BookNew, BookReplay, BookProperty,
         BookConflict, CancelRead, RescheduleRead, ConfirmRead, ReadVisit, Emit, Abort
<1>6. QED
  BY <1>1, <1>4, <1>5 DEF Next, Delist, Tick

\* A request the step leaves alone still names its row.
LEMMA FoundKept ==
    ASSUME TypeInv, [Next]_vars, NEW q \in Request, req'[q].pc \in {"update", "written", "answered"},
           req[q].pc \in {"update", "written", "answered"},
           req'[q].id = req[q].id, req'[q].op = req[q].op, req'[q].key = req[q].key
    PROVE  /\ req'[q].id \in Booked'
           /\ req'[q].op = "book" => visits'[req'[q].id].idempotencyKey = req'[q].key
BY RowsStay DEF TypeInv, Found, SameVisit

LEMMA FoundBook ==
    ASSUME TypeInv, NEW r \in Request, Book(r), TypeOK', [Next]_vars
    PROVE  Found'
<1>. SUFFICES ASSUME NEW q \in Request, req'[q].pc \in {"update", "written", "answered"}
              PROVE  /\ req'[q].id \in Booked'
                     /\ req'[q].op = "book" => visits'[req'[q].id].idempotencyKey = req'[q].key
  BY DEF Found
<1>1. req \in [Request -> {NewCall} \cup BookCall \cup UpdateCall]
  BY DEF TypeInv, TypeOK
<1>2. CASE q # r
  <2>1. req'[q] = req[q]
    BY <1>1, <1>2 DEF Book, BookNew, BookReplay, BookProperty, BookConflict, BookCreate, GoTo, Serve
  <2>2. QED
    BY <2>1, FoundKept
<1>3. CASE q = r /\ BookReplay(r)
  <2>1. PICK u \in Tenant, p \in Property, t \in Time, k \in Key : \E v \in FindByKey(k) :
          Serve(r, [pc |-> "answered", op |-> "book", user |-> u, propertyId |-> p,
                    scheduledAt |-> t, key |-> k, id |-> v])
    BY <1>3 DEF BookReplay
  <2>2. req'[q].id \in FindByKey(k) /\ req'[q].key = k
    BY <1>1, <1>3, <2>1 DEF Serve
  <2>3. QED
    BY <1>3, <2>2 DEF BookReplay, FindByKey, Booked
<1>4. CASE q = r /\ BookCreate(r)
  <2>1. PICK v \in VisitId \ Booked :
          /\ visits' = [visits EXCEPT ![v] = NewRow(r)]
          /\ req' = [req EXCEPT ![r] = [req[r] EXCEPT !.pc = "written", !.id = v]]
    <3>1. req' # [req EXCEPT ![r] = [req[r] EXCEPT !.pc = "rejected"]]
      <4>1. req[r] \in BookCall
        BY <1>4, BookCreates DEF TypeInv
      <4>2. [req[r] EXCEPT !.pc = "rejected"].pc = "rejected"
        BY <4>1 DEF BookCall
      <4>3. QED
        BY <1>1, <1>4, <4>2
    <3>2. QED
      BY <1>4, <3>1, BookCreates DEF TypeInv
  <2>2. visits'[v] = NewRow(r) /\ NewRow(r) \in Visit /\ req[r] \in BookCall
    BY <1>4, <2>1, BookCreates DEF TypeInv, TypeOK
  <2>3. req'[q].id = v /\ req'[q].key = req[r].key
    BY <1>1, <1>4, <2>1, <2>2 DEF BookCall
  <2>4. QED
    BY <2>2, <2>3, NoRowIsNone DEF Booked, NewRow
<1>5. CASE q = r /\ ~BookReplay(r) /\ ~BookCreate(r)
  <2>1. CASE BookNew(r)
    BY <1>1, <1>5, <2>1 DEF BookNew, Serve, NewCall
  <2>2. CASE BookProperty(r) \/ BookConflict(r)
    <3>1. req[r] \in BookCall
      BY <1>1, <2>2 DEF BookProperty, BookConflict, NewCall, BookCall, UpdateCall, Ended
    <3>2. QED
      BY <1>1, <1>5, <2>2, <3>1 DEF BookProperty, BookConflict, GoTo, BookCall
  <2>3. QED
    BY <1>5, <2>1, <2>2 DEF Book
<1>6. QED
  BY <1>2, <1>3, <1>4, <1>5

LEMMA FoundOther ==
    ASSUME TypeInv, NEW r \in Request, Cancel(r) \/ Reschedule(r) \/ Confirm(r) \/ Emit(r) \/ Abort(r),
           [Next]_vars
    PROVE  Found'
<1>. SUFFICES ASSUME NEW q \in Request, req'[q].pc \in {"update", "written", "answered"}
              PROVE  /\ req'[q].id \in Booked'
                     /\ req'[q].op = "book" => visits'[req'[q].id].idempotencyKey = req'[q].key
  BY DEF Found
<1>1. req \in [Request -> {NewCall} \cup BookCall \cup UpdateCall]
  BY DEF TypeInv, TypeOK
<1>2. CASE q # r
  <2>1. req'[q] = req[q]
    BY <1>1, <1>2 DEF Cancel, Reschedule, Confirm, CancelRead, RescheduleRead, ConfirmRead, ReadVisit,
       CancelWrite, RescheduleWrite, ConfirmWrite, Update, Emit, Abort, GoTo, Serve
  <2>2. QED
    BY <2>1, FoundKept
<1>3. CASE q = r /\ (CancelRead(r) \/ RescheduleRead(r) \/ ConfirmRead(r))
  <2>1. PICK op \in {"cancel", "reschedule", "confirm"}, u \in User, v \in VisitId,
             t \in Time \cup {None}, ok \in BOOLEAN : ReadVisit(r, op, u, v, t, ok)
    BY <1>3, ReadsVisit
  <2>2. req'[q].pc = "update" => v \in Booked
    BY <1>1, <1>3, <2>1 DEF ReadVisit, Serve
  <2>3. QED
    BY <1>1, <1>3, <2>1, <2>2 DEF ReadVisit, Serve, Booked
<1>4. CASE q = r /\ (CancelWrite(r) \/ RescheduleWrite(r) \/ ConfirmWrite(r) \/ Emit(r))
  <2>1. req[r] \in BookCall \cup UpdateCall /\ req[r].pc \in {"update", "written"}
    BY <1>1, <1>4 DEF CancelWrite, RescheduleWrite, ConfirmWrite, Update, Emit, NewCall
  <2>2. req'[q].id = req[q].id /\ req'[q].op = req[q].op /\ req'[q].key = req[q].key
    BY <1>1, <1>4, <2>1
       DEF CancelWrite, RescheduleWrite, ConfirmWrite, Update, Emit, GoTo, BookCall, UpdateCall
  <2>3. QED
    BY <1>4, <2>1, <2>2, FoundKept
<1>5. CASE q = r /\ Abort(r)
  <2>1. req[r] \in BookCall \cup UpdateCall
    BY <1>1, <1>5 DEF Abort, Served, NewCall, Suspended
  <2>2. QED
    BY <1>1, <1>5, <2>1 DEF Abort, GoTo, BookCall, UpdateCall
<1>6. QED
  BY <1>2, <1>3, <1>4, <1>5 DEF Cancel, Reschedule, Confirm

LEMMA FoundStep == ASSUME TypeInv, [Next]_vars PROVE Found'
<1>1. CASE UNCHANGED vars
  BY <1>1 DEF TypeInv, Found, Booked, vars
<1>2. CASE Tick \/ \E p \in Property : Delist(p)
  BY <1>2 DEF TypeInv, Found, Booked, Tick, Delist
<1>3. ASSUME NEW r \in Request, Handle(r) PROVE Found'
  BY <1>3, TypeStep, FoundBook, FoundOther DEF Handle
<1>4. QED
  BY <1>1, <1>2, <1>3 DEF Next

LEMMA TypeInvariant == Spec => []TypeInv
<1>1. Init => TypeInv
  BY TypeInit DEF TypeInv, Found, Init, NewCall
<1>2. TypeInv /\ [Next]_vars => TypeInv'
  BY TypeStep, FoundStep DEF TypeInv
<1>3. QED
  BY <1>1, <1>2, PTL DEF Spec

\* The tables and the requests of VisitsService always have their types: in
\* particular no update ever names a row that is not there.
THEOREM TypeCorrect == Spec => []TypeOK
BY TypeInvariant, PTL DEF TypeInv

-----------------------------------------------------------------------------
(* Idempotency keys.                                                       *)

\* A step adds at most one row, under a key no row had.
LEMMA NewRows ==
    ASSUME TypeInv, [Next]_vars
    PROVE  \/ \A v \in VisitId : visits[v] = None => visits'[v] = None
           \/ \E r \in Request, v \in VisitId \ Booked :
                 /\ BookCreate(r) /\ ~KeyTaken(req[r].key)
                 /\ visits' = [visits EXCEPT ![v] = NewRow(r)]
                 /\ req' = [req EXCEPT ![r] = [req[r] EXCEPT !.pc = "written", !.id = v]]
<1>1. CASE visits' = visits
  BY <1>1
<1>2. ASSUME NEW r \in Request, CancelWrite(r) \/ RescheduleWrite(r) \/ ConfirmWrite(r),
             NEW v \in VisitId, visits[v] = None
      PROVE  visits'[v] = None
  <2>1. req[r].id \in Booked /\ visits \in [VisitId -> Visit \cup {None}]
    BY <1>2 DEF TypeInv, TypeOK, Found, CancelWrite, RescheduleWrite, ConfirmWrite, Update
  <2>2. v # req[r].id
    BY <1>2, <2>1 DEF Booked
  <2>3. QED
    BY <1>2, <2>1, <2>2 DEF CancelWrite, RescheduleWrite, ConfirmWrite
<1>3. ASSUME NEW r \in Request, BookCreate(r), visits' # visits
      PROVE  \E v \in VisitId \ Booked :
                /\ ~KeyTaken(req[r].key)
                /\ visits' = [visits EXCEPT ![v] = NewRow(r)]
                /\ req' = [req EXCEPT ![r] = [req[r] EXCEPT !.pc = "written", !.id = v]]
  BY <1>3, BookCreates DEF TypeInv
<1>4. ASSUME NEW r \in Request, Handle(r), visits' # visits
      PROVE  CancelWrite(r) \/ RescheduleWrite(r) \/ ConfirmWrite(r) \/ BookCreate(r)
  BY <1>4
     DEF Handle, Book, Cancel, Reschedule, Confirm, BookNew, BookReplay, BookProperty,
         BookConflict, CancelRead, RescheduleRead, ConfirmRead, ReadVisit, Emit, Abort
<1>5. QED
  BY <1>1, <1>2, <1>3, <1>4 DEF Next, Delist, Tick, vars

LEMMA KeyUniqueStep == ASSUME TypeInv, KeyUnique, [Next]_vars PROVE KeyUnique'
<1>1. CASE \A v \in VisitId : visits[v] = None => visits'[v] = None
  <2>1. Booked' \subseteq Booked
    BY <1>1 DEF Booked
  <2>2. QED
    BY <2>1, RowsStay DEF KeyUnique, SameVisit
<1>2. ASSUME NEW r \in Request, NEW w \in VisitId \ Booked, ~KeyTaken(req[r].key),
             visits' = [visits EXCEPT ![w] = NewRow(r)]
      PROVE  KeyUnique'
  <2>1. visits \in [VisitId -> Visit \cup {None}]
    BY DEF TypeInv, TypeOK
  <2>2. \A v \in Booked' : v = w \/ (v \in Booked /\ visits'[v] = visits[v])
    BY <1>2, <2>1 DEF Booked
  <2>3. visits'[w].idempotencyKey = req[r].key
    BY <1>2, <2>1 DEF NewRow
  <2>4. QED
    BY <1>2, <2>2, <2>3 DEF KeyUnique, KeyTaken
<1>3. QED
  BY <1>1, <1>2, NewRows

\* An idempotency key books at most one visit: the lookup and the insert of
\* book() are two statements, and the unique index closes the gap.
THEOREM KeysAreUnique == Spec => []KeyUnique
<1>1. Init => KeyUnique
  BY DEF Init, KeyUnique, Booked
<1>2. TypeInv /\ KeyUnique /\ [Next]_vars => KeyUnique'
  BY KeyUniqueStep
<1>3. QED
  BY <1>1, <1>2, TypeInvariant, PTL DEF Spec

\* Two successful calls of book() with one key answer with one visit.
THEOREM RetriesAreIdempotent == Spec => []RetriesAgree
<1>1. TypeInv /\ KeyUnique => RetriesAgree
  BY DEF TypeInv, Found, KeyUnique, RetriesAgree
<1>2. QED
  BY <1>1, TypeInvariant, KeysAreUnique, PTL

-----------------------------------------------------------------------------
(* The announcement of a booking.                                          *)

\* Call r has inserted a visit and not announced it yet.
Announcing(r) == req[r].pc = "written" /\ req[r].op = "book"

Announced(v) == \E e \in emitted : e.name = "visit.booked" /\ e.visit = v

\* A visit is announced or about to be, by one call, and then is a row.
AnnounceInv ==
    /\ \A r \in Request : Announcing(r) => ~Announced(req[r].id)
    /\ \A r, q \in Request : Announcing(r) /\ Announcing(q) /\ req[r].id = req[q].id => r = q
    /\ \A v \in VisitId : Announced(v) => v \in Booked
    /\ BookedAnnouncedOnce

\* book() is the only way to have an insert to announce.
LEMMA AnnouncingComesFromInsert ==
    ASSUME TypeInv, [Next]_vars, NEW q \in Request, Announcing(q)'
    PROVE  \/ req'[q] = req[q] /\ ~Emit(q)
           \/ /\ BookCreate(q) /\ emitted' = emitted
              /\ req'[q].id \in VisitId \ Booked
<1>1. req \in [Request -> {NewCall} \cup BookCall \cup UpdateCall] /\ TypeOK
  BY DEF TypeInv, TypeOK
<1>2. ASSUME NEW r \in Request, Handle(r), r # q PROVE req'[q] = req[q] /\ ~Emit(q)
  <2>1. req'[q] = req[q]
    BY <1>1, <1>2 DEF Handle, Book, BookNew, BookReplay, BookProperty, BookConflict, BookCreate,
       Cancel, Reschedule, Confirm, CancelRead, RescheduleRead, ConfirmRead, ReadVisit,
       CancelWrite, RescheduleWrite, ConfirmWrite, Update, Emit, Abort, GoTo, Serve
  <2>2. ASSUME Emit(q) PROVE FALSE
    <3>1. req[q] \in BookCall \cup UpdateCall
      BY <1>1, <2>2 DEF Emit, NewCall
    <3>2. QED
      BY <1>1, <2>1, <2>2, <3>1 DEF Emit, GoTo, BookCall, UpdateCall
  <2>3. QED
    BY <2>1, <2>2
<1>3. CASE BookCreate(q)
  <2>1. req[q] \in BookCall
    BY <1>1, <1>3, BookCreates
  <2>2. CASE KeyTaken(req[q].key)
    <3>1. req' = [req EXCEPT ![q] = [req[q] EXCEPT !.pc = "rejected"]]
      BY <1>1, <1>3, <2>2, BookCreates
    <3>2. QED
      BY <1>1, <2>1, <3>1 DEF Announcing, BookCall
  <2>3. CASE ~KeyTaken(req[q].key)
    <3>1. PICK v \in VisitId \ Booked :
            req' = [req EXCEPT ![q] = [req[q] EXCEPT !.pc = "written", !.id = v]]
      BY <1>1, <1>3, <2>3, BookCreates
    <3>2. req'[q].id = v
      BY <1>1, <2>1, <3>1 DEF BookCall
    <3>3. QED
      BY <1>3, <3>1, <3>2 DEF BookCreate
  <2>4. QED
    BY <2>2, <2>3
<1>4. ASSUME BookNew(q) \/ BookReplay(q) PROVE FALSE
  <2>1. CASE BookNew(q)
    BY <1>1, <2>1 DEF BookNew, Serve, NewCall, Announcing
  <2>2. CASE BookReplay(q)
    BY <1>1, <2>2 DEF BookReplay, Serve, Announcing
  <2>3. QED
    BY <1>4, <2>1, <2>2
<1>5. ASSUME BookProperty(q) \/ BookConflict(q) PROVE FALSE
  <2>1. req[q] \in BookCall
    BY <1>1, <1>5 DEF BookProperty, BookConflict, NewCall, BookCall, UpdateCall, Ended
  <2>2. QED
    BY <1>1, <1>5, <2>1 DEF BookProperty, BookConflict, GoTo, BookCall, Announcing
<1>6. ASSUME CancelRead(q) \/ RescheduleRead(q) \/ ConfirmRead(q) PROVE FALSE
  <2>1. PICK op \in {"cancel", "reschedule", "confirm"}, u \in User, v \in VisitId,
             t \in Time \cup {None}, ok \in BOOLEAN : ReadVisit(q, op, u, v, t, ok)
    BY <1>6, ReadsVisit
  <2>2. QED
    BY <1>1, <2>1 DEF ReadVisit, Serve, Announcing
<1>7. ASSUME CancelWrite(q) \/ RescheduleWrite(q) \/ ConfirmWrite(q) \/ Emit(q) \/ Abort(q) PROVE FALSE
  <2>1. req[q] \in BookCall \cup UpdateCall
    BY <1>1, <1>7 DEF CancelWrite, RescheduleWrite, ConfirmWrite, Update, Emit, Abort, Served,
       NewCall, Suspended
  <2>2. QED
    BY <1>1, <1>7, <2>1 DEF CancelWrite, RescheduleWrite, ConfirmWrite, Update, Emit, Abort, GoTo,
       BookCall, UpdateCall, Announcing
<1>8. CASE UNCHANGED vars \/ Tick \/ \E p \in Property : Delist(p)
  <2>1. req' = req
    BY <1>8 DEF vars, Tick, Delist
  <2>2. ASSUME Emit(q) PROVE FALSE
    <3>1. req[q] \in BookCall \cup UpdateCall
      BY <1>1, <2>2 DEF Emit, NewCall
    <3>2. QED
      BY <1>1, <2>1, <2>2, <3>1 DEF Emit, GoTo, BookCall, UpdateCall
  <2>3. QED
    BY <2>1, <2>2
<1>9. QED
  BY <1>2, <1>3, <1>4, <1>5, <1>6, <1>7, <1>8
     DEF Next, Handle, Book, Cancel, Reschedule, Confirm

\* A step leaves the events as they are, or adds one of a call that has written.
LEMMA Emits ==
    ASSUME TypeInv, [Next]_vars
    PROVE  \/ emitted' = emitted
           \/ \E r \in Request :
                 /\ Emit(r) /\ req'[r].pc = "answered" /\ req[r].pc = "written"
                 /\ emitted' = emitted \cup
                       {[name |-> EventOf(req[r].op), visit |-> req[r].id, src |-> r]}
                 /\ EventOf(req[r].op) = "visit.booked" => Announcing(r)
<1>1. ASSUME NEW r \in Request, Emit(r)
      PROVE  /\ req'[r].pc = "answered" /\ req[r].pc = "written"
             /\ EventOf(req[r].op) = "visit.booked" => Announcing(r)
  <2>1. req[r] \in BookCall \cup UpdateCall /\ req \in [Request -> {NewCall} \cup BookCall \cup UpdateCall]
    BY <1>1 DEF TypeInv, TypeOK, Emit, NewCall
  <2>2. req'[r].pc = "answered" /\ req[r].pc = "written"
    BY <1>1, <2>1 DEF Emit, GoTo, BookCall, UpdateCall
  <2>3. req[r].op \in {"book", "cancel", "reschedule"}
    BY <2>1, <2>2 DEF BookCall, UpdateCall
  <2>4. QED
    BY <2>2, <2>3 DEF Announcing, EventOf
<1>2. ASSUME NEW r \in Request, Handle(r) PROVE emitted' = emitted \/ Emit(r)
  BY <1>2 DEF Handle, Book, Cancel, Reschedule, Confirm, BookNew, BookReplay, BookProperty,
     BookConflict, BookCreate, CancelRead, RescheduleRead, ConfirmRead, ReadVisit,
     CancelWrite, RescheduleWrite, ConfirmWrite, Update, Abort
<1>3. QED
  BY <1>1, <1>2 DEF Next, Emit, Delist, Tick, vars

\* Only one request moves in a step.
LEMMA OneMoves ==
    ASSUME TypeInv, [Next]_vars
    PROVE  \/ req' = req
           \/ \E r \in Request :
                 /\ Handle(r)
                 /\ \A q \in Request \ {r} : req'[q] = req[q]
<1>1. req \in [Request -> {NewCall} \cup BookCall \cup UpdateCall]
  BY DEF TypeInv, TypeOK
<1>2. ASSUME NEW r \in Request, Handle(r), NEW q \in Request \ {r} PROVE req'[q] = req[q]
  BY <1>1, <1>2 DEF Handle, Book, BookNew, BookReplay, BookProperty, BookConflict, BookCreate,
     Cancel, Reschedule, Confirm, CancelRead, RescheduleRead, ConfirmRead, ReadVisit,
     CancelWrite, RescheduleWrite, ConfirmWrite, Update, Emit, Abort, GoTo, Serve
<1>3. QED
  BY <1>2 DEF Next, Delist, Tick, vars

LEMMA AnnounceStep == ASSUME TypeInv, AnnounceInv, [Next]_vars PROVE AnnounceInv'
<1>1. \A v \in VisitId : v \in Booked => v \in Booked'
  BY RowsStay
<1>2. \A q \in Request : Announcing(q) => req[q].id \in Booked
  BY DEF TypeInv, Found, Announcing
<1>3. ASSUME NEW q \in Request, Announcing(q)'
      PROVE  \/ Announcing(q) /\ req'[q].id = req[q].id /\ ~Emit(q)
             \/ /\ req'[q].id \in VisitId \ Booked /\ req'[q] # req[q] /\ emitted' = emitted
                /\ ~Announcing(q)
  BY <1>3, AnnouncingComesFromInsert DEF Announcing, BookCreate
<1>4. ASSUME NEW r \in Request, NEW q \in Request, Announcing(r)', Announcing(q)',
             req'[r].id = req'[q].id
      PROVE  r = q
  <2>1. CASE req'[r] # req[r] /\ req'[q] # req[q]
    BY <2>1, OneMoves
  <2>2. CASE Announcing(r) /\ Announcing(q)
    BY <1>3, <1>2, <1>4, <2>2 DEF AnnounceInv
  <2>3. QED
    BY <1>2, <1>3, <1>4, <2>1, <2>2
<1>5. CASE emitted' = emitted
  <2>1. \A v : Announced(v)' <=> Announced(v)
    BY <1>5 DEF Announced
  <2>2. \A q \in Request : Announcing(q)' => ~Announced(req[q].id)'
    BY <1>3, <2>1 DEF AnnounceInv
  <2>3. BookedAnnouncedOnce'
    BY <1>5 DEF AnnounceInv, BookedAnnouncedOnce
  <2>4. QED
    BY <1>1, <1>4, <2>1, <2>2, <2>3 DEF AnnounceInv
<1>6. ASSUME NEW r \in Request, Emit(r), req'[r].pc = "answered", req[r].pc = "written",
             emitted' = emitted \cup
                {[name |-> EventOf(req[r].op), visit |-> req[r].id, src |-> r]},
             EventOf(req[r].op) = "visit.booked" => Announcing(r)
      PROVE  AnnounceInv'
  <2> DEFINE ev == [name |-> EventOf(req[r].op), visit |-> req[r].id, src |-> r]
  <2>a. emitted' = emitted \cup {ev} /\ ev.name = EventOf(req[r].op) /\ ev.visit = req[r].id
    BY <1>6
  <2> HIDE DEF ev
  <2>1. ASSUME NEW v, Announced(v)'
        PROVE  Announced(v) \/ (EventOf(req[r].op) = "visit.booked" /\ req[r].id = v)
    BY <2>1, <2>a DEF Announced
  <2>b. ASSUME NEW q \in Request, Announcing(q)', Announced(req[q].id)' PROVE FALSE
    <3>1. q # r
      BY <1>6, <2>b DEF Announcing
    <3>2. Announced(req'[q].id) \/ (EventOf(req[r].op) = "visit.booked" /\ req[r].id = req'[q].id)
      BY <2>1, <2>b
    <3>3. CASE Announcing(q) /\ req'[q].id = req[q].id
      BY <1>6, <3>1, <3>2, <3>3 DEF AnnounceInv
    <3>4. CASE req'[q].id \in VisitId \ Booked
      BY <1>2, <1>6, <3>2, <3>4 DEF AnnounceInv
    <3>5. QED
      BY <1>3, <2>b, <3>3, <3>4
  <2>2. \A q \in Request : Announcing(q)' => ~Announced(req[q].id)'
    BY <2>b
  <2>3. \A v \in VisitId : Announced(v)' => v \in Booked'
    BY <1>1, <1>2, <1>6, <2>1 DEF AnnounceInv
  <2>4. BookedAnnouncedOnce'
    BY <1>6 DEF AnnounceInv, BookedAnnouncedOnce, Announced
  <2>5. QED
    BY <1>4, <2>2, <2>3, <2>4 DEF AnnounceInv
<1>7. QED
  BY <1>5, <1>6, Emits

\* The owner is told of a booking once.
THEOREM BookingsAnnouncedOnce == Spec => []BookedAnnouncedOnce
<1>1. Init => AnnounceInv
  BY DEF Init, AnnounceInv, Announcing, Announced, BookedAnnouncedOnce, NewCall
<1>2. TypeInv /\ AnnounceInv /\ [Next]_vars => AnnounceInv'
  BY AnnounceStep
<1>3. AnnounceInv => BookedAnnouncedOnce
  BY DEF AnnounceInv
<1>4. QED
  BY <1>1, <1>2, <1>3, TypeInvariant, PTL DEF Spec

-----------------------------------------------------------------------------
(* Who may change a visit.                                                 *)

\* The access check of the read holds until the write: it is about fields
\* that no code changes.
Allowed ==
    \A r \in Request : req[r].pc = "update" =>
       /\ req[r].user \in {visits[req[r].id].tenantId, visits[req[r].id].ownerId}
       /\ req[r].op = "confirm" => req[r].user = visits[req[r].id].ownerId

LEMMA UpdateComesFromRead ==
    ASSUME TypeInv, [Next]_vars, NEW q \in Request, req'[q].pc = "update"
    PROVE  \/ req'[q] = req[q]
           \/ /\ CancelRead(q) \/ RescheduleRead(q) \/ ConfirmRead(q)
              /\ visits' = visits
<1>1. req \in [Request -> {NewCall} \cup BookCall \cup UpdateCall]
  BY DEF TypeInv, TypeOK
<1>2. ASSUME NEW r \in Request, Handle(r), r # q PROVE req'[q] = req[q]
  BY <1>1, <1>2 DEF Handle, Book, BookNew, BookReplay, BookProperty, BookConflict, BookCreate,
     Cancel, Reschedule, Confirm, CancelRead, RescheduleRead, ConfirmRead, ReadVisit,
     CancelWrite, RescheduleWrite, ConfirmWrite, Update, Emit, Abort, GoTo, Serve
<1>3. CASE CancelRead(q) \/ RescheduleRead(q) \/ ConfirmRead(q)
  BY <1>3 DEF CancelRead, RescheduleRead, ConfirmRead, ReadVisit
<1>4. CASE CancelWrite(q) \/ RescheduleWrite(q) \/ ConfirmWrite(q) \/ Emit(q) \/ Abort(q)
  <2>1. req[q] \in BookCall \cup UpdateCall
    BY <1>1, <1>4 DEF CancelWrite, RescheduleWrite, ConfirmWrite, Update, Emit, Abort, Served,
       NewCall, Suspended
  <2>2. QED
    BY <1>1, <1>4, <2>1 DEF CancelWrite, RescheduleWrite, ConfirmWrite, Update, Emit, Abort, GoTo,
       BookCall, UpdateCall
<1>5. CASE BookNew(q) \/ BookReplay(q)
  <2>1. CASE BookNew(q)
    BY <1>1, <2>1 DEF BookNew, Serve, NewCall
  <2>2. CASE BookReplay(q)
    BY <1>1, <2>2 DEF BookReplay, Serve
  <2>3. QED
    BY <1>5, <2>1, <2>2
<1>6. CASE BookProperty(q) \/ BookConflict(q) \/ BookCreate(q)
  <2>1. req[q] \in BookCall
    BY <1>1, <1>6 DEF BookProperty, BookConflict, BookCreate, NewCall, BookCall, UpdateCall, Ended
  <2>2. [req[q] EXCEPT !.pc = "rejected"].pc # "update"
    BY <2>1 DEF BookCall
  <2>3. \A v : [req[q] EXCEPT !.pc = "written", !.id = v].pc # "update"
    BY <2>1 DEF BookCall
  <2>4. CASE BookProperty(q) \/ BookConflict(q)
    BY <1>1, <2>1, <2>4 DEF BookProperty, BookConflict, GoTo, BookCall
  <2>5. CASE BookCreate(q)
    <3>1. CASE KeyTaken(req[q].key)
      BY <1>1, <2>2, <2>5, <3>1, BookCreates DEF TypeInv
    <3>2. CASE ~KeyTaken(req[q].key)
      <4>1. PICK v \in VisitId \ Booked :
              req' = [req EXCEPT ![q] = [req[q] EXCEPT !.pc = "written", !.id = v]]
        BY <2>5, <3>2, BookCreates DEF TypeInv
      <4>2. QED
        BY <1>1, <2>3, <4>1
    <3>3. QED
      BY <3>1, <3>2
  <2>6. QED
    BY <1>6, <2>4, <2>5
<1>7. QED
  BY <1>2, <1>3, <1>4, <1>5, <1>6
     DEF Next, Handle, Book, Cancel, Reschedule, Confirm, Delist, Tick, vars

LEMMA AllowedStep == ASSUME TypeInv, Allowed, [Next]_vars PROVE Allowed'
<1>. SUFFICES ASSUME NEW q \in Request, req'[q].pc = "update"
              PROVE  LET v == visits'[req'[q].id] IN
                     /\ req'[q].user \in {v.tenantId, v.ownerId}
                     /\ req'[q].op = "confirm" => req'[q].user = v.ownerId
  BY DEF Allowed
<1>1. CASE req'[q] = req[q]
  <2>1. req[q].id \in Booked /\ req[q].pc = "update"
    BY <1>1 DEF TypeInv, Found
  <2>2. SameVisit(visits[req[q].id], visits'[req[q].id])
    BY <2>1, RowsStay
  <2>3. QED
    BY <1>1, <2>1, <2>2 DEF Allowed, SameVisit
<1>2. CASE (CancelRead(q) \/ RescheduleRead(q) \/ ConfirmRead(q)) /\ visits' = visits
  <2>1. PICK u \in User, v \in VisitId, op \in {"cancel", "reschedule", "confirm"},
             t \in Time \cup {None}, ok \in BOOLEAN :
          /\ ReadVisit(q, op, u, v, t, ok)
          /\ v \in Booked /\ ok => HasAccess(u, v) /\ (op = "confirm" => u = visits[v].ownerId)
    BY <1>2 DEF CancelRead, RescheduleRead, ConfirmRead, HasAccess, User
  <2>2. req'[q].id = v /\ req'[q].user = u /\ req'[q].op = op /\ v \in Booked /\ ok
    BY <2>1 DEF TypeInv, TypeOK, ReadVisit, Serve
  <2>3. QED
    BY <1>2, <2>1, <2>2 DEF HasAccess
<1>3. QED
  BY <1>1, <1>2, UpdateComesFromRead

\* A row changes only by one of the three updates, of the request that
\* names it.
LEMMA RowsChange ==
    ASSUME TypeInv, [Next]_vars, NEW v \in Booked, visits'[v] # visits[v]
    PROVE  \E r \in Request :
              /\ req[r].id = v /\ req[r].pc = "update" /\ req'[r].pc # "update"
              /\ \/ CancelWrite(r)
                 \/ RescheduleWrite(r)
                 \/ ConfirmWrite(r)
              /\ req[r] \in UpdateCall
              /\ visits'[v] \in {[visits[v] EXCEPT !.status = "CANCELLED", !.cancelledAt = TRUE],
                                [visits[v] EXCEPT !.scheduledAt = req[r].scheduledAt, !.status = "PENDING"],
                                [visits[v] EXCEPT !.status = "CONFIRMED"]}
<1>1. /\ visits \in [VisitId -> Visit \cup {None}] /\ v \in VisitId
      /\ req \in [Request -> {NewCall} \cup BookCall \cup UpdateCall]
  BY DEF TypeInv, TypeOK, Booked
<1>2. ASSUME NEW r \in Request, CancelWrite(r) \/ RescheduleWrite(r) \/ ConfirmWrite(r)
      PROVE  /\ req[r].id = v /\ req[r].pc = "update" /\ req'[r].pc # "update"
             /\ req[r] \in UpdateCall
             /\ visits'[v] \in {[visits[v] EXCEPT !.status = "CANCELLED", !.cancelledAt = TRUE],
                               [visits[v] EXCEPT !.scheduledAt = req[r].scheduledAt, !.status = "PENDING"],
                               [visits[v] EXCEPT !.status = "CONFIRMED"]}
  <2>1. req[r].id = v
    BY <1>1, <1>2 DEF CancelWrite, RescheduleWrite, ConfirmWrite
  <2>2. req[r] \in UpdateCall /\ req[r].pc = "update"
    BY <1>1, <1>2 DEF CancelWrite, RescheduleWrite, ConfirmWrite, Update, NewCall, BookCall,
       Suspended, Ended
  <2>3. req'[r].pc # "update"
    BY <1>1, <1>2, <2>2 DEF CancelWrite, RescheduleWrite, ConfirmWrite, Update, GoTo, UpdateCall
  <2>4. CASE CancelWrite(r)
    BY <1>1, <2>1, <2>2, <2>3, <2>4 DEF CancelWrite
  <2>5. CASE RescheduleWrite(r)
    BY <1>1, <2>1, <2>2, <2>3, <2>5 DEF RescheduleWrite
  <2>6. CASE ConfirmWrite(r)
    BY <1>1, <2>1, <2>2, <2>3, <2>6 DEF ConfirmWrite
  <2>7. QED
    BY <1>2, <2>4, <2>5, <2>6
<1>3. ASSUME NEW r \in Request, BookCreate(r) PROVE FALSE
  BY <1>1, <1>3, BookCreates DEF TypeInv, Booked
<1>4. ASSUME NEW r \in Request, Handle(r)
      PROVE  CancelWrite(r) \/ RescheduleWrite(r) \/ ConfirmWrite(r)
  BY <1>3, <1>4
     DEF Handle, Book, Cancel, Reschedule, Confirm, BookNew, BookReplay, BookProperty,
         BookConflict, CancelRead, RescheduleRead, ConfirmRead, ReadVisit, Emit, Abort
<1>5. QED
  BY <1>2, <1>4 DEF Next, Delist, Tick, vars

\* The step of PartiesOnly.
LEMMA PartiesStep ==
    ASSUME TypeInv, Allowed, [Next]_vars, NEW v \in Booked, visits'[v] # visits[v]
    PROVE  \E r \in Request :
              /\ req[r].pc = "update" /\ req'[r].pc # "update" /\ req[r].id = v
              /\ req[r].user \in {visits[v].tenantId, visits[v].ownerId}
              /\ visits'[v].status = "CONFIRMED" /\ visits[v].status # "CONFIRMED"
                    => req[r].user = visits[v].ownerId
<1>1. PICK r \in Request :
        /\ req[r].id = v /\ req[r].pc = "update" /\ req'[r].pc # "update"
        /\ CancelWrite(r) \/ RescheduleWrite(r) \/ ConfirmWrite(r)
  BY RowsChange
<1>2. /\ req[r].user \in {visits[v].tenantId, visits[v].ownerId}
      /\ ConfirmWrite(r) => req[r].user = visits[v].ownerId
  BY <1>1 DEF Allowed, ConfirmWrite, Update
<1>3. visits \in [VisitId -> Visit \cup {None}] /\ v \in VisitId /\ visits[v] \in Visit
  BY DEF TypeInv, TypeOK, Booked
<1>4. visits'[v].status = "CONFIRMED" => ConfirmWrite(r)
  BY <1>1, <1>3 DEF CancelWrite, RescheduleWrite, Visit
<1>5. QED
  BY <1>1, <1>2, <1>4

\* Only the tenant and the owner of a visit ever change it, and only its owner
\* confirms it.
THEOREM PartiesOnly == Spec => OnlyPartiesChange
<1>1. Init => Allowed
  BY DEF Init, Allowed, NewCall
<1>2. TypeInv /\ Allowed /\ [Next]_vars => Allowed'
  BY AllowedStep
<1>3. TypeInv /\ Allowed /\ [Next]_vars =>
        [\A v \in Booked : visits'[v] # visits[v] =>
            \E r \in Request :
               /\ req[r].pc = "update" /\ req'[r].pc # "update" /\ req[r].id = v
               /\ req[r].user \in {visits[v].tenantId, visits[v].ownerId}
               /\ visits'[v].status = "CONFIRMED" /\ visits[v].status # "CONFIRMED"
                     => req[r].user = visits[v].ownerId]_vars
  BY PartiesStep
<1>4. QED
  BY <1>1, <1>2, <1>3, TypeInvariant, PTL DEF Spec, OnlyPartiesChange

-----------------------------------------------------------------------------
(* The statuses the code uses, and the stamp of a cancellation.            *)

\* No code sets COMPLETED or NO_SHOW, and CANCELLED is set with cancelledAt.
StatusUsed ==
    \A v \in Booked :
       /\ visits[v].status \in {"PENDING", "CONFIRMED", "CANCELLED"}
       /\ visits[v].status = "CANCELLED" => visits[v].cancelledAt = TRUE

LEMMA StatusStep == ASSUME TypeInv, StatusUsed, [Next]_vars PROVE StatusUsed'
<1>. SUFFICES ASSUME NEW v \in Booked'
              PROVE  /\ visits'[v].status \in {"PENDING", "CONFIRMED", "CANCELLED"}
                     /\ visits'[v].status = "CANCELLED" => visits'[v].cancelledAt = TRUE
  BY DEF StatusUsed
<1>1. visits \in [VisitId -> Visit \cup {None}] /\ v \in VisitId
  BY DEF TypeInv, TypeOK, Booked
<1>2. CASE v \in Booked
  <2>1. CASE visits'[v] = visits[v]
    BY <1>2, <2>1 DEF StatusUsed
  <2>2. CASE visits'[v] # visits[v]
    <3>1. visits[v] \in Visit
      BY <1>1, <1>2 DEF Booked
    <3>2. PICK t : visits'[v] \in {[visits[v] EXCEPT !.status = "CANCELLED", !.cancelledAt = TRUE],
                                  [visits[v] EXCEPT !.scheduledAt = t, !.status = "PENDING"],
                                  [visits[v] EXCEPT !.status = "CONFIRMED"]}
      BY <1>2, <2>2, RowsChange
    <3>3. QED
      BY <3>1, <3>2 DEF Visit
  <2>3. QED
    BY <2>1, <2>2
<1>3. CASE v \notin Booked
  <2>1. PICK r \in Request, w \in VisitId \ Booked : visits' = [visits EXCEPT ![w] = NewRow(r)]
    BY <1>1, <1>3, NewRows DEF Booked
  <2>2. visits'[v] = NewRow(r)
    BY <1>1, <1>3, <2>1 DEF Booked
  <2>3. QED
    BY <2>2 DEF NewRow
<1>4. QED
  BY <1>2, <1>3

LEMMA StatusInvariant == Spec => []StatusUsed
<1>1. Init => StatusUsed
  BY DEF Init, StatusUsed, Booked
<1>2. TypeInv /\ StatusUsed /\ [Next]_vars => StatusUsed'
  BY StatusStep
<1>3. QED
  BY <1>1, <1>2, TypeInvariant, PTL DEF Spec

\* book() has left its insert behind.
LEMMA AfterInsert ==
    ASSUME TypeInv, NEW r \in Request, BookCreate(r)
    PROVE  req'[r].pc \in {"written", "rejected"}
<1>1. /\ req \in [Request -> {NewCall} \cup BookCall \cup UpdateCall]
      /\ req[r] \in BookCall
  BY BookCreates DEF TypeInv, TypeOK
<1>2. CASE KeyTaken(req[r].key)
  <2>1. req' = [req EXCEPT ![r] = [req[r] EXCEPT !.pc = "rejected"]]
    BY <1>2, BookCreates DEF TypeInv
  <2>2. QED
    BY <1>1, <2>1 DEF BookCall
<1>3. CASE ~KeyTaken(req[r].key)
  <2>1. PICK v \in VisitId \ Booked :
          req' = [req EXCEPT ![r] = [req[r] EXCEPT !.pc = "written", !.id = v]]
    BY <1>3, BookCreates DEF TypeInv
  <2>2. QED
    BY <1>1, <2>1 DEF BookCall
<1>4. QED
  BY <1>2, <1>3

-----------------------------------------------------------------------------
(* Calls that crossed.                                                     *)

CallUnderWay(c) == c \in BookCall \cup UpdateCall

\* What a call is about stays; book() only learns the id of its visit.
SameCall(c, d) ==
    /\ d.op = c.op /\ d.user = c.user /\ d.propertyId = c.propertyId /\ d.key = c.key
    /\ d.scheduledAt = c.scheduledAt
    /\ c.id # None => d.id = c.id

LEMMA CallStays ==
    ASSUME TypeInv, [Next]_vars, NEW q \in Request, CallUnderWay(req[q])
    PROVE  SameCall(req[q], req'[q])
<1>1. req \in [Request -> {NewCall} \cup BookCall \cup UpdateCall] /\ TypeOK
  BY DEF TypeInv, TypeOK
<1>2. CASE req'[q] = req[q]
  BY <1>2 DEF SameCall
<1>3. req[q].pc # "new"
  BY DEF CallUnderWay, BookCall, UpdateCall, Suspended, Ended
<1>4. \A pc : SameCall(req[q], [req[q] EXCEPT !.pc = pc])
  BY DEF SameCall, CallUnderWay, BookCall, UpdateCall
<1>5. CASE BookCreate(q)
  <2>1. req[q] \in BookCall /\ req[q].id = None
    BY <1>1, <1>5, BookCreates DEF BookCreate, BookCall
  <2>2. \A v : SameCall(req[q], [req[q] EXCEPT !.pc = "written", !.id = v])
    BY <2>1 DEF SameCall, BookCall
  <2>3. CASE req' = [req EXCEPT ![q] = [req[q] EXCEPT !.pc = "rejected"]]
    BY <1>1, <1>4, <2>3
  <2>4. ASSUME NEW v, req' = [req EXCEPT ![q] = [req[q] EXCEPT !.pc = "written", !.id = v]]
        PROVE  SameCall(req[q], req'[q])
    BY <1>1, <2>2, <2>4
  <2>5. QED
    BY <1>1, <1>5, <2>3, <2>4, BookCreates
<1>6. ASSUME Handle(q), ~BookCreate(q) PROVE \E pc : GoTo(q, pc)
  BY <1>3, <1>6 DEF Handle, Book, BookNew, BookReplay, BookProperty, BookConflict, Cancel, CancelRead,
     CancelWrite, Reschedule, RescheduleRead, RescheduleWrite, Confirm, ConfirmRead, ConfirmWrite,
     ReadVisit, Update, Admitted, Emit, Abort
<1>7. ASSUME NEW pc, GoTo(q, pc) PROVE SameCall(req[q], req'[q])
  <2>1. req'[q] = [req[q] EXCEPT !.pc = pc]
    BY <1>1, <1>7 DEF GoTo
  <2>2. QED
    BY <1>4, <2>1
<1>8. QED
  BY <1>2, <1>5, <1>6, <1>7, OneMoves

\* No crossing is forgotten.
LEMMA CrossedGrows == ASSUME [Next]_vars PROVE crossed \subseteq crossed'
<1>1. ASSUME NEW r \in Request, NEW Q, Crosses(r, Q) PROVE crossed \subseteq crossed'
  BY <1>1 DEF Crosses
<1>2. ASSUME NEW r \in Request, CancelRead(r) \/ RescheduleRead(r) \/ ConfirmRead(r)
      PROVE  crossed \subseteq crossed'
  BY <1>1, <1>2, ReadsVisit DEF ReadVisit
<1>3. ASSUME NEW r \in Request, BookConflict(r) PROVE crossed \subseteq crossed'
  BY <1>1, <1>3 DEF BookConflict
<1>4. ASSUME NEW r \in Request, Handle(r), ~BookConflict(r),
             ~(CancelRead(r) \/ RescheduleRead(r) \/ ConfirmRead(r))
      PROVE  crossed' = crossed
  BY <1>4 DEF Handle, Book, BookNew, BookReplay, BookProperty, BookCreate, Cancel, Reschedule,
     Confirm, CancelWrite, RescheduleWrite, ConfirmWrite, Update, Emit, Abort
<1>5. QED
  BY <1>2, <1>3, <1>4 DEF Next, Delist, Tick, vars

\* A call of book() about to insert has just passed the conflict query.
LEMMA CreateComesFromConflict ==
    ASSUME TypeInv, [Next]_vars, NEW q \in Request, req'[q].pc = "create"
    PROVE  \/ req'[q] = req[q]
           \/ /\ BookConflict(q) /\ visits' = visits
              /\ req[q] \in BookCall /\ req'[q] = [req[q] EXCEPT !.pc = "create"]
              /\ Conflicts(req[q].propertyId, req[q].scheduledAt) = {}
              /\ Crosses(q, Inserting(req[q].propertyId))
<1>1. req \in [Request -> {NewCall} \cup BookCall \cup UpdateCall] /\ TypeOK
  BY DEF TypeInv, TypeOK
<1>2. CASE BookConflict(q)
  <2>1. req[q] \in BookCall
    BY <1>1, <1>2 DEF BookConflict, NewCall, BookCall, UpdateCall, Ended
  <2>2. CASE Conflicts(req[q].propertyId, req[q].scheduledAt) = {}
    BY <1>1, <1>2, <2>1, <2>2 DEF BookConflict, GoTo
  <2>3. CASE Conflicts(req[q].propertyId, req[q].scheduledAt) # {}
    BY <1>1, <1>2, <2>1, <2>3 DEF BookConflict, GoTo, BookCall
  <2>4. QED
    BY <2>2, <2>3
<1>3. CASE BookCreate(q)
  BY <1>1, <1>3, AfterInsert
<1>4. CASE BookNew(q) \/ BookReplay(q) \/ CancelRead(q) \/ RescheduleRead(q) \/ ConfirmRead(q)
  <2>1. \E c : c.pc # "create" /\ Serve(q, c)
    <3>1. CASE BookNew(q)
      <4>1. PICK u \in Tenant, p \in Property, t \in Time, k \in Key :
              Serve(q, [NewCall EXCEPT !.pc = "property", !.op = "book", !.user = u,
                            !.propertyId = p, !.scheduledAt = t, !.key = k])
        BY <3>1 DEF BookNew
      <4>2. [NewCall EXCEPT !.pc = "property", !.op = "book", !.user = u, !.propertyId = p,
                            !.scheduledAt = t, !.key = k].pc = "property"
        BY DEF NewCall
      <4>3. QED
        BY <4>1, <4>2
    <3>2. CASE BookReplay(q)
      BY <3>2 DEF BookReplay
    <3>3. CASE CancelRead(q) \/ RescheduleRead(q) \/ ConfirmRead(q)
      <4>1. PICK op \in {"cancel", "reschedule", "confirm"}, u \in User, v \in VisitId,
                 t \in Time \cup {None}, ok \in BOOLEAN : ReadVisit(q, op, u, v, t, ok)
        BY <3>3, ReadsVisit
      <4>2. QED
        BY <4>1 DEF ReadVisit
    <3>4. QED
      BY <1>4, <3>1, <3>2, <3>3
  <2>2. QED
    BY <1>1, <2>1 DEF Serve
<1>5. CASE BookProperty(q) \/ CancelWrite(q) \/ RescheduleWrite(q) \/ ConfirmWrite(q) \/ Emit(q) \/ Abort(q)
  <2>1. req[q] \in BookCall \cup UpdateCall
    BY <1>1, <1>5 DEF BookProperty, CancelWrite, RescheduleWrite, ConfirmWrite, Update, Emit, Abort,
       Served, NewCall, Suspended
  <2>2. \A pc : [req[q] EXCEPT !.pc = pc].pc = pc
    BY <2>1 DEF BookCall, UpdateCall
  <2>3. \E pc : pc # "create" /\ GoTo(q, pc)
    BY <1>5 DEF BookProperty, CancelWrite, RescheduleWrite, ConfirmWrite, Update, Emit, Abort
  <2>4. QED
    BY <1>1, <2>2, <2>3 DEF GoTo
<1>6. QED
  BY <1>2, <1>3, <1>4, <1>5, OneMoves DEF Handle, Book, Cancel, Reschedule, Confirm

\* What the read of a visit has checked when the call goes on to its update.
Passed(q) ==
    LET v == visits[req'[q].id] IN
    /\ visits' = visits
    /\ req'[q].id \in Booked /\ req'[q] \in UpdateCall
    /\ v.status # "CANCELLED"
    /\ req'[q].user \in {v.tenantId, v.ownerId}
    /\ req'[q].op = "confirm" => v.status = "PENDING" /\ req'[q].user = v.ownerId /\ req'[q].user \notin Tenant
    /\ req'[q].op # "reschedule" => req'[q].scheduledAt = None
    /\ req'[q].op = "reschedule" => req'[q].user \in Tenant
    /\ Crosses(q, Updating(req'[q].id))

LEMMA UpdateComesFromCheck ==
    ASSUME TypeInv, [Next]_vars, NEW q \in Request, req'[q].pc = "update"
    PROVE  req'[q] = req[q] \/ Passed(q)
<1>1. req \in [Request -> {NewCall} \cup BookCall \cup UpdateCall]
  BY DEF TypeInv, TypeOK
<1>2. CASE CancelRead(q) \/ RescheduleRead(q) \/ ConfirmRead(q)
  <2>1. PICK u \in User, v \in VisitId, op \in {"cancel", "reschedule", "confirm"},
             t \in Time \cup {None}, ok \in BOOLEAN :
          /\ ReadVisit(q, op, u, v, t, ok)
          /\ op = "reschedule" => t \in Time /\ u \in Tenant
          /\ op # "reschedule" => t = None
          /\ op = "confirm" => u \notin Tenant
          /\ v \in Booked /\ ok =>
                /\ visits[v].status # "CANCELLED" /\ HasAccess(u, v)
                /\ op = "confirm" => visits[v].status = "PENDING" /\ u = visits[v].ownerId
    <3>1. CASE CancelRead(q)
      BY <3>1 DEF CancelRead
    <3>2. CASE RescheduleRead(q)
      BY <3>2 DEF RescheduleRead, User
    <3>3. CASE ConfirmRead(q)
      BY <3>3 DEF ConfirmRead, HasAccess
    <3>4. QED
      BY <1>2, <3>1, <3>2, <3>3
  <2> DEFINE call == [pc |-> IF v \in Booked /\ ok THEN "update" ELSE "rejected",
                      op |-> op, user |-> u, propertyId |-> None, scheduledAt |-> t,
                      key |-> None, id |-> v]
  <2>2. req'[q] = call /\ visits' = visits
        /\ Crosses(q, IF v \in Booked /\ ok THEN Updating(v) ELSE {})
    BY <1>1, <2>1 DEF ReadVisit, Serve
  <2>3. v \in Booked /\ ok
    BY <2>2
  <2>4. call \in UpdateCall
    BY <2>1 DEF UpdateCall, Ended
  <2>5. QED
    BY <2>1, <2>2, <2>3, <2>4 DEF Passed, HasAccess
<1>3. QED
  BY <1>2, UpdateComesFromRead

\* Calls that stand between check and write, about one property or one visit,
\* have crossed.
Met ==
    /\ \A r, q \in Request :
          r # q /\ req[r].pc = "create" /\ req[q].pc = "create" /\ req[r].propertyId = req[q].propertyId
             => {r, q} \in crossed
    /\ \A r, q \in Request :
          r # q /\ req[r].pc = "update" /\ req[q].pc = "update" /\ req[r].id = req[q].id
             => {r, q} \in crossed

LEMMA MetStep == ASSUME TypeInv, Met, [Next]_vars PROVE Met'
<1>1. ASSUME NEW r \in Request, NEW q \in Request, r # q, req'[r].pc = "create", req'[q].pc = "create",
             req'[r].propertyId = req'[q].propertyId, req'[q] = req[q]
      PROVE  {r, q} \in crossed'
  <2>1. CASE req'[r] = req[r]
    BY <1>1, <2>1, CrossedGrows DEF Met
  <2>2. CASE /\ req[r] \in BookCall /\ req'[r] = [req[r] EXCEPT !.pc = "create"]
             /\ Crosses(r, Inserting(req[r].propertyId))
    <3>1. req'[r].propertyId = req[r].propertyId
      BY <2>2 DEF BookCall
    <3>2. q \in Inserting(req[r].propertyId)
      BY <1>1, <3>1 DEF Inserting
    <3>3. QED
      BY <2>2, <3>2 DEF Crosses
  <2>3. QED
    BY <1>1, <2>1, <2>2, CreateComesFromConflict
<1>2. ASSUME NEW r \in Request, NEW q \in Request, r # q, req'[r].pc = "update", req'[q].pc = "update",
             req'[r].id = req'[q].id, req'[q] = req[q]
      PROVE  {r, q} \in crossed'
  <2>1. CASE req'[r] = req[r]
    BY <1>2, <2>1, CrossedGrows DEF Met
  <2>2. CASE Passed(r)
    <3>1. q \in Updating(req'[r].id)
      BY <1>2 DEF Updating
    <3>2. QED
      BY <2>2, <3>1 DEF Passed, Crosses
  <2>3. QED
    BY <1>2, <2>1, <2>2, UpdateComesFromCheck
<1>3. \A r, q \in Request : {r, q} = {q, r}
  OBVIOUS
<1>4. \A r, q \in Request : r # q => req'[r] = req[r] \/ req'[q] = req[q]
  BY OneMoves
<1>5. QED
  BY <1>1, <1>2, <1>3, <1>4 DEF Met

LEMMA MetInvariant == Spec => []Met
<1>1. Init => Met
  BY DEF Init, Met, NewCall
<1>2. TypeInv /\ Met /\ [Next]_vars => Met'
  BY MetStep
<1>3. QED
  BY <1>1, <1>2, TypeInvariant, PTL DEF Spec

-----------------------------------------------------------------------------
(* What a cancellation leaves.                                             *)

\* What an update does to the row of its visit.
LEMMA RowWritten ==
    ASSUME TypeInv, [Next]_vars, NEW v \in Booked, visits'[v] # visits[v]
    PROVE  \E r \in Request :
              /\ req[r].id = v /\ req[r].pc = "update" /\ req'[r].pc # "update"
              /\ CancelWrite(r) \/ RescheduleWrite(r) \/ ConfirmWrite(r)
              /\ req[r] \in UpdateCall
              /\ req[r].op = "cancel" => visits'[v].status = "CANCELLED"
              /\ req[r].op # "cancel" => visits'[v].status \in {"PENDING", "CONFIRMED"}
                                        /\ (visits'[v].cancelledAt => visits[v].cancelledAt)
              /\ req[r].op # "reschedule" => visits'[v].scheduledAt = visits[v].scheduledAt
<1>1. PICK r \in Request :
         /\ req[r].id = v /\ req[r].pc = "update" /\ req'[r].pc # "update"
         /\ CancelWrite(r) \/ RescheduleWrite(r) \/ ConfirmWrite(r)
         /\ req[r] \in UpdateCall
  BY RowsChange
<1>2. visits \in [VisitId -> Visit \cup {None}] /\ v \in VisitId /\ visits[v] \in Visit
  BY DEF TypeInv, TypeOK, Booked
<1>3. CASE CancelWrite(r)
  <2>1. visits'[v] = [visits[v] EXCEPT !.status = "CANCELLED", !.cancelledAt = TRUE]
    BY <1>1, <1>2, <1>3 DEF CancelWrite
  <2>2. visits'[v].status = "CANCELLED" /\ visits'[v].scheduledAt = visits[v].scheduledAt
    BY <1>2, <2>1 DEF Visit
  <2>3. QED
    BY <1>1, <1>3, <2>1, <2>2 DEF CancelWrite, Update
<1>4. CASE RescheduleWrite(r)
  <2>1. visits'[v] = [visits[v] EXCEPT !.scheduledAt = req[r].scheduledAt, !.status = "PENDING"]
    BY <1>1, <1>2, <1>4 DEF RescheduleWrite
  <2>2. visits'[v].status = "PENDING" /\ (visits'[v].cancelledAt => visits[v].cancelledAt)
    BY <1>2, <2>1 DEF Visit
  <2>3. QED
    BY <1>1, <1>4, <2>2 DEF RescheduleWrite, Update
<1>5. CASE ConfirmWrite(r)
  <2>1. visits'[v] = [visits[v] EXCEPT !.status = "CONFIRMED"]
    BY <1>1, <1>2, <1>5 DEF ConfirmWrite
  <2>2. /\ visits'[v].status = "CONFIRMED" /\ (visits'[v].cancelledAt => visits[v].cancelledAt)
        /\ visits'[v].scheduledAt = visits[v].scheduledAt
    BY <1>2, <2>1 DEF Visit
  <2>3. QED
    BY <1>1, <1>5, <2>2 DEF ConfirmWrite, Update
<1>6. QED
  BY <1>1, <1>3, <1>4, <1>5

\* A row that appears is one that book() inserts.
LEMMA RowInserted ==
    ASSUME TypeInv, [Next]_vars, NEW v \in Booked', v \notin Booked
    PROVE  \E r \in Request :
              /\ BookCreate(r) /\ v \in VisitId
              /\ visits' = [visits EXCEPT ![v] = NewRow(r)] /\ visits'[v] = NewRow(r)
              /\ req' = [req EXCEPT ![r] = [req[r] EXCEPT !.pc = "written", !.id = v]]
              /\ req[r] \in BookCall
<1>1. v \in VisitId /\ visits[v] = None /\ visits'[v] # None
      /\ visits \in [VisitId -> Visit \cup {None}] /\ TypeOK
  BY DEF Booked, TypeInv, TypeOK
<1>2. PICK r \in Request, w \in VisitId \ Booked :
         /\ BookCreate(r) /\ visits' = [visits EXCEPT ![w] = NewRow(r)]
         /\ req' = [req EXCEPT ![r] = [req[r] EXCEPT !.pc = "written", !.id = w]]
  BY <1>1, NewRows
<1>3. w = v
  BY <1>1, <1>2
<1>4. QED
  BY <1>1, <1>2, <1>3, BookCreates

\* A crossing that concerns a cancellation stays one.
LEMMA CancelCrossedStays ==
    ASSUME TypeInv, [Next]_vars, NEW v \in VisitId, CancelCrossed(v)
    PROVE  CancelCrossed(v)'
<1>1. PICK r \in Request, q \in Request :
         /\ {r, q} \in crossed /\ req[r].id = v /\ req[q].id = v
         /\ req[r].op = "cancel" /\ req[q].op \in {"reschedule", "confirm"}
  BY DEF CancelCrossed
<1>2. CallUnderWay(req[r]) /\ CallUnderWay(req[q])
  BY <1>1, VisitsAssumption DEF CallUnderWay, TypeInv, TypeOK, NewCall
<1>3. SameCall(req[r], req'[r]) /\ SameCall(req[q], req'[q])
  BY <1>2, CallStays
<1>4. {r, q} \in crossed'
  BY <1>1, CrossedGrows
<1>5. QED
  BY <1>1, <1>3, <1>4, VisitsAssumption DEF SameCall, CancelCrossed

\* A row with the stamp is CANCELLED, or the stamp is all that is left of a
\* cancel() that crossed; and so for what is on its way to such a row.
StampInv ==
    /\ \A v \in Booked :
          visits[v].cancelledAt => visits[v].status = "CANCELLED" \/ CancelCrossed(v)
    /\ \A r \in Request, v \in VisitId :
          /\ req[r].pc = "update" /\ req[r].op \in {"reschedule", "confirm"} /\ req[r].id = v
          /\ visits[v].cancelledAt
          => CancelCrossed(v)

LEMMA StampRowsStep ==
    ASSUME TypeInv, StampInv, [Next]_vars, NEW v \in Booked', visits'[v].cancelledAt
    PROVE  visits'[v].status = "CANCELLED" \/ CancelCrossed(v)'
<1>1. v \in VisitId
  BY DEF Booked
<1>2. CASE v \notin Booked
  <2>1. PICK r \in Request : visits'[v] = NewRow(r)
    BY <1>2, RowInserted
  <2>2. QED
    BY <2>1 DEF NewRow
<1>3. CASE v \in Booked /\ visits'[v] = visits[v]
  BY <1>1, <1>3, CancelCrossedStays DEF StampInv
<1>4. CASE v \in Booked /\ visits'[v] # visits[v]
  <2>1. CASE visits'[v].status = "CANCELLED"
    BY <2>1
  <2>2. ASSUME NEW r \in Request, req[r].id = v, req[r].pc = "update",
               req[r].op \in {"reschedule", "confirm"}, visits[v].cancelledAt
        PROVE  CancelCrossed(v)'
    BY <1>1, <2>2, CancelCrossedStays DEF StampInv
  <2>3. PICK r \in Request :
           /\ req[r].id = v /\ req[r].pc = "update" /\ req[r] \in UpdateCall
           /\ req[r].op = "cancel" => visits'[v].status = "CANCELLED"
           /\ req[r].op # "cancel" => visits[v].cancelledAt
    BY <1>4, RowWritten
  <2>4. req[r].op \in {"cancel", "reschedule", "confirm"}
    BY <2>3 DEF UpdateCall
  <2>5. QED
    BY <2>1, <2>2, <2>3, <2>4
<1>5. QED
  BY <1>2, <1>3, <1>4

LEMMA StampCallsStep ==
    ASSUME TypeInv, StampInv, Met, [Next]_vars, NEW r \in Request, NEW v \in VisitId,
           req'[r].pc = "update", req'[r].op \in {"reschedule", "confirm"}, req'[r].id = v,
           visits'[v].cancelledAt
    PROVE  CancelCrossed(v)'
<1>1. CancelCrossed(v) => CancelCrossed(v)'
  BY CancelCrossedStays
<1>2. CASE Passed(r)
  <2>1. v \in Booked /\ visits[v].cancelledAt /\ visits[v].status # "CANCELLED"
    BY <1>2 DEF Passed
  <2>2. QED
    BY <1>1, <2>1 DEF StampInv
<1>3. CASE req'[r] = req[r]
  <2>1. v \in Booked
    BY <1>3 DEF TypeInv, Found
  <2>2. CASE visits[v].cancelledAt
    BY <1>1, <1>3, <2>2 DEF StampInv
  <2>3. CASE ~visits[v].cancelledAt
    <3>1. PICK q \in Request :
             /\ req[q].id = v /\ req[q].pc = "update" /\ req[q] \in UpdateCall
             /\ req[q].op # "cancel" => (visits'[v].cancelledAt => visits[v].cancelledAt)
      BY <2>1, <2>3, RowWritten
    <3>2. req[q].op = "cancel"
      BY <2>3, <3>1
    <3>3. {q, r} \in crossed
      BY <1>3, <3>1, <3>2 DEF Met
    <3>4. QED
      BY <1>1, <1>3, <3>1, <3>2, <3>3 DEF CancelCrossed
  <2>4. QED
    BY <2>2, <2>3
<1>4. QED
  BY <1>2, <1>3, UpdateComesFromCheck

LEMMA StampInvariant == Spec => []StampInv
<1>1. Init => StampInv
  BY DEF Init, StampInv, Booked, NewCall
<1>2. TypeInv /\ StampInv /\ Met /\ [Next]_vars => StampInv'
  BY StampRowsStep, StampCallsStep DEF StampInv
<1>3. QED
  BY <1>1, <1>2, TypeInvariant, MetInvariant, PTL DEF Spec

\* Every visit that is CANCELLED says when it was, and one that says so is
\* CANCELLED, but for a cancel() that crossed reschedule() or confirm().
THEOREM CancellationsAreStamped == Spec => []CancelledIsStamped
<1>1. StatusUsed /\ StampInv => CancelledIsStamped
  BY DEF StatusUsed, StampInv, CancelledIsStamped
<1>2. QED
  BY <1>1, StatusInvariant, StampInvariant, PTL

\* A call about to update a visit that is CANCELLED has crossed a call that
\* cancelled it.
Late ==
    \A r \in Request :
       req[r].pc = "update" /\ visits[req[r].id].status = "CANCELLED" =>
          \E q \in Request :
             req[q].op = "cancel" /\ req[q].id = req[r].id /\ {r, q} \in crossed

LEMMA LateStep == ASSUME TypeInv, Late, Met, [Next]_vars PROVE Late'
<1>. SUFFICES ASSUME NEW r \in Request, req'[r].pc = "update", visits'[req'[r].id].status = "CANCELLED"
              PROVE  \E q \in Request :
                        req'[q].op = "cancel" /\ req'[q].id = req'[r].id /\ {r, q} \in crossed'
  BY DEF Late
<1>1. req'[r] = req[r]
  BY UpdateComesFromCheck DEF Passed
<1>2. req[r].id \in Booked /\ req[r].id \in VisitId
  BY <1>1 DEF TypeInv, Found, Booked
<1>3. ASSUME NEW q \in Request, req[q].op = "cancel", req[q].id = req[r].id, {r, q} \in crossed
      PROVE  req'[q].op = "cancel" /\ req'[q].id = req'[r].id /\ {r, q} \in crossed'
  <2>1. CallUnderWay(req[q])
    BY <1>2, <1>3, VisitsAssumption DEF CallUnderWay, TypeInv, TypeOK, NewCall
  <2>2. QED
    BY <1>1, <1>2, <1>3, <2>1, CallStays, CrossedGrows, VisitsAssumption DEF SameCall
<1>4. CASE visits[req[r].id].status = "CANCELLED"
  BY <1>1, <1>3, <1>4 DEF Late
<1>5. CASE visits[req[r].id].status # "CANCELLED"
  <2>1. PICK q \in Request :
           /\ req[q].id = req[r].id /\ req[q].pc = "update" /\ req'[q].pc # "update"
           /\ req[q].op = "cancel"
    BY <1>1, <1>2, <1>5, RowWritten
  <2>2. {r, q} \in crossed
    BY <1>1, <2>1 DEF Met
  <2>3. QED
    BY <1>3, <2>1, <2>2
<1>6. QED
  BY <1>4, <1>5

LEMMA LateInvariant == Spec => []Late
<1>1. Init => Late
  BY DEF Init, Late, NewCall
<1>2. TypeInv /\ Late /\ Met /\ [Next]_vars => Late'
  BY LateStep
<1>3. QED
  BY <1>1, <1>2, TypeInvariant, MetInvariant, PTL DEF Spec

\* A cancelled visit is changed only by a call that crossed one that cancelled
\* it, whatever the interleaving.
THEOREM CancelledForGood == Spec => CancelledIsFinal
<1>1. ASSUME TypeInv, Late, [Next]_vars, NEW v \in Booked, visits[v].status = "CANCELLED",
             visits'[v] # visits[v]
      PROVE  \E r, q \in Request :
                /\ req[r].id = v /\ req[r].pc = "update" /\ req'[r].pc # "update"
                /\ req[q].id = v /\ req[q].op = "cancel"
                /\ {r, q} \in crossed
  <2>1. PICK r \in Request : req[r].id = v /\ req[r].pc = "update" /\ req'[r].pc # "update"
    BY <1>1, RowWritten
  <2>2. PICK q \in Request : req[q].op = "cancel" /\ req[q].id = v /\ {r, q} \in crossed
    BY <1>1, <2>1 DEF Late
  <2>3. QED
    BY <2>1, <2>2
<1>2. TypeInv /\ Late /\ [Next]_vars =>
        [\A v \in Booked : visits[v].status = "CANCELLED" /\ visits'[v] # visits[v] =>
            \E r, q \in Request :
               /\ req[r].id = v /\ req[r].pc = "update" /\ req'[r].pc # "update"
               /\ req[q].id = v /\ req[q].op = "cancel"
               /\ {r, q} \in crossed]_vars
  BY <1>1
<1>3. QED
  BY <1>2, TypeInvariant, LateInvariant, PTL DEF Spec, CancelledIsFinal

-----------------------------------------------------------------------------
(* The board.                                                              *)

\* What call r is about to write, while it stands between check and write.
Decision(r) ==
    [op |-> req[r].op, user |-> req[r].user, propertyId |-> req[r].propertyId,
     scheduledAt |-> req[r].scheduledAt, key |-> req[r].key, id |-> req[r].id]

LEMMA PlanIs ==
    ASSUME NEW r \in Request
    PROVE  /\ Plans[r] = Plan(r)
           /\ req[r].pc \in {"create", "update"} => Plan(r) = {Decision(r)}
           /\ req[r].pc \notin {"create", "update"} => Plan(r) = {}
BY DEF Plans, Plan, Decision

LEMMA PlanWillBe ==
    ASSUME NEW r \in Request
    PROVE  /\ Plans'[r] = Plan(r)'
           /\ req'[r].pc \in {"create", "update"} => Plan(r)' = {Decision(r)'}
           /\ req'[r].pc \notin {"create", "update"} => Plan(r)' = {}
BY DEF Plans, Plan, Decision

\* A step of one call changes its own plan.
LEMMA PlansChange ==
    ASSUME NEW r \in Request, \A q \in Request \ {r} : req'[q] = req[q], NEW S, Plan(r)' = S
    PROVE  Plans' = [Plans EXCEPT ![r] = S]
<1>1. \A q \in Request \ {r} : Plan(q)' = Plan(q)
  BY DEF Plan
<1>2. QED
  BY <1>1 DEF Plans

LEMMA PlansStay ==
    ASSUME NEW r \in Request, \A q \in Request \ {r} : req'[q] = req[q], Plan(r)' = Plan(r)
    PROVE  Plans' = Plans
<1>1. \A q \in Request : Plan(q)' = Plan(q)
  BY DEF Plan
<1>2. QED
  BY <1>1 DEF Plans

\* book() asks for a free slot.
LEMMA BoardBookDecided ==
    ASSUME TypeInv, NEW r \in Request, BookConflict(r), \A q \in Request \ {r} : req'[q] = req[q]
    PROVE  Board!Decide(r) \/ UNCHANGED <<visits, Plans>>
<1>1. /\ visits \in [VisitId -> Visit \cup {None}]
      /\ req \in [Request -> {NewCall} \cup BookCall \cup UpdateCall]
  BY DEF TypeInv, TypeOK
<1>2. req[r] \in BookCall /\ req[r].pc = "conflict" /\ visits' = visits
  BY <1>1 DEF BookConflict, NewCall, BookCall, UpdateCall, Ended
<1>3. Plan(r) = {} /\ Plans[r] = {}
  BY <1>2, PlanIs
<1>4. CASE Conflicts(req[r].propertyId, req[r].scheduledAt) # {}
  <2>1. req'[r].pc = "rejected"
    BY <1>1, <1>2, <1>4 DEF BookConflict, GoTo, BookCall
  <2>2. Plan(r)' = {}
    BY <2>1, PlanWillBe
  <2>3. QED
    BY <1>2, <1>3, <2>2, PlansStay
<1>5. CASE Conflicts(req[r].propertyId, req[r].scheduledAt) = {}
  <2>1. req'[r] = [req[r] EXCEPT !.pc = "create"]
    BY <1>1, <1>5 DEF BookConflict, GoTo
  <2>2. req'[r].pc = "create" /\ Decision(r)' = Decision(r)
    BY <1>2, <2>1 DEF BookCall, Decision
  <2>3. Plan(r)' = {Decision(r)}
    BY <2>2, PlanWillBe
  <2>4. Plans' = [Plans EXCEPT ![r] = {Decision(r)}] /\ Decision(r) \in Plans'[r]
    BY <2>3, PlansChange, PlanWillBe
  <2>5. Decision(r) \in Board!Booking
    BY <1>2 DEF Decision, Board!Booking, BookCall, Time, Board!Time
  <2>6. Board!Free(req[r].propertyId, req[r].scheduledAt)
    <3>. SUFFICES ASSUME NEW w \in VisitId, Board!Live(w), visits[w].propertyId = req[r].propertyId
                  PROVE  \/ visits[w].scheduledAt + SlotDuration < req[r].scheduledAt
                         \/ req[r].scheduledAt + SlotDuration < visits[w].scheduledAt
      BY DEF Board!Free
    <3>1. Active(w) /\ ~InSlot(visits[w].scheduledAt, req[r].scheduledAt)
      BY <1>5 DEF Conflicts, Board!Live, Board!OnBoard, Active
    <3>2. visits[w].scheduledAt \in Nat /\ req[r].scheduledAt \in Nat /\ SlotDuration \in Nat
      BY <1>1, <1>2, <3>1, VisitsAssumption DEF Active, Visit, BookCall, Time
    <3>3. QED
      BY <3>1, <3>2 DEF InSlot
  <2>7. Board!Free(Decision(r).propertyId, Decision(r).scheduledAt)
    BY <2>6 DEF Decision
  <2>8. QED
    BY <1>2, <1>3, <2>4, <2>5, <2>7 DEF Board!Decide
<1>6. QED
  BY <1>4, <1>5

\* The other three ask for a visit of the caller that is not cancelled.
LEMMA BoardChangeDecided ==
    ASSUME TypeInv, StatusUsed, [Next]_vars, NEW r \in Request,
           CancelRead(r) \/ RescheduleRead(r) \/ ConfirmRead(r),
           \A q \in Request \ {r} : req'[q] = req[q]
    PROVE  Board!Decide(r) \/ UNCHANGED <<visits, Plans>>
<1>1. PICK op \in {"cancel", "reschedule", "confirm"}, u \in User, v \in VisitId,
           t \in Time \cup {None}, ok \in BOOLEAN : ReadVisit(r, op, u, v, t, ok)
  BY ReadsVisit
<1>2. req[r].pc = "new" /\ req'[r].pc \in {"update", "rejected"} /\ visits' = visits
  BY <1>1 DEF ReadVisit, Admitted, Serve, TypeInv, TypeOK
<1>3. Plan(r) = {} /\ Plans[r] = {}
  BY <1>2, PlanIs
<1>4. CASE req'[r].pc = "rejected"
  <2>1. Plan(r)' = {}
    BY <1>4, PlanWillBe
  <2>2. QED
    BY <1>2, <1>3, <2>1, PlansStay
<1>5. CASE req'[r].pc = "update"
  <2>1. Passed(r)
    BY <1>2, <1>5, UpdateComesFromCheck
  <2> DEFINE d == Decision(r)'
  <2>2. Plan(r)' = {d}
    BY <1>5, PlanWillBe
  <2>3. Plans' = [Plans EXCEPT ![r] = {d}] /\ d \in Plans'[r]
    BY <2>2, PlansChange, PlanWillBe
  <2>4. req'[r] \in UpdateCall
    BY <2>1 DEF Passed
  <2>5. /\ d.op = req'[r].op /\ d.user = req'[r].user /\ d.id = req'[r].id
        /\ d = [op |-> req'[r].op, user |-> req'[r].user, propertyId |-> None,
                scheduledAt |-> req'[r].scheduledAt, key |-> None, id |-> req'[r].id]
    BY <2>4 DEF Decision, UpdateCall
  <2>6. User = Tenant \cup Board!Owner /\ Time = Board!Time
    BY DEF User, Board!Owner, Time, Board!Time
  <2>7. d \in Board!Change
    <3>1. /\ req'[r].op # "reschedule" => req'[r].scheduledAt = None
          /\ req'[r].op = "reschedule" => req'[r].user \in Tenant /\ req'[r].scheduledAt \in Time
          /\ req'[r].op = "confirm" => req'[r].user \notin Tenant
          /\ req'[r].op \in {"cancel", "reschedule", "confirm"}
          /\ req'[r].user \in User /\ req'[r].id \in VisitId
      BY <2>1, <2>4 DEF Passed, UpdateCall
    <3>2. CASE req'[r].op = "cancel"
      BY <2>5, <2>6, <3>1, <3>2 DEF Board!Change
    <3>3. CASE req'[r].op = "reschedule"
      BY <2>5, <2>6, <3>1, <3>3 DEF Board!Change
    <3>4. CASE req'[r].op = "confirm"
      BY <2>5, <2>6, <3>1, <3>4 DEF Board!Change
    <3>5. QED
      BY <3>1, <3>2, <3>3, <3>4
  <2>8. Board!Allows(d)
    <3>1. Board!Live(req'[r].id)
      BY <2>1 DEF Passed, StatusUsed, Board!Live, Board!OnBoard, Booked
    <3>2. QED
      BY <2>1, <2>5, <3>1 DEF Passed, Board!Allows
  <2>9. QED
    BY <1>2, <1>3, <2>3, <2>7, <2>8 DEF Board!Decide
<1>6. QED
  BY <1>2, <1>4, <1>5

\* book() writes what it decided, or is refused by the unique index.
LEMMA BoardBooked ==
    ASSUME TypeInv, NEW r \in Request, BookCreate(r), \A q \in Request \ {r} : req'[q] = req[q]
    PROVE  Board!Write(r) \/ Board!Forget(r)
<1>1. /\ req \in [Request -> {NewCall} \cup BookCall \cup UpdateCall] /\ TypeOK
      /\ req[r] \in BookCall /\ req[r].pc = "create" /\ req[r].op = "book"
      /\ req'[r].pc \in {"written", "rejected"}
  BY BookCreates, AfterInsert DEF TypeInv, TypeOK, BookCreate, BookCall
<1>2. Plan(r) = {Decision(r)} /\ Plans[r] = {Decision(r)} /\ Plan(r)' = {}
  BY <1>1, PlanIs, PlanWillBe
<1>3. Plans' = [Plans EXCEPT ![r] = {}]
  BY <1>2, PlansChange
<1>4. CASE visits' = visits
  BY <1>2, <1>3, <1>4 DEF Board!Forget
<1>5. ASSUME NEW v \in VisitId \ Booked, ~KeyTaken(req[r].key), visits' = [visits EXCEPT ![v] = NewRow(r)]
      PROVE  Board!Write(r)
  <2>1. Board!FreshKey(Decision(r).key) /\ ~Board!OnBoard(v)
    BY <1>5 DEF Board!FreshKey, Board!OnBoard, KeyTaken, Booked, Decision
  <2>2. Board!Book(v, Decision(r))
    BY <1>5, <2>1 DEF Board!Book, NewRow, Decision
  <2>3. Decision(r).op = "book"
    BY <1>1 DEF Decision
  <2>4. QED
    BY <1>2, <1>3, <2>2, <2>3 DEF Board!Write
<1>6. QED
  BY <1>1, <1>4, <1>5, BookCreates

\* So do the other three, however the row has changed since.
LEMMA BoardChanged ==
    ASSUME TypeInv, NEW r \in Request, CancelWrite(r) \/ RescheduleWrite(r) \/ ConfirmWrite(r),
           \A q \in Request \ {r} : req'[q] = req[q]
    PROVE  Board!Write(r)
<1>1. req \in [Request -> {NewCall} \cup BookCall \cup UpdateCall]
  BY DEF TypeInv, TypeOK
<1>2. req[r].pc = "update" /\ req[r] \in UpdateCall /\ req'[r].pc \in {"written", "answered"}
  <2>1. req[r].pc = "update" /\ req[r] \in UpdateCall
    BY <1>1 DEF CancelWrite, RescheduleWrite, ConfirmWrite, Update, NewCall, BookCall, Suspended, Ended
  <2>2. QED
    BY <1>1, <2>1 DEF CancelWrite, RescheduleWrite, ConfirmWrite, Update, GoTo, UpdateCall
<1>3. Plan(r) = {Decision(r)} /\ Plans[r] = {Decision(r)} /\ Plan(r)' = {}
  BY <1>2, PlanIs, PlanWillBe
<1>4. Plans' = [Plans EXCEPT ![r] = {}]
  BY <1>3, PlansChange
<1>5. Decision(r).op = req[r].op /\ Decision(r).id = req[r].id
      /\ Decision(r).scheduledAt = req[r].scheduledAt
  BY DEF Decision
<1>6. CASE CancelWrite(r)
  <2>1. req[r].op = "cancel" /\ Board!Cancel(req[r].id)
    BY <1>6 DEF CancelWrite, Update, Board!Cancel
  <2>2. QED
    BY <1>3, <1>4, <1>5, <2>1 DEF Board!Write
<1>7. CASE RescheduleWrite(r)
  <2>1. req[r].op = "reschedule" /\ req[r].id \in VisitId
    BY <1>2, <1>7 DEF RescheduleWrite, Update, UpdateCall
  <2>2. Board!Move(req[r].id, req[r].scheduledAt)
    BY <1>7, <2>1 DEF RescheduleWrite, Board!Move, TypeInv, TypeOK
  <2>3. QED
    BY <1>3, <1>4, <1>5, <2>1, <2>2 DEF Board!Write
<1>8. CASE ConfirmWrite(r)
  <2>1. req[r].op = "confirm" /\ Board!Confirm(req[r].id)
    BY <1>8 DEF ConfirmWrite, Update, Board!Confirm
  <2>2. QED
    BY <1>3, <1>4, <1>5, <2>1 DEF Board!Write
<1>9. QED
  BY <1>6, <1>7, <1>8

\* The rest of a handler is not seen on the board.
LEMMA BoardUnseen ==
    ASSUME TypeInv, NEW r \in Request,
           BookNew(r) \/ BookReplay(r) \/ BookProperty(r) \/ Emit(r) \/ Abort(r),
           \A q \in Request \ {r} : req'[q] = req[q]
    PROVE  Board!Forget(r) \/ UNCHANGED <<visits, Plans>>
<1>1. req \in [Request -> {NewCall} \cup BookCall \cup UpdateCall]
  BY DEF TypeInv, TypeOK
<1>2. visits' = visits
  BY DEF BookNew, BookReplay, BookProperty, Emit, Abort
<1>3. req'[r].pc \notin {"create", "update"}
  <2>1. CASE BookNew(r)
    <3>1. PICK u \in Tenant, p \in Property, t \in Time, k \in Key :
            Serve(r, [NewCall EXCEPT !.pc = "property", !.op = "book", !.user = u,
                          !.propertyId = p, !.scheduledAt = t, !.key = k])
      BY <2>1 DEF BookNew
    <3>2. [NewCall EXCEPT !.pc = "property", !.op = "book", !.user = u, !.propertyId = p,
                          !.scheduledAt = t, !.key = k].pc = "property"
      BY DEF NewCall
    <3>3. QED
      BY <1>1, <3>1, <3>2 DEF Serve
  <2>2. CASE BookReplay(r)
    BY <1>1, <2>2 DEF BookReplay, Serve
  <2>3. CASE BookProperty(r) \/ Emit(r) \/ Abort(r)
    <3>1. req[r] \in BookCall \cup UpdateCall
      BY <1>1, <2>3 DEF BookProperty, Emit, Abort, Served, NewCall, Suspended
    <3>2. \A pc : [req[r] EXCEPT !.pc = pc].pc = pc
      BY <3>1 DEF BookCall, UpdateCall
    <3>3. \E pc : pc \notin {"create", "update"} /\ GoTo(r, pc)
      BY <2>3 DEF BookProperty, Emit, Abort
    <3>4. QED
      BY <1>1, <3>2, <3>3 DEF GoTo
  <2>4. QED
    BY <2>1, <2>2, <2>3
<1>4. Plan(r)' = {}
  BY <1>3, PlanWillBe
<1>5. CASE Plan(r) = {}
  BY <1>2, <1>4, <1>5, PlansStay
<1>6. CASE Plan(r) # {}
  <2>1. Plans[r] # {} /\ Plans' = [Plans EXCEPT ![r] = {}]
    BY <1>4, <1>6, PlanIs, PlansChange
  <2>2. QED
    BY <1>2, <2>1 DEF Board!Forget
<1>7. QED
  BY <1>5, <1>6

LEMMA BoardStep == ASSUME TypeInv, StatusUsed, [Next]_vars PROVE [Board!Next]_<<visits, Plans>>
<1>1. ASSUME NEW r \in Request, Handle(r), \A q \in Request \ {r} : req'[q] = req[q]
      PROVE  Board!Decide(r) \/ Board!Write(r) \/ Board!Forget(r) \/ UNCHANGED <<visits, Plans>>
  <2>1. CASE BookConflict(r)
    BY <1>1, <2>1, BoardBookDecided
  <2>2. CASE CancelRead(r) \/ RescheduleRead(r) \/ ConfirmRead(r)
    BY <1>1, <2>2, BoardChangeDecided
  <2>3. CASE BookCreate(r)
    BY <1>1, <2>3, BoardBooked
  <2>4. CASE CancelWrite(r) \/ RescheduleWrite(r) \/ ConfirmWrite(r)
    BY <1>1, <2>4, BoardChanged
  <2>5. CASE BookNew(r) \/ BookReplay(r) \/ BookProperty(r) \/ Emit(r) \/ Abort(r)
    BY <1>1, <2>5, BoardUnseen
  <2>6. QED
    BY <1>1, <2>1, <2>2, <2>3, <2>4, <2>5 DEF Handle, Book, Cancel, Reschedule, Confirm
<1>2. ASSUME NEW r \in Request, Handle(r) PROVE \A q \in Request \ {r} : req'[q] = req[q]
  BY <1>2 DEF TypeInv, TypeOK, Handle, Book, BookNew, BookReplay, BookProperty, BookConflict, BookCreate,
     Cancel, Reschedule, Confirm, CancelRead, RescheduleRead, ConfirmRead, ReadVisit,
     CancelWrite, RescheduleWrite, ConfirmWrite, Update, Emit, Abort, GoTo, Serve
<1>3. ASSUME visits' = visits, req' = req PROVE UNCHANGED <<visits, Plans>>
  BY <1>3 DEF Plans, Plan
<1>4. CASE \E r \in Request : Handle(r)
  BY <1>1, <1>2, <1>4 DEF Board!Next
<1>5. QED
  BY <1>3, <1>4 DEF Next, Delist, Tick, vars

\* The service is the board, whatever the interleaving: each handler takes
\* effect as a decision the board allowed when it was made, and a write of that
\* decision, with the world in between.
THEOREM ServiceImplementsBoard == Spec => ImplementsBoard
<1>1. Init => Board!Init
  BY DEF Init, Board!Init, Plans, Plan, NewCall
<1>2. TypeInv /\ StatusUsed /\ [Next]_vars => [Board!Next]_<<visits, Plans>>
  BY BoardStep
<1>3. QED
  BY <1>1, <1>2, TypeInvariant, StatusInvariant, PTL DEF Spec, ImplementsBoard, Board!Spec

-----------------------------------------------------------------------------
(* Double booking.                                                         *)

\* A call of reschedule() that was let through is never forgotten.
LEMMA MovedStays ==
    ASSUME TypeInv, [Next]_vars, NEW v \in VisitId, Moved(v) PROVE Moved(v)'
<1>1. PICK r \in Request : req[r].op = "reschedule" /\ req[r].id = v /\ req[r].pc # "rejected"
  BY DEF Moved
<1>2. req \in [Request -> {NewCall} \cup BookCall \cup UpdateCall]
  BY DEF TypeInv, TypeOK
<1>3. req[r] \in UpdateCall
  <2>1. req[r] # NewCall
    BY <1>1, VisitsAssumption DEF NewCall
  <2>2. req[r] \notin BookCall
    BY <1>1 DEF BookCall
  <2>3. QED
    BY <1>2, <2>1, <2>2
<1>4. \A pc : [req[r] EXCEPT !.pc = pc].pc = pc /\ [req[r] EXCEPT !.pc = pc].op = "reschedule"
              /\ [req[r] EXCEPT !.pc = pc].id = v
  BY <1>1, <1>3 DEF UpdateCall
<1>5. ASSUME Handle(r) PROVE Moved(v)'
  <2>1. \E pc \in {"written", "answered", "aborted"} : GoTo(r, pc)
    BY <1>1, <1>3, <1>5 DEF UpdateCall, Suspended, Ended, Handle, Book, BookNew, BookReplay, BookProperty,
       BookConflict, BookCreate, Cancel, CancelRead, CancelWrite, Reschedule, RescheduleRead,
       RescheduleWrite, Confirm, ConfirmRead, ConfirmWrite, ReadVisit, Update, Admitted, Emit, Abort
  <2>2. QED
    BY <1>2, <1>4, <2>1 DEF GoTo, Moved
<1>6. CASE req'[r] = req[r]
  BY <1>1, <1>6 DEF Moved
<1>7. QED
  BY <1>5, <1>6, OneMoves DEF TypeInv

\* No update takes the stamp of a cancellation away.
LEMMA StampStays ==
    ASSUME TypeInv, [Next]_vars, NEW v \in Booked, visits[v].cancelledAt
    PROVE  visits'[v].cancelledAt
<1>1. visits[v] \in Visit
  BY DEF TypeInv, TypeOK, Booked
<1>2. CASE visits'[v] = visits[v]
  BY <1>2
<1>3. CASE visits'[v] # visits[v]
  <2>1. PICK t : visits'[v] \in {[visits[v] EXCEPT !.status = "CANCELLED", !.cancelledAt = TRUE],
                                [visits[v] EXCEPT !.scheduledAt = t, !.status = "PENDING"],
                                [visits[v] EXCEPT !.status = "CONFIRMED"]}
    BY <1>3, RowsChange
  <2>2. QED
    BY <1>1, <2>1 DEF Visit
<1>4. QED
  BY <1>2, <1>3

LEMMA BookedCrossingStays ==
    ASSUME TypeInv, [Next]_vars, NEW v \in VisitId, NEW w \in VisitId, BookedCrossing(v, w)
    PROVE  BookedCrossing(v, w)'
<1>1. PICK r \in Request, q \in Request :
         {r, q} \in crossed /\ req[r].op = "book" /\ req[q].op = "book" /\ req[r].id = v /\ req[q].id = w
  BY DEF BookedCrossing
<1>2. CallUnderWay(req[r]) /\ CallUnderWay(req[q])
  BY <1>1, VisitsAssumption DEF CallUnderWay, TypeInv, TypeOK, NewCall
<1>3. SameCall(req[r], req'[r]) /\ SameCall(req[q], req'[q]) /\ {r, q} \in crossed'
  BY <1>1, <1>2, CallStays, CrossedGrows
<1>4. QED
  BY <1>1, <1>3, VisitsAssumption DEF SameCall, BookedCrossing

\* Call r crossed the one that booked v.
CrossedBooking(r, v) ==
    \E q \in Request : {r, q} \in crossed /\ req[q].op = "book" /\ req[q].id = v

LEMMA CrossedBookingStays ==
    ASSUME TypeInv, [Next]_vars, NEW r \in Request, NEW v \in VisitId, CrossedBooking(r, v)
    PROVE  CrossedBooking(r, v)'
<1>1. PICK q \in Request : {r, q} \in crossed /\ req[q].op = "book" /\ req[q].id = v
  BY DEF CrossedBooking
<1>2. CallUnderWay(req[q])
  BY <1>1, VisitsAssumption DEF CallUnderWay, TypeInv, TypeOK, NewCall
<1>3. SameCall(req[q], req'[q]) /\ {r, q} \in crossed'
  BY <1>1, <1>2, CallStays, CrossedGrows
<1>4. QED
  BY <1>1, <1>3, VisitsAssumption DEF SameCall, CrossedBooking

\* A visit that was not moved and never cancelled is where it was, and is
\* active only if it was.
LEMMA Steady ==
    ASSUME TypeInv, StatusUsed, [Next]_vars, NEW v \in Booked, ~Moved(v)', ~visits'[v].cancelledAt
    PROVE  /\ visits'[v].propertyId = visits[v].propertyId
           /\ visits'[v].scheduledAt = visits[v].scheduledAt
           /\ Active(v)' => Active(v)
           /\ ~Moved(v) /\ ~visits[v].cancelledAt
<1>1. v \in VisitId /\ visits[v] # None
  BY DEF Booked
<1>2. ~Moved(v)
  BY <1>1, MovedStays
<1>3. ~visits[v].cancelledAt
  BY StampStays
<1>4. visits[v].status # "CANCELLED"
  BY <1>3 DEF StatusUsed
<1>5. visits'[v].propertyId = visits[v].propertyId
  BY RowsStay DEF SameVisit
<1>6. visits'[v].scheduledAt = visits[v].scheduledAt
  <2>1. CASE visits'[v] # visits[v]
    <3>1. PICK r \in Request :
             /\ req[r].id = v /\ req[r].pc = "update"
             /\ req[r].op # "reschedule" => visits'[v].scheduledAt = visits[v].scheduledAt
      BY <2>1, RowWritten
    <3>2. QED
      BY <1>2, <3>1 DEF Moved
  <2>2. QED
    BY <2>1
<1>7. QED
  BY <1>1, <1>2, <1>3, <1>4, <1>5, <1>6 DEF Active

\* A visit in the way of a call of book() that has found none was moved there,
\* was cancelled and lives again, or was booked by a call it crossed.
Checked ==
    \A r \in Request : req[r].pc = "create" =>
       \A v \in Conflicts(req[r].propertyId, req[r].scheduledAt) :
          Moved(v) \/ visits[v].cancelledAt \/ CrossedBooking(r, v)

LEMMA CheckedStep == ASSUME TypeInv, StatusUsed, Met, Checked, [Next]_vars PROVE Checked'
<1>. SUFFICES ASSUME NEW r \in Request, req'[r].pc = "create", NEW v \in VisitId, Active(v)',
                     visits'[v].propertyId = req'[r].propertyId,
                     InSlot(visits'[v].scheduledAt, req'[r].scheduledAt),
                     ~Moved(v)', ~visits'[v].cancelledAt
              PROVE  CrossedBooking(r, v)'
  BY DEF Checked, Conflicts
<1>1. v \in Booked'
  BY DEF Active, Booked
<1>2. CASE v \notin Booked
  <2>1. PICK q \in Request :
           /\ BookCreate(q) /\ visits'[v] = NewRow(q) /\ req[q] \in BookCall
           /\ req' = [req EXCEPT ![q] = [req[q] EXCEPT !.pc = "written", !.id = v]]
    BY <1>1, <1>2, RowInserted
  <2>2. req'[q].pc = "written" /\ req'[q].id = v /\ req'[q].op = "book"
    BY <2>1 DEF BookCall, TypeInv, TypeOK
  <2>3. r # q /\ req'[r] = req[r] /\ visits'[v].propertyId = req[q].propertyId /\ req[q].pc = "create"
    <3>1. visits'[v].propertyId = req[q].propertyId
      BY <2>1 DEF NewRow
    <3>2. QED
      BY <2>1, <2>2, <3>1 DEF BookCreate, TypeInv, TypeOK
  <2>4. {r, q} \in crossed'
    BY <2>3, CrossedGrows DEF Met
  <2>5. QED
    BY <2>2, <2>4 DEF CrossedBooking
<1>3. CASE v \in Booked
  <2>1. /\ Active(v) /\ visits[v].propertyId = req'[r].propertyId
        /\ InSlot(visits[v].scheduledAt, req'[r].scheduledAt)
        /\ ~Moved(v) /\ ~visits[v].cancelledAt
    BY <1>3, Steady
  <2>2. v \in Conflicts(req'[r].propertyId, req'[r].scheduledAt)
    BY <2>1 DEF Conflicts
  <2>3. req'[r] = req[r]
    <3>1. ASSUME req[r] \in BookCall, req'[r] = [req[r] EXCEPT !.pc = "create"],
                 Conflicts(req[r].propertyId, req[r].scheduledAt) = {}
          PROVE  FALSE
      <4>1. req'[r].propertyId = req[r].propertyId /\ req'[r].scheduledAt = req[r].scheduledAt
        BY <3>1 DEF BookCall
      <4>2. QED
        BY <2>2, <3>1, <4>1
    <3>2. QED
      BY <3>1, CreateComesFromConflict
  <2>4. CrossedBooking(r, v)
    BY <2>1, <2>2, <2>3 DEF Checked
  <2>5. QED
    BY <2>4, CrossedBookingStays
<1>4. QED
  BY <1>2, <1>3

\* The insert of book() keeps what its check asked for.
LEMMA InsertedApart ==
    ASSUME TypeInv, Checked, [Next]_vars, NEW v \in Booked', v \notin Booked, NEW w \in Booked', w # v,
           Active(w)', visits'[w].propertyId = visits'[v].propertyId,
           ~Moved(w)', ~visits'[w].cancelledAt
    PROVE  Apart(v, w)' \/ BookedCrossing(v, w)'
<1>1. PICK r \in Request :
         /\ BookCreate(r) /\ v \in VisitId /\ visits' = [visits EXCEPT ![v] = NewRow(r)]
         /\ visits'[v] = NewRow(r)
         /\ req' = [req EXCEPT ![r] = [req[r] EXCEPT !.pc = "written", !.id = v]]
         /\ req[r] \in BookCall
  BY RowInserted
<1>2. /\ visits \in [VisitId -> Visit \cup {None}] /\ TypeOK
      /\ req \in [Request -> {NewCall} \cup BookCall \cup UpdateCall]
  BY DEF TypeInv, TypeOK
<1>3. w \in VisitId /\ visits'[w] = visits[w] /\ Active(w)
  BY <1>1, <1>2 DEF Booked, Active
<1>4. /\ visits'[v].scheduledAt = req[r].scheduledAt /\ visits'[v].propertyId = req[r].propertyId
      /\ req[r].pc = "create"
  BY <1>1 DEF NewRow, BookCreate
<1>5. req'[r].id = v /\ req'[r].op = "book"
  BY <1>1, <1>2 DEF BookCall
<1>6. CASE w \in Conflicts(req[r].propertyId, req[r].scheduledAt)
  <2>1. ~Moved(w) /\ ~visits[w].cancelledAt
    BY <1>3, MovedStays
  <2>2. CrossedBooking(r, w)'
    BY <1>3, <1>4, <1>6, <2>1, CrossedBookingStays DEF Checked
  <2>3. QED
    BY <1>5, <2>2 DEF CrossedBooking, BookedCrossing
<1>7. CASE w \notin Conflicts(req[r].propertyId, req[r].scheduledAt)
  <2>1. ~InSlot(visits[w].scheduledAt, req[r].scheduledAt)
    BY <1>3, <1>4, <1>7 DEF Conflicts
  <2>2. visits[w].scheduledAt \in Nat /\ req[r].scheduledAt \in Nat /\ SlotDuration \in Nat
    BY <1>1, <1>2, <1>3, VisitsAssumption DEF Active, Visit, BookCall, Time
  <2>3. Apart(v, w)'
    BY <1>3, <1>4, <2>1, <2>2 DEF InSlot, Apart
  <2>4. QED
    BY <2>3
<1>8. QED
  BY <1>6, <1>7

LEMMA BookedApartStep ==
    ASSUME TypeInv, StatusUsed, Checked, BookedApart, [Next]_vars PROVE BookedApart'
<1>. SUFFICES ASSUME NEW v \in Booked', NEW w \in Booked', v # w,
                     visits'[v].propertyId = visits'[w].propertyId, Active(v)', Active(w)',
                     ~Moved(v)', ~Moved(w)', ~visits'[v].cancelledAt, ~visits'[w].cancelledAt
              PROVE  Apart(v, w)' \/ BookedCrossing(v, w)'
  BY DEF BookedApart, Rivals
<1>1. CASE v \notin Booked
  BY <1>1, InsertedApart
<1>2. CASE w \notin Booked
  <2>1. Apart(w, v)' \/ BookedCrossing(w, v)'
    BY <1>2, InsertedApart
  <2>2. \A r, q \in Request : {r, q} = {q, r}
    OBVIOUS
  <2>3. QED
    BY <2>1, <2>2 DEF Apart, BookedCrossing
<1>3. CASE v \in Booked /\ w \in Booked
  <2>1. /\ visits'[v].propertyId = visits[v].propertyId /\ visits'[v].scheduledAt = visits[v].scheduledAt
        /\ Active(v) /\ ~Moved(v) /\ ~visits[v].cancelledAt
    BY <1>3, Steady
  <2>2. /\ visits'[w].propertyId = visits[w].propertyId /\ visits'[w].scheduledAt = visits[w].scheduledAt
        /\ Active(w) /\ ~Moved(w) /\ ~visits[w].cancelledAt
    BY <1>3, Steady
  <2>3. Rivals(v, w)
    BY <2>1, <2>2 DEF Rivals
  <2>4. Apart(v, w) \/ BookedCrossing(v, w)
    BY <1>3, <2>1, <2>2, <2>3 DEF BookedApart
  <2>5. Apart(v, w) => Apart(v, w)'
    BY <2>1, <2>2 DEF Apart
  <2>6. v \in VisitId /\ w \in VisitId
    BY DEF Booked
  <2>7. QED
    BY <2>4, <2>5, <2>6, BookedCrossingStays
<1>4. QED
  BY <1>1, <1>2, <1>3

\* Visits of a property overlap only when one was rescheduled, was cancelled
\* and lives again, or when the calls that booked them crossed.
THEOREM BookedStayApart == Spec => []BookedApart
<1>1. Init => Checked /\ BookedApart
  BY DEF Init, Checked, BookedApart, Booked, NewCall
<1>2. TypeInv /\ StatusUsed /\ Met /\ Checked /\ BookedApart /\ [Next]_vars => Checked' /\ BookedApart'
  BY CheckedStep, BookedApartStep
<1>3. QED
  BY <1>1, <1>2, TypeInvariant, StatusInvariant, MetInvariant, PTL DEF Spec

-----------------------------------------------------------------------------
(* What stands behind an event.                                            *)

\* A call of cancel() whose update went through.
Cancelled(r) == req[r].op = "cancel" /\ req[r].pc \in {"written", "answered"}

\* The stamp that update set stays, and so do the parties it checked.
CancelledByParty ==
    \A r \in Request : Cancelled(r) =>
       /\ visits[req[r].id].cancelledAt
       /\ req[r].user \in {visits[req[r].id].tenantId, visits[req[r].id].ownerId}

\* An event is about a row; a cancellation is that of the call it came from.
EventsMeant ==
    \A e \in emitted :
       /\ e.visit \in Booked
       /\ e.name = "visit.cancelled" =>
             /\ req[e.src].op = "cancel" /\ req[e.src].pc = "answered"
             /\ req[e.src].id = e.visit

\* A request that was answered does not move.
LEMMA AnsweredStays ==
    ASSUME TypeInv, [Next]_vars, NEW q \in Request, req[q].pc = "answered"
    PROVE  req'[q] = req[q]
<1>1. req \in [Request -> {NewCall} \cup BookCall \cup UpdateCall]
  BY DEF TypeInv, TypeOK
<1>2. ~Handle(q)
  BY DEF Handle, Book, BookNew, BookReplay, BookProperty, BookConflict, BookCreate,
     Cancel, Reschedule, Confirm, CancelRead, RescheduleRead, ConfirmRead, ReadVisit, Admitted,
     CancelWrite, RescheduleWrite, ConfirmWrite, Update, Emit, Abort, Served, Suspended
<1>3. QED
  BY <1>2, OneMoves

\* cancel() gets past its update by that update, and answers after it.
LEMMA CancelledComesFromUpdate ==
    ASSUME TypeInv, [Next]_vars, NEW q \in Request, Cancelled(q)'
    PROVE  \/ req'[q] = req[q]
           \/ CancelWrite(q) /\ req'[q] = [req[q] EXCEPT !.pc = "written"]
           \/ /\ Cancelled(q) /\ visits' = visits
              /\ req'[q] = [req[q] EXCEPT !.pc = "answered"]
<1>1. req \in [Request -> {NewCall} \cup BookCall \cup UpdateCall]
  BY DEF TypeInv, TypeOK
<1>2. ASSUME NEW r \in Request, Handle(r), r # q PROVE req'[q] = req[q]
  BY <1>1, <1>2 DEF Handle, Book, BookNew, BookReplay, BookProperty, BookConflict, BookCreate,
     Cancel, Reschedule, Confirm, CancelRead, RescheduleRead, ConfirmRead, ReadVisit,
     CancelWrite, RescheduleWrite, ConfirmWrite, Update, Emit, Abort, GoTo, Serve
<1>3. CASE CancelWrite(q)
  BY <1>1, <1>3 DEF CancelWrite, Update, GoTo
<1>4. CASE Emit(q)
  <2>1. req[q] \in BookCall \cup UpdateCall
    BY <1>1, <1>4 DEF Emit, NewCall
  <2>2. QED
    BY <1>1, <1>4, <2>1 DEF Emit, GoTo, Cancelled, BookCall, UpdateCall
<1>5. ASSUME BookNew(q) \/ BookReplay(q) PROVE FALSE
  <2>1. CASE BookNew(q)
    BY <1>1, <2>1 DEF BookNew, Serve, NewCall, Cancelled
  <2>2. CASE BookReplay(q)
    BY <1>1, <2>2 DEF BookReplay, Serve, Cancelled
  <2>3. QED
    BY <1>5, <2>1, <2>2
<1>6. ASSUME CancelRead(q) \/ RescheduleRead(q) \/ ConfirmRead(q) PROVE FALSE
  <2>1. PICK op \in {"cancel", "reschedule", "confirm"}, u \in User, v \in VisitId,
             t \in Time \cup {None}, ok \in BOOLEAN : ReadVisit(q, op, u, v, t, ok)
    BY <1>6, ReadsVisit
  <2>2. QED
    BY <1>1, <2>1 DEF ReadVisit, Serve, Cancelled
<1>7. ASSUME RescheduleWrite(q) \/ ConfirmWrite(q) \/ Abort(q) PROVE FALSE
  <2>1. req[q] \in BookCall \cup UpdateCall
    BY <1>1, <1>7 DEF RescheduleWrite, ConfirmWrite, Update, Abort, Served, NewCall, Suspended
  <2>2. QED
    BY <1>1, <1>7, <2>1 DEF RescheduleWrite, ConfirmWrite, Update, Abort, GoTo, BookCall,
       UpdateCall, Cancelled
<1>8. ASSUME BookProperty(q) \/ BookConflict(q) \/ BookCreate(q) PROVE FALSE
  <2>1. req[q] \in BookCall
    BY <1>1, <1>8 DEF BookProperty, BookConflict, BookCreate, NewCall, BookCall, UpdateCall, Ended
  <2>2. /\ \A pc : [req[q] EXCEPT !.pc = pc].op = "book"
        /\ \A v : [req[q] EXCEPT !.pc = "written", !.id = v].op = "book"
    BY <2>1 DEF BookCall
  <2>3. CASE BookProperty(q) \/ BookConflict(q)
    BY <1>1, <2>2, <2>3 DEF BookProperty, BookConflict, GoTo, Cancelled
  <2>4. CASE BookCreate(q) /\ KeyTaken(req[q].key)
    <3>1. req' = [req EXCEPT ![q] = [req[q] EXCEPT !.pc = "rejected"]]
      BY <2>4, BookCreates DEF TypeInv
    <3>2. QED
      BY <1>1, <2>2, <3>1 DEF Cancelled
  <2>5. CASE BookCreate(q) /\ ~KeyTaken(req[q].key)
    <3>1. PICK v \in VisitId \ Booked :
            req' = [req EXCEPT ![q] = [req[q] EXCEPT !.pc = "written", !.id = v]]
      BY <2>5, BookCreates DEF TypeInv
    <3>2. QED
      BY <1>1, <2>2, <3>1 DEF Cancelled
  <2>6. QED
    BY <1>8, <2>3, <2>4, <2>5
<1>9. QED
  BY <1>2, <1>3, <1>4, <1>5, <1>6, <1>7, <1>8
     DEF Next, Handle, Book, Cancel, Reschedule, Confirm, Delist, Tick, vars

LEMMA CancelledByPartyStep ==
    ASSUME TypeInv, Allowed, CancelledByParty, [Next]_vars
    PROVE  CancelledByParty'
<1>. SUFFICES ASSUME NEW q \in Request, Cancelled(q)'
              PROVE  LET v == visits'[req'[q].id] IN
                     v.cancelledAt /\ req'[q].user \in {v.tenantId, v.ownerId}
  BY DEF CancelledByParty
<1>1. CASE CancelWrite(q) /\ req'[q] = [req[q] EXCEPT !.pc = "written"]
  <2>1. /\ req[q].pc = "update" /\ req[q] \in UpdateCall
        /\ req[q].id \in Booked /\ visits[req[q].id] \in Visit
        /\ visits \in [VisitId -> Visit \cup {None}] /\ req[q].id \in VisitId
    BY <1>1 DEF CancelWrite, Update, TypeInv, TypeOK, Found, Booked, NewCall, BookCall,
       Suspended, Ended
  <2>2. visits'[req[q].id] = [visits[req[q].id] EXCEPT !.status = "CANCELLED", !.cancelledAt = TRUE]
    BY <1>1, <2>1 DEF CancelWrite
  <2>3. req'[q].id = req[q].id /\ req'[q].user = req[q].user
    BY <1>1, <2>1 DEF UpdateCall
  <2>4. req[q].user \in {visits[req[q].id].tenantId, visits[req[q].id].ownerId}
    BY <2>1 DEF Allowed
  <2>5. QED
    BY <2>1, <2>2, <2>3, <2>4 DEF Visit
<1>2. ASSUME Cancelled(q), req'[q].id = req[q].id, req'[q].user = req[q].user
      PROVE  LET v == visits'[req'[q].id] IN
             v.cancelledAt /\ req'[q].user \in {v.tenantId, v.ownerId}
  <2>1. req[q].id \in Booked
    BY <1>2 DEF Cancelled, TypeInv, Found
  <2>2. SameVisit(visits[req[q].id], visits'[req[q].id])
    BY <2>1, RowsStay
  <2>3. visits'[req[q].id].cancelledAt
    BY <1>2, <2>1, StampStays DEF CancelledByParty
  <2>4. QED
    BY <1>2, <2>2, <2>3 DEF CancelledByParty, SameVisit
<1>3. CASE req'[q] = req[q]
  BY <1>2, <1>3 DEF Cancelled
<1>4. CASE Cancelled(q) /\ req'[q] = [req[q] EXCEPT !.pc = "answered"]
  <2>1. req[q] \in BookCall \cup UpdateCall
    BY <1>4 DEF Cancelled, TypeInv, TypeOK, NewCall
  <2>2. req'[q].id = req[q].id /\ req'[q].user = req[q].user
    BY <1>4, <2>1 DEF BookCall, UpdateCall
  <2>3. QED
    BY <1>2, <1>4, <2>2
<1>5. QED
  BY <1>1, <1>3, <1>4, CancelledComesFromUpdate

LEMMA EventsMeantStep ==
    ASSUME TypeInv, EventsMeant, [Next]_vars
    PROVE  EventsMeant'
<1>1. ASSUME NEW e \in emitted
      PROVE  /\ e.visit \in Booked'
             /\ e.name = "visit.cancelled" =>
                   /\ req'[e.src].op = "cancel" /\ req'[e.src].pc = "answered"
                   /\ req'[e.src].id = e.visit
  <2>1. e.visit \in Booked /\ e.src \in Request
    BY DEF EventsMeant, TypeInv, TypeOK, Event
  <2>2. QED
    BY <2>1, RowsStay, AnsweredStays DEF EventsMeant
<1>2. CASE emitted' = emitted
  BY <1>1, <1>2 DEF EventsMeant
<1>3. ASSUME NEW r \in Request, Emit(r), req'[r].pc = "answered", req[r].pc = "written",
             emitted' = emitted \cup
                {[name |-> EventOf(req[r].op), visit |-> req[r].id, src |-> r]}
      PROVE  EventsMeant'
  <2>1. req[r].id \in Booked
    BY <1>3 DEF TypeInv, Found
  <2>2. req[r].id \in Booked'
    BY <2>1, RowsStay
  <2>3. /\ req[r].op \in {"book", "cancel", "reschedule"}
        /\ req'[r].op = req[r].op /\ req'[r].id = req[r].id
    <3>1. /\ req[r] \in BookCall \cup UpdateCall
          /\ req \in [Request -> {NewCall} \cup BookCall \cup UpdateCall]
      BY <1>3 DEF TypeInv, TypeOK, NewCall
    <3>2. QED
      BY <1>3, <3>1 DEF Emit, GoTo, BookCall, UpdateCall
  <2>4. EventOf(req[r].op) = "visit.cancelled" => req[r].op = "cancel"
    BY <2>3 DEF EventOf
  <2>5. QED
    BY <1>1, <1>3, <2>2, <2>3, <2>4 DEF EventsMeant
<1>4. QED
  BY <1>2, <1>3, Emits

Behind == AnnounceInv /\ Allowed /\ CancelledByParty /\ EventsMeant

LEMMA BehindInvariant == Spec => []Behind
<1>1. Init => Behind
  BY DEF Init, Behind, AnnounceInv, Announcing, Announced, BookedAnnouncedOnce, Allowed,
     CancelledByParty, Cancelled, EventsMeant, NewCall
<1>2. TypeInv /\ Behind /\ [Next]_vars => Behind'
  BY AnnounceStep, AllowedStep, CancelledByPartyStep, EventsMeantStep DEF Behind
<1>3. QED
  BY <1>1, <1>2, TypeInvariant, PTL DEF Spec

-----------------------------------------------------------------------------
(* The announcement of a cancellation.                                     *)

\* A call of cancel() past its check.
Cancelling(q) == req[q].op = "cancel" /\ req[q].pc \in {"update", "written", "answered"}

LEMMA CancellingComesFromCheck ==
    ASSUME TypeInv, [Next]_vars, NEW q \in Request, Cancelling(q)'
    PROVE  \/ Cancelling(q) /\ req'[q].id = req[q].id
           \/ Passed(q) /\ req'[q] # req[q]
<1>1. CASE req'[q] = req[q]
  BY <1>1 DEF Cancelling
<1>2. CASE req'[q].pc = "update"
  BY <1>1, <1>2, UpdateComesFromCheck
<1>3. CASE Cancelled(q)' /\ req'[q] # req[q]
  <2>1. req \in [Request -> {NewCall} \cup BookCall \cup UpdateCall]
    BY DEF TypeInv, TypeOK
  <2>2. ASSUME Cancelling(q), NEW pc, req'[q] = [req[q] EXCEPT !.pc = pc]
        PROVE  req'[q].id = req[q].id
    <3>1. req[q] \in BookCall \cup UpdateCall
      BY <2>1, <2>2 DEF Cancelling, NewCall
    <3>2. QED
      BY <2>2, <3>1 DEF BookCall, UpdateCall
  <2>3. CancelWrite(q) \/ Cancelled(q) => Cancelling(q)
    BY DEF CancelWrite, Update, Cancelled, Cancelling
  <2>4. QED
    BY <1>3, <2>2, <2>3, CancelledComesFromUpdate
<1>4. QED
  BY <1>1, <1>2, <1>3 DEF Cancelling, Cancelled

\* Two calls cancel one visit only when they crossed, or when one crossed a
\* call that put the status back.
Twice ==
    \A r, q \in Request, v \in VisitId :
       r # q /\ Cancelled(r) /\ Cancelling(q) /\ req[r].id = v /\ req[q].id = v
          => {r, q} \in crossed \/ CancelCrossed(v)

LEMMA TwiceStep ==
    ASSUME TypeInv, Met, StampInv, CancelledByParty, Twice, [Next]_vars PROVE Twice'
<1>. SUFFICES ASSUME NEW r \in Request, NEW q \in Request, NEW v \in VisitId, r # q, Cancelled(r)',
                     Cancelling(q)', req'[r].id = v, req'[q].id = v
              PROVE  {r, q} \in crossed' \/ CancelCrossed(v)'
  BY DEF Twice
<1>1. ({r, q} \in crossed => {r, q} \in crossed') /\ (CancelCrossed(v) => CancelCrossed(v)')
  BY CrossedGrows, CancelCrossedStays
<1>2. CASE Passed(q) /\ req'[q] # req[q]
  <2>1. req'[r] = req[r]
    BY <1>2, OneMoves
  <2>2. visits[v].cancelledAt
    BY <2>1 DEF CancelledByParty, Cancelled
  <2>3. v \in Booked /\ visits[v].status # "CANCELLED"
    BY <1>2 DEF Passed
  <2>4. QED
    BY <1>1, <2>2, <2>3 DEF StampInv
<1>3. CASE Cancelling(q) /\ req[q].id = v
  <2>1. CASE Cancelled(r) /\ req[r].id = v
    BY <1>1, <1>3, <2>1 DEF Twice
  <2>2. CASE Cancelling(r) /\ req[r].id = v /\ req[r].pc = "update"
    <3>1. CASE req[q].pc = "update"
      BY <1>1, <1>3, <2>2, <3>1 DEF Met
    <3>2. CASE req[q].pc # "update"
      <4>1. Cancelled(q)
        BY <1>3, <3>2 DEF Cancelling, Cancelled
      <4>2. {q, r} \in crossed \/ CancelCrossed(v)
        BY <1>3, <2>2, <4>1 DEF Twice
      <4>3. {q, r} = {r, q}
        OBVIOUS
      <4>4. QED
        BY <1>1, <4>2, <4>3
    <3>3. QED
      BY <3>1, <3>2
  <2>3. Cancelling(r) /\ req[r].id = v
    <3>1. Cancelling(r)'
      BY DEF Cancelling, Cancelled
    <3>2. CASE req'[r] = req[r]
      BY <3>1, <3>2 DEF Cancelling
    <3>3. CASE CancelWrite(r) /\ req'[r] = [req[r] EXCEPT !.pc = "written"]
      <4>1. req[r] \in UpdateCall /\ req[r].pc = "update" /\ req[r].op = "cancel"
        BY <3>3 DEF CancelWrite, Update, TypeInv, TypeOK, NewCall, BookCall
      <4>2. QED
        BY <3>3, <4>1 DEF UpdateCall, Cancelling
    <3>4. CASE Cancelled(r) /\ req'[r] = [req[r] EXCEPT !.pc = "answered"]
      <4>1. req[r] \in BookCall \cup UpdateCall
        BY <3>4 DEF Cancelled, TypeInv, TypeOK, NewCall
      <4>2. QED
        BY <3>4, <4>1 DEF BookCall, UpdateCall, Cancelled, Cancelling
    <3>5. QED
      BY <3>2, <3>3, <3>4, CancelledComesFromUpdate
  <2>4. QED
    BY <2>1, <2>2, <2>3 DEF Cancelling, Cancelled
<1>4. QED
  BY <1>2, <1>3, CancellingComesFromCheck

\* A visit is announced as cancelled once, unless two calls of cancel() crossed
\* or one crossed a call that put the status back.
THEOREM CancellationsAnnouncedOnce == Spec => []CancelAnnouncedOnce
<1>1. Init => Twice
  BY DEF Init, Twice, Cancelled, NewCall
<1>2. TypeInv /\ Met /\ StampInv /\ Behind /\ Twice /\ [Next]_vars => Twice'
  BY TwiceStep DEF Behind
<1>3. ASSUME TypeInv, Behind, Twice PROVE CancelAnnouncedOnce
  <2>1. SUFFICES ASSUME NEW e \in emitted, NEW f \in emitted, e.name = "visit.cancelled",
                        f.name = "visit.cancelled", e.visit = f.visit, e # f
                 PROVE  {e.src, f.src} \in crossed \/ CancelCrossed(e.visit)
    BY DEF CancelAnnouncedOnce
  <2>2. e \in Event /\ f \in Event
    BY <1>3 DEF TypeInv, TypeOK
  <2>3. e.src \in Request /\ f.src \in Request /\ e.visit \in VisitId /\ e.src # f.src
    BY <2>1, <2>2 DEF Event
  <2>4. Cancelled(e.src) /\ Cancelling(f.src) /\ req[e.src].id = e.visit /\ req[f.src].id = e.visit
    BY <1>3, <2>1 DEF Behind, EventsMeant, Cancelled, Cancelling
  <2>5. QED
    BY <1>3, <2>3, <2>4 DEF Twice
<1>4. QED
  BY <1>1, <1>2, <1>3, TypeInvariant, MetInvariant, StampInvariant, BehindInvariant, PTL DEF Spec
=============================================================================
