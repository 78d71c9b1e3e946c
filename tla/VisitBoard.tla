----------------------------- MODULE VisitBoard -----------------------------
(***************************************************************************)
(* What VisitsService promises: a board of visits, and callers who each    *)
(* look at the board, decide, and write later.  A decision is one that the *)
(* board as it was allowed: to book a free slot, to cancel or move a live  *)
(* visit of one's own, to confirm a pending one.  It is written once or    *)
(* never, as it was decided; only the freshness of an idempotency key is   *)
(* certain at the write.  Moving does not ask for a free slot:             *)
(* reschedule() does not.                                                  *)
(***************************************************************************)
EXTENDS Naturals

CONSTANTS Request, VisitId, Property, OwnerOf, Tenant, Key, SlotDuration, MaxTime, None

VARIABLES
    board,    \* the visits, None for an id not used yet
    decided   \* what each caller is about to write: one decision, or none

Time == 0 .. MaxTime
Owner == {OwnerOf[p] : p \in Property}

Booking == [op: {"book"}, user: Tenant, propertyId: Property, scheduledAt: Time, key: Key, id: {None}]

Change ==
    [op: {"cancel"}, user: Tenant \cup Owner, propertyId: {None}, scheduledAt: {None}, key: {None}, id: VisitId]
    \cup [op: {"reschedule"}, user: Tenant, propertyId: {None}, scheduledAt: Time, key: {None}, id: VisitId]
    \cup [op: {"confirm"}, user: Owner, propertyId: {None}, scheduledAt: {None}, key: {None}, id: VisitId]

OnBoard(v) == board[v] # None

Live(v) == OnBoard(v) /\ board[v].status \in {"PENDING", "CONFIRMED"}

\* A slot is free when every live visit of the property is farther away than
\* the duration of a slot.
Free(p, t) ==
    \A v \in VisitId :
       Live(v) /\ board[v].propertyId = p =>
          \/ board[v].scheduledAt + SlotDuration < t
          \/ t + SlotDuration < board[v].scheduledAt

FreshKey(k) == \A v \in VisitId : OnBoard(v) => board[v].idempotencyKey # k

Allows(d) ==
    /\ Live(d.id)
    /\ d.user \in {board[d.id].tenantId, board[d.id].ownerId}
    /\ d.op = "confirm" => board[d.id].status = "PENDING" /\ d.user = board[d.id].ownerId

Decide(r) ==
    /\ decided[r] = {}
    /\ \E d \in decided'[r] :
          /\ \/ d \in Booking /\ Free(d.propertyId, d.scheduledAt)
             \/ d \in Change /\ Allows(d)
          /\ decided' = [decided EXCEPT ![r] = {d}]
    /\ UNCHANGED board

Book(v, d) ==
    /\ ~OnBoard(v) /\ FreshKey(d.key)
    /\ board' = [board EXCEPT ![v] =
          [propertyId |-> d.propertyId, tenantId |-> d.user, ownerId |-> OwnerOf[d.propertyId],
           scheduledAt |-> d.scheduledAt, status |-> "PENDING", idempotencyKey |-> d.key,
           cancelledAt |-> FALSE]]

Cancel(v) == board' = [board EXCEPT ![v].status = "CANCELLED", ![v].cancelledAt = TRUE]

Move(v, t) == board' = [board EXCEPT ![v].status = "PENDING", ![v].scheduledAt = t]

Confirm(v) == board' = [board EXCEPT ![v].status = "CONFIRMED"]

Write(r) ==
    /\ \E d \in decided[r] :
          \/ d.op = "book" /\ \E v \in VisitId : Book(v, d)
          \/ d.op = "cancel" /\ Cancel(d.id)
          \/ d.op = "reschedule" /\ Move(d.id, d.scheduledAt)
          \/ d.op = "confirm" /\ Confirm(d.id)
    /\ decided' = [decided EXCEPT ![r] = {}]

Forget(r) == decided[r] # {} /\ decided' = [decided EXCEPT ![r] = {}] /\ UNCHANGED board

Init ==
    /\ board = [v \in VisitId |-> None]
    /\ decided = [r \in Request |-> {}]

Next == \E r \in Request : Decide(r) \/ Write(r) \/ Forget(r)

Spec == Init /\ [][Next]_<<board, decided>>
=============================================================================
