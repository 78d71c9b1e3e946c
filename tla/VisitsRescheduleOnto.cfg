SPECIFICATION Spec
CONSTANTS
    Request = {r1, r2, r3}
    VisitId = {v1, v2}
    Property = {p1}
    Tenant = {t1, t2}
    Key = {k1, k2}
    owner = owner
    OwnerOf <- MCOwnerOf
    SlotDuration = 1
    MaxTime = 2
    Ops = {"book", "reschedule"}
    None = None
SYMMETRY MCSymmetry
INVARIANTS
    NoDoubleBookingAlone
\* A finite set of calls, each served once: the system comes to rest.
CHECK_DEADLOCK FALSE
