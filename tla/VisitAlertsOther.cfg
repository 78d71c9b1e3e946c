SPECIFICATION AlertsSpec
CONSTANTS
    Request = {r1, r2}
    VisitId = {v1, v2}
    Property = {p1}
    Tenant = {t1}
    Key = {k1, k2}
    owner = owner
    OwnerOf <- MCOwnerOf
    SlotDuration = 0
    MaxTime = 0
    Ops = {"book", "cancel"}
    None = None
SYMMETRY MCSymmetry
INVARIANTS
    OtherPartyTold
\* A finite set of calls, each served once: the system comes to rest.
CHECK_DEADLOCK FALSE
