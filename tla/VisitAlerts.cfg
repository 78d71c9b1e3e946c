SPECIFICATION FairAlertsSpec
CONSTANTS
    Request = {r1, r2, r3}
    VisitId = {v1, v2}
    Property = {p1}
    Tenant = {t1}
    Key = {k1, k2}
    owner = owner
    OwnerOf <- MCOwnerOf
    SlotDuration = 0
    MaxTime = 0
    Ops = {"book", "cancel"}
    None = None
INVARIANTS
    AlertsTypeOK
    OwnerToldOnce
    CancellationsHappened
PROPERTIES
    BookingIsHeard
\* A finite set of calls, each served once: the system comes to rest.
CHECK_DEADLOCK FALSE
