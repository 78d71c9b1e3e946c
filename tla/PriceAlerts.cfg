SPECIFICATION AlertsSpec
CONSTANTS
    Request = {r1, r2}
    Property = {p1}
    Owner = {o1}
    Admin = {a1}
    Other = {}
    Price = {15, 30}
    None = None
    Ask = {q1, q2}
    Subscriber = {s1}
SYMMETRY MCSymmetry
INVARIANTS
    TypeOK
    EveryPriceRecorded
    AnnouncedIsRecorded
    HistoryIsChain
    NothingAfterDeleted
    AlertsTypeOK
    ToldOnce
    StillListedTold
PROPERTIES
    DeletedIsFinal
    OnlyOwnersChange
\* Two finite sets of calls, each served once: the system comes to rest.
CHECK_DEADLOCK FALSE
