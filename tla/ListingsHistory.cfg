SPECIFICATION Spec
CONSTANTS
    Request = {r1, r2}
    Property = {p1}
    Owner = {o1}
    Admin = {a1}
    Other = {}
    Price = {15, 30}
    None = None
SYMMETRY MCSymmetry
INVARIANTS
    HistoryTellsPrice
\* A finite set of calls, each served once: the system comes to rest.
CHECK_DEADLOCK FALSE
