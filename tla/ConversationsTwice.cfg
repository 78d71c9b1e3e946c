SPECIFICATION Spec
CONSTANTS
    Request = {r1, r2}
    ConvId = {c1, c2}
    User = {u1, u2}
    Subject = {s1}
    Limit = 1
    Stored = 1
    Seats = 0
    MaxTime = 0
    None = None
SYMMETRY MCSymmetry
INVARIANTS
    OneConversation
\* A finite set of calls, each served once: the system comes to rest.
CHECK_DEADLOCK FALSE
