SPECIFICATION Spec
CONSTANTS
    Request = {r1, r2, r3}
    ConvId = {c1, c2}
    User = {u1, u2}
    Subject = {s1}
    Limit = 1
    Stored = 2
    Seats = 1
    MaxTime = 1
    None = None
SYMMETRY MCSymmetry
INVARIANTS
    TypeOK
    FollowersMissNothing
    
    ShownIsRead
    UnshownStaysUnread
PROPERTIES
    OthersLeaveUnread
\* A finite set of calls, each served once: the system comes to rest.
CHECK_DEADLOCK FALSE
