SPECIFICATION Spec
CONSTANTS
    typed = typed
    lower = lower
    other = other
    Request = {r1, r2, r3}
    UserId = {u1, u2}
    TokenId = {t1, t2, t3, t4}
    ResetId = {s1, s2}
    Address = {typed, lower, other}
    LowerCase <- MCLowerCase
    Password = {w1, w2}
    Lifetime = 0
    ResetLifetime = 0
    MaxTime = 1
    None = None
SYMMETRY MCSymmetry
INVARIANTS
    TypeOK
    OneAccountPerAddress
    SessionsEndForAReason
    SpentOnce
    EndedStaysEnded
\* A finite set of calls, each served once: the system comes to rest.
CHECK_DEADLOCK FALSE
