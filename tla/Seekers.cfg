SPECIFICATION MCSpec
CONSTANTS
    Walk = {w1}
    Property = {p1, p2, p3}
    Price = {1, 2}
    Distance = {0, 1}
    RadiusKm = 0
    Limit = 1
    MaxTime = 1
    MaxChanges = 2
    MaxPages = 3
    Ask = {k1, k2, k3}
    SavedId = {i1}
    Seeker = {s1, s2}
    None = None
    Nothing = Nothing
SYMMETRY MCSymmetry
INVARIANTS
    SearchTypeOK
    RepeatedForAReason
    MissedForAReason
    TogglesCount
\* Finitely many calls, each served once, and pages: the system comes to rest.
CHECK_DEADLOCK FALSE
