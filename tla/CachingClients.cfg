\* Two keys, one of which never fits into the cache, over a clock long enough
\* for a change at the service, the validity or TTL, and a call after both.
CONSTANTS
    t1 = t1
    t2 = t2
    c1 = c1
    c2 = c2
    Threads = {t1, t2}
    Keys = {c1, c2}
    Oversize = {c2}
    TtlSeconds = 1
    Validities = {1, NoNextUpdate}
    NoNextUpdate = NoNextUpdate
    DefaultValidity = 1
    LongestValidity = 1
    MaxPutDelay = 1
    NoValue = NoValue
    Never = Never
    MaxTime = 3
SPECIFICATION Spec
SYMMETRY Symmetry
INVARIANTS NeverPastNextUpdate RevocationTakesEffect StalenessIsBounded
