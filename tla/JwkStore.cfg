\* Two threads ask for two keys that appear and are withdrawn.
SPECIFICATION Spec
CONSTANTS
    Threads = {t1, t2}
    Kids = {k1, k2}
    CacheDuration = 1
    MaxTime = 4
    NoThread = NoThread
    NoKid = NoKid
    Never = Never
INVARIANTS
    WithdrawnKeysExpire
    PublishedKeyIsFound
