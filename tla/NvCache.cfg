\* Three keys with objects of one or two bytes compete for three bytes, an
\* object of four never fits; the clock passes the TTL twice and is also
\* stepped back.
CONSTANTS
    k1 = k1
    k2 = k2
    k3 = k3
    v1 = v1
    Keys = {k1, k2, k3}
    Values = {v1}
    NoValue = NoValue
    NoPut = NoPut
    Sizes = {1, 2, 4}
    MaxSizeBytes = 3
    TtlSeconds = 1
    MaxTime = 2
SPECIFICATION FairSpec
INVARIANTS IndexesAgree SizeIsAccurate
PROPERTIES NoLiveVictimBeforeExpired ImplementsTtlMap PutReturns
