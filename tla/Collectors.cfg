\* Two threads collect from two devices and shut down, at any moment.
CONSTANTS
    t1 = t1
    t2 = t2
    n1 = n1
    n2 = n2
    d1 = d1
    d2 = d2
    Threads = {t1, t2}
    Nonces = {n1, n2}
    Empty = Empty
    Short = Short
    Zeros = Zeros
    Mixed = Mixed
    Devices <- MCDevices
SPECIFICATION CollectorsSpec
INVARIANTS CollectsFromRunningLibrary StartedOnceAndOwned OkIsComplete SerialNonceWasUsed
PROPERTY GetEvidenceReturns
