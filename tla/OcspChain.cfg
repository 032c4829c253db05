\* Every presented chain of up to four certificates, all three clients.
SPECIFICATION Spec
CONSTANTS
    Root = 3
    MaxChain = 4
    Issued = {2, 4}
    Validities = {0, 1, 3, NoNextUpdate}
    NoNextUpdate = NoNextUpdate
    DefaultValidity = 3
    FutureTolerance = 1
    MaxSignedAge = 2
    VerificationTimes = {2, 3}
    NoReason = NoReason
INVARIANTS
    EveryCertificateIsAsked
    AcceptedIsGoodAndFresh
    HighestBadIsReported
    EarliestTimesAreReported
