\* Applications that call the context in any order, and every command line of
\* the tool after collections with two nonces.  A process ends.
CONSTANTS
    null = null
    Settings = {0, 1}
    HttpSettings = {0, 1}
    Nonces = {n1, n2}
    BadNonce = BadNonce
    malformed = malformed
    AttestErrors = {2, 504, 700}
SPECIFICATION CliSpec
INVARIANTS NothingOutdated VerdictIsBacked AttestsAsAsked OfflineIsOffline
    StatusTellsTheVerdict FileEvidenceHasTheNonce
CONSTRAINT DefaultHttpOptions
SYMMETRY NonceSymmetry
CHECK_DEADLOCK FALSE
