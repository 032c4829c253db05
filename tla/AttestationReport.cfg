SPECIFICATION Spec
CONSTANTS
    NonceSize = 1
    SignatureLength = 5
    MaxVersionSize = 2
    MsrElementSize = 2
    PdiSize = 2
    NumberOfPdi = 1
    Nonces <- MCNonces
    CertFwids <- MCCertFwids
    NoFwid = NoFwid
    Reports <- MCReports
    Damage <- MCDamage
INVARIANTS
    ReadsStayInside
    SignatureIsTheOneChecked
    ReportsAreUnderstood
    ClaimsAreBacked
PROPERTY
    ParsingEnds
CHECK_DEADLOCK FALSE
