CONSTANTS
    n1 = n1
    n2 = n2
    v1 = v1
    v2 = v2
    d1 = d1
    d2 = d2
    Nonces <- MCNonces
    NoNonce = NoNonce
    NoEat = NoEat
    MaxEvidence = 2
    Indices <- MCIndices
    Msr35 = 35
    Values <- MCValues
    Submodules <- MCSubmodules
    NoResponse = NoResponse
SPECIFICATION Spec
SYMMETRY MCSymmetry
INVARIANTS
    ClaimsAreComplete
    AcceptedIsBacked
    EatIsFaithful
