\* Attestation without a policy and without a detached EAT.
CONSTANTS
    null = null
    Settings = {0}
    HttpSettings = {0}
SPECIFICATION Spec
INVARIANT OkMeansOverallResult
