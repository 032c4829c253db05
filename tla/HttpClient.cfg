\* Every setting of the explicit path, the environment and the files; every
\* mixture of outcomes over up to three attempts, with a base backoff on both
\* sides of the maximum.
CONSTANTS
    bundle = bundle
    fallback = fallback
    NoPath = NoPath
    Paths = {bundle, fallback}
    ProbePaths <- MCProbePaths
    Retries <- MCRetries
    Backoffs = {0, 2}
SPECIFICATION HttpFairSpec
INVARIANTS RetriesAreUsedUp BodyBelongsToStatus ConfiguredBundleOnly
PROPERTY RequestReturns
