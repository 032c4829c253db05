\* A request without headers of its own.
CONSTANTS
    bundle = bundle
    fallback = fallback
    NoPath = NoPath
    Paths = {fallback}
    ProbePaths <- MCProbePaths
    Retries = {0}
    Backoffs = {0}
SPECIFICATION HttpSpec
INVARIANT ServiceKeyIsSent
