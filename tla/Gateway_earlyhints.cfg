\* An upstream that sends a 1xx response before the final one.
CONSTANTS
    PartnerId = {1}
    RouteId = {1, 2}
    PolicyId = {1}
    PathPrefixes <- MCPrefixes
    Upstreams = {"u1"}
    StripFlags = {TRUE}
    Constraints = TRUE
    SeedPartners <- ActivePartners
    SeedRoutes <- BothRoutes
    SeedPolicies <- DefaultPolicy
    Request = {q1}
    Paths <- OnePath
    EarlyHints = TRUE
    MaxEdits = 0
SPECIFICATION Spec
INVARIANT RecorderHasFinalStatus
CHECK_DEADLOCK FALSE
