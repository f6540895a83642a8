\* One request among three changes of the store, and refreshes between them.
CONSTANTS
    PartnerId = {1}
    RouteId = {1, 2}
    PolicyId = {1, 2}
    PathPrefixes <- MCPrefixes
    Upstreams = {"u1", "u2"}
    StripFlags = {TRUE}
    Constraints = FALSE
    SeedPartners <- ActivePartners
    SeedRoutes <- BothRoutes
    SeedPolicies <- DefaultPolicy
    Request = {q1}
    Paths <- OnePath
    EarlyHints = TRUE
    MaxEdits = 3
SPECIFICATION Spec
INVARIANTS NoEntryOnceBarred TableIsOneMoment ForwardedAsAuthorised
PROPERTIES TableNeverGoesBack
\* Every behaviour may end with the exit of the process.
CHECK_DEADLOCK FALSE
