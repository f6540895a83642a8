\* Two requests of one partner, a change of the store, refreshes, shutdown; the
\* requests may be stuck for ever, and the table catches up.
CONSTANTS
    PartnerId = {1}
    RouteId = {1, 2}
    PolicyId = {1}
    PathPrefixes <- MCPrefixes
    Upstreams = {"u1"}
    StripFlags = {TRUE, FALSE}
    Constraints = TRUE
    SeedPartners <- ActivePartners
    SeedRoutes <- OneRoute
    SeedPolicies <- DefaultPolicy
    Request = {q1, q2}
    Paths <- OnePath
    EarlyHints = FALSE
    MaxEdits = 1
SPECIFICATION FairSpec
INVARIANTS TypeOK AuditTrailFaithful AuditNotForgotten
PROPERTIES TableCatchesUp
\* Every behaviour may end with the exit of the process.
CHECK_DEADLOCK FALSE
