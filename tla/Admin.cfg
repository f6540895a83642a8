\* Three admin requests of any kind, over Oracle.
CONSTANTS
    PartnerId = {1, 2}
    RouteId = {1, 2}
    PolicyId = {1, 2, 3}
    PathPrefixes = {"/b"}
    Upstreams = {"u1"}
    StripFlags = {TRUE}
    Constraints = TRUE
    SeedPartners <- OnePartner
    SeedRoutes <- OneRoute
    SeedPolicies <- OnePolicy
    Request = {q1, q2, q3}
    Kept = Kept
SPECIFICATION Spec
SYMMETRY Symmetry
INVARIANTS TypeOK OneDeleteWins NoOrphans
PROPERTIES DeletionIsFinal RenameDoesNotActivate CreatedIsThere
\* Every request ends.
CHECK_DEADLOCK FALSE
