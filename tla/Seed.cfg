\* Two seeds at once, any two edits and any two failures, a first page of two routes.
CONSTANTS
    PartnerId = {1, 2}
    RouteId = {1, 2, 3, 4}
    PolicyId = {1, 2, 3, 4}
    PathPrefixes = {"/b", "/i", "/x"}
    Upstreams = {"u1"}
    StripFlags = {TRUE}
    Constraints = TRUE
    SeedPartners <- NoPartners
    SeedRoutes <- NoRoutes
    SeedPolicies <- NoPolicies
    Seeder = {s1, s2}
    KeyOf <- Keys
    WantedKeys <- Wanted
    WantedPrefixes <- Prefixes
    WantedPolicies <- Policies
    PageLimit = 2
    MaxEdits = 2
    MaxFailures = 2
SPECIFICATION Spec
SYMMETRY Symmetry
INVARIANTS SeedComplete SeedsAgree
PROPERTIES RunsAgain
\* The seeds end.
CHECK_DEADLOCK FALSE
