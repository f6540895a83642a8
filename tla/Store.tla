------------------------------- MODULE Store -------------------------------
(***************************************************************************)
(* The repositories of internal/store: partners, routes and rate limit     *)
(* policies.  Every operation is one action: a critical section of the     *)
(* in-memory store's mutex, or one statement of the Oracle store.  The     *)
(* admin handlers and the gateway call them.  A partner stands for its     *)
(* API key, which is generated once and never changes.                     *)
(*                                                                         *)
(* An operator named Faulty... is a wrong version of the definition after  *)
(* it, kept to show that the properties notice it; nothing uses it.        *)
(***************************************************************************)
EXTENDS Integers, FiniteSets

CONSTANTS
    PartnerId,     \* partners that exist or may be created
    RouteId,       \* routes that exist or may be created (never 0)
    PathPrefixes,  \* path prefixes, sequences of characters
    PolicyId,      \* policies that exist or may be created
    Upstreams,     \* upstream URLs
    StripFlags,    \* values of strip_prefix; a run may take fewer than the two
    Constraints,   \* TRUE in Oracle, whose schema has unique and foreign keys
    SeedPartners,  \* what the store holds at first
    SeedRoutes,
    SeedPolicies

ASSUME StoreAssumption ==
    /\ 0 \notin RouteId /\ IsFiniteSet(RouteId)
    /\ Constraints \in BOOLEAN /\ StripFlags \subseteq BOOLEAN

VARIABLES
    partners,  \* partner id -> "unborn", "active", "inactive" or "deleted"
    routes,    \* route id -> [state, prefix, upstream, strip], states likewise
    policies   \* policy id -> [state, partner, route]; route 0 is the default

storeVars == <<partners, routes, policies>>

States == {"unborn", "active", "inactive", "deleted"}
RouteRows ==
    [state : States, prefix : PathPrefixes, upstream : Upstreams, strip : StripFlags]
PolicyRows ==
    [state : {"unborn", "stored", "deleted"}, partner : PartnerId, route : RouteId \cup {0}]

\* The rows have the types of the domain package.
StoreTypeOK ==
    /\ partners \in [PartnerId -> States]
    /\ routes \in [RouteId -> RouteRows]
    /\ policies \in [PolicyId -> PolicyRows]

InitStore ==
    /\ partners = SeedPartners
    /\ routes = SeedRoutes
    /\ policies = SeedPolicies

Stored(state) == state \in {"active", "inactive"}

\* The store begins with rows of these types, and Oracle's foreign key holds of them.
ASSUME FirstRowsAssumption ==
    /\ SeedPartners \in [PartnerId -> States]
    /\ SeedRoutes \in [RouteId -> RouteRows]
    /\ SeedPolicies \in [PolicyId -> PolicyRows]
    /\ \A i \in PolicyId :
        Constraints /\ SeedPolicies[i].state = "stored" =>
            Stored(SeedPartners[SeedPolicies[i].partner])

-----------------------------------------------------------------------------
(* Reads *)

\* GetByAPIKey: the partner and its flag, or ErrNotFound.
KnownPartner(p) == p \in PartnerId /\ Stored(partners[p])

\* ListActive, without its order.
Listed(r) ==
    [id |-> r, prefix |-> routes[r].prefix, upstream |-> routes[r].upstream,
     strip |-> routes[r].strip]
ActiveRoutes == {Listed(r) : r \in {r \in RouteId : routes[r].state = "active"}}

\* The policies of a partner for one route.
PoliciesOf(p, r) ==
    {i \in PolicyId : policies[i].state = "stored"
                        /\ policies[i].partner = p /\ policies[i].route = r}

\* FindEffective: the policy of the route, else the default of the partner.
\* The set is empty for ErrNotFound, and has several elements when the
\* in-memory store, which has no unique key, may return any of them.
FindEffective(p, r) == IF PoliciesOf(p, r) # {} THEN PoliciesOf(p, r) ELSE PoliciesOf(p, 0)

-----------------------------------------------------------------------------
(* Writes *)

CreatePartner(p) ==
    /\ partners[p] = "unborn"
    /\ partners' = [partners EXCEPT ![p] = "active"]
    /\ UNCHANGED <<routes, policies>>

FaultyUpdatePartner(p, state) ==   \* the row is put back if it is gone
    /\ partners' = [partners EXCEPT ![p] = state]
    /\ UNCHANGED <<routes, policies>>
UpdatePartner(p, state) ==
    /\ Stored(partners[p])
    /\ partners' = [partners EXCEPT ![p] = state]
    /\ UNCHANGED <<routes, policies>>

FaultyDeletePartner(p) ==   \* without ON DELETE CASCADE
    /\ Stored(partners[p])
    /\ partners' = [partners EXCEPT ![p] = "deleted"]
    /\ UNCHANGED <<routes, policies>>
DeletePartner(p) ==
    /\ Stored(partners[p])
    /\ partners' = [partners EXCEPT ![p] = "deleted"]
    /\ policies' = [i \in PolicyId |->
            IF Constraints /\ policies[i].state = "stored" /\ policies[i].partner = p
            THEN [policies[i] EXCEPT !.state = "deleted"]   \* ON DELETE CASCADE
            ELSE policies[i]]
    /\ UNCHANGED routes

CreateRoute(r, prefix, upstream, strip) ==
    /\ routes[r].state = "unborn"
    /\ Constraints => \A s \in RouteId : Stored(routes[s].state) => routes[s].prefix # prefix
    /\ routes' = [routes EXCEPT ![r] =
                    [state |-> "active", prefix |-> prefix, upstream |-> upstream,
                     strip |-> strip]]
    /\ UNCHANGED <<partners, policies>>

\* The prefix of a route is never changed by the admin handlers.
UpdateRoute(r, state, upstream, strip) ==
    /\ Stored(routes[r].state)
    /\ routes' = [routes EXCEPT ![r] = [@ EXCEPT !.state = state, !.upstream = upstream,
                                               !.strip = strip]]
    /\ UNCHANGED <<partners, policies>>

FaultyDeleteRoute(r) ==   \* without checkAffected
    /\ routes' = [routes EXCEPT ![r].state = "deleted"]
    /\ UNCHANGED <<partners, policies>>
DeleteRoute(r) ==
    /\ Stored(routes[r].state)
    /\ routes' = [routes EXCEPT ![r].state = "deleted"]
    /\ UNCHANGED <<partners, policies>>

\* The admin handler has found the partner and the route; either may be gone.
CreatePolicy(i, p, r) ==
    /\ policies[i].state = "unborn"
    /\ partners[p] # "unborn"
    /\ r # 0 => routes[r].state # "unborn"
    /\ Constraints => Stored(partners[p]) /\ PoliciesOf(p, r) = {}
    /\ policies' = [policies EXCEPT ![i] = [state |-> "stored", partner |-> p, route |-> r]]
    /\ UNCHANGED <<partners, routes>>

DeletePolicy(i) ==
    /\ policies[i].state = "stored"
    /\ policies' = [policies EXCEPT ![i].state = "deleted"]
    /\ UNCHANGED <<partners, routes>>

-----------------------------------------------------------------------------
(* What the admin handlers do to the store, whatever else they do. *)

Edit ==
    \/ \E p \in PartnerId :
        \/ CreatePartner(p)
        \/ DeletePartner(p)
        \/ \E state \in {"active", "inactive"} : UpdatePartner(p, state)
    \/ \E r \in RouteId :
        \/ DeleteRoute(r)
        \/ \E upstream \in Upstreams, strip \in StripFlags :
            \/ \E prefix \in PathPrefixes : CreateRoute(r, prefix, upstream, strip)
            \/ \E state \in {"active", "inactive"} : UpdateRoute(r, state, upstream, strip)
    \/ \E i \in PolicyId :
        \/ DeletePolicy(i)
        \/ \E p \in PartnerId, r \in RouteId \cup {0} : CreatePolicy(i, p, r)

StoreSpec == InitStore /\ [][Edit]_storeVars

-----------------------------------------------------------------------------
(* Properties *)

\* What was deleted stays deleted, whatever updates had read it before: the
\* second half of an update finds out and writes nothing.
DeletionIsFinal ==
    [][/\ \A p \in PartnerId : partners[p] = "deleted" => partners'[p] = "deleted"
       /\ \A r \in RouteId : routes[r].state = "deleted" => routes'[r].state = "deleted"
       /\ \A i \in PolicyId :
            policies[i].state = "deleted" => policies'[i].state = "deleted"]_storeVars

\* No policy outlives its partner in Oracle, although the handler that creates it
\* looks for the partner long before it inserts.
NoOrphans ==
    \A i \in PolicyId :
        Constraints /\ policies[i].state = "stored" => Stored(partners[policies[i].partner])

=============================================================================
