------------------------------- MODULE MCSeed -------------------------------
(* An empty store, a partner, two routes, and a dedicated and a default policy *)
(* in the order the command has them.                                          *)
EXTENDS Seed, TLC

Symmetry == Permutations(Seeder)

Keys == [p \in PartnerId |-> "aurora"]
Wanted == <<"aurora">>
Prefixes == <<"/b", "/i">>
Policies == <<[partner |-> 1, route |-> 1], [partner |-> 1, route |-> 0]>>

NoPartners == [p \in PartnerId |-> "unborn"]
NoRoutes ==
    [r \in RouteId |-> [state |-> "unborn", prefix |-> "/b", upstream |-> "u1", strip |-> TRUE]]
NoPolicies == [i \in PolicyId |-> [state |-> "unborn", partner |-> 1, route |-> 0]]
=============================================================================
