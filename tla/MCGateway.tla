------------------------------ MODULE MCGateway ------------------------------
(***************************************************************************)
(* Small stores for the gateway: two routes of which one is more specific, *)
(* and a partner with the default policy.                                  *)
(***************************************************************************)
EXTENDS Gateway, TLC

Symmetry == Permutations(Request)

Generic == <<"/", "b">>
Specific == <<"/", "b", "/", "v">>
MCPrefixes == {Generic, Specific}

\* A path of both routes: which one it is for depends on what the admin did.
OnePath == {<<"/", "b", "/", "v", "x">>}

Row(state, prefix) == [state |-> state, prefix |-> prefix, upstream |-> "u1", strip |-> TRUE]

\* Every partner, and both routes, are there from the start.
ActivePartners == [p \in PartnerId |-> "active"]
BothRoutes ==
    [r \in RouteId |-> IF r = 1 THEN Row("active", Generic) ELSE Row("active", Specific)]
Policy(state) == [state |-> state, partner |-> 1, route |-> 0]
NoPolicy == [i \in PolicyId |-> Policy("unborn")]
DefaultPolicy == [NoPolicy EXCEPT ![1] = Policy("stored")]

\* A route still to be created, and a partner too.
OneRoute ==
    [r \in RouteId |-> IF r = 1 THEN Row("active", Generic) ELSE Row("unborn", Specific)]
OnePartner == [p \in PartnerId |-> IF p = 1 THEN "active" ELSE "unborn"]
=============================================================================
