------------------------------ MODULE MCAdmin ------------------------------
(* A partner, a route and a policy that are there, and one more of each to  *)
(* create.                                                                  *)
EXTENDS Admin, TLC

Symmetry == Permutations(Request)

Row(state) == [state |-> state, prefix |-> "/b", upstream |-> "u1", strip |-> TRUE]
Policy(state) == [state |-> state, partner |-> 1, route |-> 1]

OnePartner == [p \in PartnerId |-> IF p = 1 THEN "active" ELSE "unborn"]
OneRoute == [r \in RouteId |-> IF r = 1 THEN Row("active") ELSE Row("unborn")]
OnePolicy == [i \in PolicyId |-> IF i = 1 THEN Policy("stored") ELSE Policy("unborn")]
=============================================================================
