------------------------------ MODULE MCRouter ------------------------------
(***************************************************************************)
(* Tables of up to three routes, set in any order one after the other, and *)
(* every path over a small alphabet.                                       *)
(***************************************************************************)
EXTENDS Router

Chars == {"/", "b"}
PathsTo(n) == {<<"/">> \o s : s \in UNION {[1 .. k -> Chars] : k \in 0 .. n - 1}}

MCPaths == PathsTo(4)

\* Lists of up to three routes, of which all strip their prefix but one at most;
\* nothing keeps two from having one prefix in the in-memory store.
Lists ==
    {[i \in DOMAIN ps |-> [id |-> i, prefix |-> ps[i], upstream |-> "u", strip |-> i # keeps]] :
        ps \in UNION {[1 .. n -> PathsTo(3)] : n \in 0 .. 3}, keeps \in 0 .. 3}

Next == \E list \in Lists : SetRoutes(list)
Spec == InitRouter /\ [][Next]_routerVars
=============================================================================
