------------------------------- MODULE MCHub -------------------------------
(* The hub on small instances: the clients are interchangeable. *)
EXTENDS Hub, TLC

Symmetry == Permutations(Client)
=============================================================================
