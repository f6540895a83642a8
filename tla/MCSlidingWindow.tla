-------------------------- MODULE MCSlidingWindow --------------------------
(* The limiter on small instances: the calls are interchangeable. *)
EXTENDS SlidingWindow, TLC

Symmetry == Permutations(Call)
=============================================================================
