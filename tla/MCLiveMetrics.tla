--------------------------- MODULE MCLiveMetrics ---------------------------
(* Live metrics on a small instance: the consumers are interchangeable. *)
EXTENDS LiveMetrics, TLC

Symmetry == Permutations(Consumer)
=============================================================================
