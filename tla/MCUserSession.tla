--------------------------- MODULE MCUserSession ---------------------------
(* UserSession for TLC. *)
EXTENDS NickRefinement, TLC

ConnSymmetry == Permutations(Conns \ IPv6Conns)
============================================================================
