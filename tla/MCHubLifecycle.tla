--------------------------- MODULE MCHubLifecycle ---------------------------
(* Model checking of HubLifecycle.                                         *)
EXTENDS HubLifecycle

Alike == Permutations(Scripts)
=============================================================================
