------------------------------ MODULE MCRegistry ------------------------------
(* Instances of Registry for TLC.                                          *)
EXTENDS Registry

CONSTANTS n1, n2, op, vip
=============================================================================
