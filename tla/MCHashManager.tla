--------------------------- MODULE MCHashManager ---------------------------
\* Users of two addresses, the last two of one, for TLC.
EXTENDS HashManager, TLC

CONSTANTS u1, u2, u3, u4, i1, i2

McUsers == {u1, u2, u3, u4}
McIpOf == u1 :> i1 @@ u2 :> i1 @@ u3 :> i1 @@ u4 :> i2
=============================================================================
