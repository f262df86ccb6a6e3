----------------------------- MODULE MCBroadcast -----------------------------
(* Broadcast for TLC: a plain client, an operator that takes over its nick *)
(* and a third one.  The queues of the first two have the same number.     *)
EXTENDS Broadcast, TLC

CONSTANTS c1, c2, c3

NickOf == c1 :> "a" @@ c2 :> "a" @@ c3 :> "b"
Plain == [share |-> TRUE, v4 |-> TRUE, v6 |-> TRUE, active4 |-> FALSE, active6 |-> TRUE,
          hello |-> TRUE, zpipe |-> FALSE, full |-> FALSE, op |-> FALSE,
          userip |-> FALSE, quick |-> FALSE]
FormOf == c1 :> [Plain EXCEPT !.zpipe = TRUE]
          @@ c2 :> [Plain EXCEPT !.share = FALSE, !.hello = FALSE, !.op = TRUE, !.quick = TRUE]
          @@ c3 :> [Plain EXCEPT !.zpipe = TRUE, !.hello = FALSE, !.full = TRUE]
=============================================================================
