------------------------------ MODULE MCMembers ------------------------------
(* Members for TLC: an operator without the right to ban, and a member.     *)
EXTENDS Members, TLC

ProfileOf == [n \in Nicks |-> IF n = "op" THEN 1 ELSE -1]
RightsOf == [n \in Nicks |-> IF n = "op" THEN {"kick", "close", "redirect"} ELSE {}]
F(v4, v6, active4, active6, tagged) ==
    [v4 |-> v4, v6 |-> v6, active4 |-> active4, active6 |-> active6, tagged |-> tagged]
AnySlot == Permutations(Slots)
SomeForms == {F(TRUE, TRUE, FALSE, TRUE, FALSE)}
=============================================================================
