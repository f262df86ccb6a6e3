----------------------------- MODULE MCBanManager -----------------------------
(* Instances of BanManager for TLC.                                        *)
EXTENDS BanManager, TLC

CONSTANTS i1, i2, n1, n2, r1

Around == [r \in {r1} |-> {i1, i2}]
Alike == {p @@ q : p \in Permutations({i1, i2}), q \in Permutations({n1, n2})}
=============================================================================
