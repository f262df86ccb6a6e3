---------------------------- MODULE MCCommandFlood ----------------------------
(* CommandFlood for TLC: everything about chat is limited, private messages   *)
(* have an interval, one limit of data.                                       *)
EXTENDS CommandFlood

NoLimits == [one |-> Off, two |-> Off, same |-> Off, int |-> Off,
             multi |-> [count |-> 1, lines |-> 1, action |-> 0, max |-> 0]]
L(count, time, action) == [count |-> count, time |-> time, action |-> action]
ChatLimits == [one |-> L(1, 1, 2), two |-> L(2, 3, 1), same |-> L(2, 2, 2),
               int |-> Off, multi |-> [count |-> 1, lines |-> 2, action |-> 2, max |-> 2]]
SomeLimits == [k \in Kinds |->
    CASE k = "chat" -> ChatLimits
      [] k = "pm" -> [NoLimits EXCEPT !.int = L(1, 1, 0)]
      [] OTHER -> NoLimits]
SomeDataLimits == [one |-> L(2, 2, 2), two |-> Off]
LinesOf == [text \in Texts |-> IF text = "verse" THEN 2 ELSE 1]
=============================================================================
