--------------------------- MODULE NickOwnership ---------------------------
(***************************************************************************)
(* What the hub promises about nicks, whatever the login looks like: a     *)
(* nick has at most one owner, only its owner is in the user lists under   *)
(* it, and it passes from a listed owner to another connection by one step *)
(* that also takes the old owner out of the lists.                         *)
(***************************************************************************)
EXTENDS FiniteSets

CONSTANTS Conns, Nicks, NoConn, NoNick

VARIABLES
    owner,   \* the connection that holds a nick, or NoConn
    online   \* the nick a connection is listed under, or NoNick

Init ==
    /\ owner = [n \in Nicks |-> NoConn]
    /\ online = [c \in Conns |-> NoNick]

OwnsNothing(c) == \A n \in Nicks : owner[n] # c

Claim(c, n) ==
    /\ OwnsNothing(c) /\ owner[n] = NoConn
    /\ owner' = [owner EXCEPT ![n] = c]
    /\ UNCHANGED online

TakeOver(c, n) ==
    /\ OwnsNothing(c) /\ owner[n] # NoConn
    /\ owner' = [owner EXCEPT ![n] = c]
    /\ online' = [online EXCEPT ![owner[n]] = NoNick]

Enter(c, n) ==
    /\ owner[n] = c /\ online[c] = NoNick
    /\ online' = [online EXCEPT ![c] = n]
    /\ UNCHANGED owner

Leave(c, n) ==
    /\ owner[n] = c
    /\ owner' = [owner EXCEPT ![n] = NoConn]
    /\ online' = [online EXCEPT ![c] = NoNick]

Next == \E c \in Conns, n \in Nicks :
    Claim(c, n) \/ TakeOver(c, n) \/ Enter(c, n) \/ Leave(c, n)

Spec == Init /\ [][Next]_<<owner, online>>
============================================================================
