--------------------------- MODULE NickRefinement ---------------------------
(***************************************************************************)
(* The sessions of the hub implement NickOwnership: the owner of a nick is *)
(* the user HashManager finds under it, and a connection is online from    *)
(* the moment Users::Add2NickList enters it until User::Close.             *)
(***************************************************************************)
EXTENDS UserSession

onlineNick == [c \in Conns |-> IF Listed(c) THEN nick[c] ELSE NoNick]

Owners == INSTANCE NickOwnership WITH owner <- nickTable, online <- onlineNick

\* Logins, passwords, ghosts, dead clones and closes make no other change to
\* who holds a nick and who is listed under it than NickOwnership allows.
ImplementsNickOwnership == Owners!Spec
============================================================================
