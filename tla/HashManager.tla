---------------------------- MODULE HashManager ----------------------------
(***************************************************************************)
(* The users of one address: the doubly linked list that HashManager       *)
(* threads through the User objects, its 16-bit counter, the limit on      *)
(* users from one address that the login reads from it, and the walk along *)
(* the list that closes the users of a banned address while Close unlinks  *)
(* them.  The nick table of HashManager is in UserSession.                 *)
(*                                                                         *)
(* All of it runs in the main thread: while a walk is under way only the   *)
(* walk, and what its Close calls run, takes steps.                        *)
(***************************************************************************)
EXTENDS Integers, FiniteSets

CONSTANTS
    Users, Ips, Null,
    IpOf,         \* m_ui128IpHash, given to the user by AcceptUser
    Exempt,       \* profiles allowed NOUSRSAMEIP and ENTERIFIPBAN
    MaxConns,     \* SETSHORT_MAX_CONN_SAME_IP
    CountLimit    \* 2^16: m_ui16Count is a uint16_t

ASSUME HashAssumption ==
    /\ Null \notin Users \cup Ips /\ IsFiniteSet(Users)
    /\ IpOf \in [Users -> Ips]
    /\ Exempt \subseteq Users
    /\ MaxConns \in Nat \ {0}
    /\ CountLimit \in Nat /\ CountLimit > MaxConns

VARIABLES
    conn,         \* how far each user is
    first,        \* IpTableItem::m_pFirstUser, Null when there is no item
    count,        \* IpTableItem::m_ui16Count
    next, prev,   \* User::m_pHashIpTableNext and Prev
    walk          \* the walk under way: its address, its pNextUser and, only for
                  \* the properties, whether that user was closed under it

links == <<first, count, next, prev>>
vars == <<conn, links, walk>>

NoWalk == [ip |-> Null, at |-> Null, cut |-> FALSE]
Walking == walk.ip # Null
Hashed == {u \in Users : conn[u] = "hashed"}

Init ==
    /\ conn = [u \in Users |-> "new"]
    /\ first = [i \in Ips |-> Null] /\ count = [i \in Ips |-> 0]
    /\ next = [u \in Users |-> Null] /\ prev = [u \in Users |-> Null]
    /\ walk = NoWalk
-----------------------------------------------------------------------------
(* Add and Remove on a list, as functions of the links.                    *)

Links == [first |-> first, count |-> count, next |-> next, prev |-> prev]

IsLinks(l) ==
    /\ first' = l.first /\ count' = l.count
    /\ next' = l.next /\ prev' = l.prev

\* mutant: the old head is not told who is before it
AddedOneWay(l, u) ==
    LET i == IpOf[u]  head == l.first[i] IN
    [first |-> [l.first EXCEPT ![i] = u],
     count |-> [l.count EXCEPT ![i] = IF head = Null THEN 1 ELSE (@ + 1) % CountLimit],
     next  |-> [l.next EXCEPT ![u] = IF head = Null THEN @ ELSE head],
     prev  |-> l.prev]

Added(l, u) ==
    LET i == IpOf[u]  head == l.first[i] IN
    [first |-> [l.first EXCEPT ![i] = u],
     count |-> [l.count EXCEPT ![i] = IF head = Null THEN 1 ELSE (@ + 1) % CountLimit],
     next  |-> [l.next EXCEPT ![u] = IF head = Null THEN @ ELSE head],
     prev  |-> [v \in Users |-> IF v = head THEN u ELSE l.prev[v]]]

\* mutant: only the head of the list is counted down
RemovedUncounted(l, u) ==
    LET i == IpOf[u]  p == l.prev[u]  n == l.next[u] IN
    [first |-> [l.first EXCEPT ![i] = IF p = Null THEN n ELSE @],
     count |-> [l.count EXCEPT ![i] = CASE p = Null /\ n = Null -> 0
                                      [] p = Null -> (@ - 1) % CountLimit
                                      [] OTHER -> @],
     next  |-> [v \in Users |-> IF v = u THEN Null ELSE IF v = p THEN n ELSE l.next[v]],
     prev  |-> [v \in Users |-> IF v = u THEN Null ELSE IF v = n THEN p ELSE l.prev[v]]]

\* The last user of an address takes the item with it, whatever its count.
Removed(l, u) ==
    LET i == IpOf[u]  p == l.prev[u]  n == l.next[u] IN
    [first |-> [l.first EXCEPT ![i] = IF p = Null THEN n ELSE @],
     count |-> [l.count EXCEPT ![i] = IF p = Null /\ n = Null THEN 0 ELSE (@ - 1) % CountLimit],
     next  |-> [v \in Users |-> IF v = u THEN Null ELSE IF v = p THEN n ELSE l.next[v]],
     prev  |-> [v \in Users |-> IF v = u THEN Null ELSE IF v = n THEN p ELSE l.prev[v]]]
-----------------------------------------------------------------------------
(* The login, as far as it reads and writes the list.                      *)

TooManyFrom(i) == count[i] >= MaxConns

\* ValidateUserNick refuses the user.
Refuse(u) ==
    /\ ~Walking /\ conn[u] = "new"
    /\ u \notin Exempt /\ TooManyFrom(IpOf[u])
    /\ conn' = [conn EXCEPT ![u] = "closed"]
    /\ UNCHANGED <<links, walk>>

\* ValidateUserNick accepts it and ValidateUserNickFinally adds it.
Validate(u) ==
    /\ ~Walking /\ conn[u] = "new"
    /\ u \in Exempt \/ ~TooManyFrom(IpOf[u])
    /\ conn' = [conn EXCEPT ![u] = "hashed"]
    /\ IsLinks(Added(Links, u))
    /\ UNCHANGED walk

\* ValidateUserNick accepts it, but another user holds its registered nick: it
\* is asked for the password and is not added yet.
AskGhostPassword(u) ==
    /\ ~Walking /\ conn[u] = "new" /\ Hashed # {}
    /\ u \in Exempt \/ ~TooManyFrom(IpOf[u])
    /\ conn' = [conn EXCEPT ![u] = "pending"]
    /\ UNCHANGED <<links, walk>>

\* MyPass: the right password closes the holder of the nick, if it is still
\* there, and adds the user.
MyPass(u) ==
    /\ ~Walking /\ conn[u] = "pending"
    /\ \/ \E ghost \in Hashed :
            /\ conn' = [conn EXCEPT ![ghost] = "closed", ![u] = "hashed"]
            /\ IsLinks(Added(Removed(Links, ghost), u))
       \/ /\ conn' = [conn EXCEPT ![u] = "hashed"]
          /\ IsLinks(Added(Links, u))
    /\ UNCHANGED walk

\* User::Close, for any reason; a user that is not hashed is in no list.
Close(u) ==
    /\ ~Walking /\ conn[u] # "closed"
    /\ conn' = [conn EXCEPT ![u] = "closed"]
    /\ IF u \in Hashed THEN IsLinks(Removed(Links, u)) ELSE UNCHANGED links
    /\ UNCHANGED walk
-----------------------------------------------------------------------------
(* HubCommands::CloseIpBannedUsers.                                        *)

BeginWalk(i) ==
    /\ ~Walking /\ first[i] # Null
    /\ walk' = [NoWalk EXCEPT !.ip = i, !.at = first[i]]
    /\ UNCHANGED <<conn, links>>

\* mutant: the next user is read after Close has unlinked this one
GoOnAfter(l, u) == l.next[u]

\* The walk reads the next user before it closes this one.
GoOn(l, u) == next[u]

\* An exempt user is passed over, and the Close of a closed user does nothing.
PassOver(u) ==
    /\ u \in Exempt \/ u \notin Hashed
    /\ walk' = [walk EXCEPT !.at = next[u]]
    /\ UNCHANGED <<conn, links>>

CloseBanned(u) ==
    /\ u \in Hashed \ Exempt
    /\ conn' = [conn EXCEPT ![u] = "closed"]
    /\ IsLinks(Removed(Links, u))
    /\ walk' = [walk EXCEPT !.at = GoOn(Removed(Links, u), u)]

\* A script's UserDisconnected of u disconnects v, before the walk goes on: when
\* v is the user the walk is to visit next, its next pointer is gone.
CloseBannedAndOther(u, v) ==
    /\ u \in Hashed \ Exempt /\ v \in Hashed \ {u}
    /\ conn' = [conn EXCEPT ![u] = "closed", ![v] = "closed"]
    /\ IsLinks(Removed(Removed(Links, u), v))
    /\ walk' = [walk EXCEPT !.at = GoOn(Removed(Removed(Links, u), v), u),
                            !.cut = @ \/ v = next[u]]

CloseNext ==
    /\ Walking /\ walk.at \in Users
    /\ \/ PassOver(walk.at)
       \/ CloseBanned(walk.at)
       \/ \E v \in Users : CloseBannedAndOther(walk.at, v)

EndWalk ==
    /\ Walking /\ walk.at = Null
    /\ walk' = NoWalk
    /\ UNCHANGED <<conn, links>>

Next ==
    \/ \E u \in Users :
        \/ Refuse(u) \/ Validate(u) \/ AskGhostPassword(u)
        \/ MyPass(u) \/ Close(u)
    \/ \E i \in Ips : BeginWalk(i)
    \/ CloseNext
    \/ EndWalk

Spec == Init /\ [][Next]_vars
-----------------------------------------------------------------------------
States == {"new", "pending", "hashed", "closed"}

TypeOK ==
    /\ conn \in [Users -> States]
    /\ first \in [Ips -> Users \cup {Null}]
    /\ count \in [Ips -> 0 .. CountLimit - 1]
    /\ next \in [Users -> Users \cup {Null}]
    /\ prev \in [Users -> Users \cup {Null}]
    /\ walk \in [ip : Ips \cup {Null}, at : Users \cup {Null}, cut : BOOLEAN]

\* l links exactly the users of H: the neighbours of one are users of its
\* address that point back at it, only the head has nobody before it, and a user
\* outside H is linked to nobody.
Matched(l, H) ==
    /\ \A u \in H : l.next[u] # Null =>
        l.next[u] \in H /\ IpOf[l.next[u]] = IpOf[u] /\ l.prev[l.next[u]] = u
    /\ \A u \in H : l.prev[u] # Null =>
        l.prev[u] \in H /\ IpOf[l.prev[u]] = IpOf[u] /\ l.next[l.prev[u]] = u
    /\ \A u \in H : l.prev[u] = Null <=> l.first[IpOf[u]] = u
    /\ \A u \in Users \ H : l.next[u] = Null /\ l.prev[u] = Null
    /\ \A i \in Ips : l.first[i] # Null => l.first[i] \in H /\ IpOf[l.first[i]] = i

\* HashManager's list holds the hashed users and never leads to a User object
\* that has left it and will be deleted.
LinksMatch == Matched(Links, Hashed)

\* Whoever walks along the list of an address stays in S.
Keeps(i, S) ==
    /\ first[i] # Null => first[i] \in S
    /\ \A u \in S : next[u] # Null => next[u] \in S

\* The users met on the way.
Met(i) == {u \in Users : \A S \in SUBSET Users : Keeps(i, S) => u \in S}

OnIp(i) == {u \in Hashed : IpOf[u] = i}

\* FindUser(ip) and its callers meet every user of the address and nobody else,
\* and the counter is their number modulo its width.
ListExact == \A i \in Ips : Met(i) = OnIp(i) /\ count[i] = Cardinality(OnIp(i)) % CountLimit

\* Changelog.txt: the commands that ban an address disconnect all users with it.
\* When the walk ends nobody but the exempt is left in the list, though Close
\* unlinks the users under the walk and scripts disconnect others on the way.
\* The one exception: a script closed the very user that was to be visited next.
WalkClosesAll ==
    [][Walking /\ ~Walking' /\ ~walk.cut => OnIp(walk.ip) \subseteq Exempt]_vars
=============================================================================
