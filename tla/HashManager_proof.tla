------------------------- MODULE HashManager_proof -------------------------
(***************************************************************************)
(* Proofs about HashManager, for any users, addresses, limits and scripts: *)
(* the lists always link exactly the hashed users, and nothing else.       *)
(***************************************************************************)
EXTENDS HashManager, FiniteSetTheorems, WellFoundedInduction, TLAPS

LinksType(l) ==
    /\ l.first \in [Ips -> Users \cup {Null}]
    /\ l.count \in [Ips -> 0 .. CountLimit - 1]
    /\ l.next \in [Users -> Users \cup {Null}]
    /\ l.prev \in [Users -> Users \cup {Null}]

\* The counter keeps its width.
LEMMA CountInRange ==
    ASSUME NEW k \in 0 .. CountLimit - 1
    PROVE  /\ (k + 1) % CountLimit \in 0 .. CountLimit - 1
           /\ (k - 1) % CountLimit \in 0 .. CountLimit - 1
           /\ 0 \in 0 .. CountLimit - 1 /\ 1 \in 0 .. CountLimit - 1
<1>1. CountLimit \in Nat /\ CountLimit > 1
  BY HashAssumption
<1> QED BY <1>1

\* Add links a user that was in no list and keeps the rest as it was.
LEMMA AddKeepsMatched ==
    ASSUME NEW l, NEW H \in SUBSET Users, NEW u \in Users \ H, LinksType(l), Matched(l, H)
    PROVE  LinksType(Added(l, u)) /\ Matched(Added(l, u), H \cup {u})
<1> DEFINE i == IpOf[u]
           head == l.first[i]
           m == Added(l, u)
<1>1. i \in Ips /\ Null \notin Users /\ \A v \in Users : IpOf[v] \in Ips
  BY HashAssumption
<1>2. /\ m.first = [l.first EXCEPT ![i] = u]
      /\ m.count = [l.count EXCEPT ![i] = IF head = Null THEN 1 ELSE (l.count[i] + 1) % CountLimit]
      /\ m.next = [l.next EXCEPT ![u] = IF head = Null THEN l.next[u] ELSE head]
      /\ m.prev = [v \in Users |-> IF v = head THEN u ELSE l.prev[v]]
  BY DEF Added
<1>3. l.next[u] = Null /\ l.prev[u] = Null
  BY DEF Matched
<1>4. head \in H \cup {Null} /\ (head # Null => IpOf[head] = i /\ l.prev[head] = Null)
  BY <1>1 DEF Matched, LinksType
<1>5. /\ \A v \in Users : m.next[v] = IF v = u THEN head ELSE l.next[v]
      /\ \A v \in Users : m.prev[v] = IF v = head THEN u ELSE l.prev[v]
      /\ \A j \in Ips : m.first[j] = IF j = i THEN u ELSE l.first[j]
  BY <1>1, <1>2, <1>3 DEF LinksType
<1>6. LinksType(m)
  <2>1. l.count[i] \in 0 .. CountLimit - 1
    BY <1>1 DEF LinksType
  <2>2. m.count \in [Ips -> 0 .. CountLimit - 1]
    BY <1>1, <1>2, <2>1, CountInRange DEF LinksType
  <2> QED BY <1>1, <1>2, <1>4, <2>2 DEF LinksType
<1>7. Matched(m, H \cup {u})
  <2> HIDE DEF m, i, head
  <2>1. \A v \in H \cup {u} : m.next[v] # Null =>
          m.next[v] \in H \cup {u} /\ IpOf[m.next[v]] = IpOf[v] /\ m.prev[m.next[v]] = v
    BY <1>1, <1>3, <1>4, <1>5 DEF Matched, i
  <2>2. \A v \in H \cup {u} : m.prev[v] # Null =>
          m.prev[v] \in H \cup {u} /\ IpOf[m.prev[v]] = IpOf[v] /\ m.next[m.prev[v]] = v
    BY <1>1, <1>3, <1>4, <1>5 DEF Matched, i
  <2>3. ASSUME NEW v \in H \cup {u} PROVE (m.prev[v] = Null) <=> (m.first[IpOf[v]] = v)
    <3>1. CASE v = u
      BY <1>1, <1>3, <1>4, <1>5, <3>1 DEF i
    <3>2. CASE v # u /\ v = head
      <4>1. m.prev[v] = u /\ m.first[IpOf[v]] = u
        BY <1>1, <1>4, <1>5, <3>2
      <4> QED BY <1>1, <3>2, <4>1
    <3>3. CASE v # u /\ v # head
      <4>1. v \in H /\ m.prev[v] = l.prev[v]
        BY <1>5, <3>3
      <4>2. (l.prev[v] = Null) <=> (l.first[IpOf[v]] = v)
        BY <4>1 DEF Matched
      <4>3. m.first[IpOf[v]] = IF IpOf[v] = i THEN u ELSE l.first[IpOf[v]]
        BY <1>1, <1>5, <4>1
      <4>4. IpOf[v] = i => l.first[IpOf[v]] # v
        BY <3>3 DEF head
      <4> QED BY <3>3, <4>1, <4>2, <4>3, <4>4
    <3> QED BY <3>1, <3>2, <3>3
  <2>4. \A v \in Users \ (H \cup {u}) : m.next[v] = Null /\ m.prev[v] = Null
    BY <1>1, <1>4, <1>5 DEF Matched
  <2>5. \A j \in Ips : m.first[j] # Null => m.first[j] \in H \cup {u} /\ IpOf[m.first[j]] = j
    BY <1>1, <1>5 DEF Matched, i
  <2> QED BY <2>1, <2>2, <2>3, <2>4, <2>5 DEF Matched
<1> QED BY <1>6, <1>7

\* Remove unlinks one user and joins its neighbours.
LEMMA RemoveKeepsMatched ==
    ASSUME NEW l, NEW H \in SUBSET Users, NEW u \in H, LinksType(l), Matched(l, H)
    PROVE  LinksType(Removed(l, u)) /\ Matched(Removed(l, u), H \ {u})
<1> DEFINE i == IpOf[u]
           p == l.prev[u]
           n == l.next[u]
           m == Removed(l, u)
<1>1. i \in Ips /\ Null \notin Users /\ \A v \in Users : IpOf[v] \in Ips
  BY HashAssumption
<1>2. /\ m.first = [l.first EXCEPT ![i] = IF p = Null THEN n ELSE l.first[i]]
      /\ m.count = [l.count EXCEPT ![i] = IF p = Null /\ n = Null THEN 0 ELSE (l.count[i] - 1) % CountLimit]
      /\ m.next = [v \in Users |-> IF v = u THEN Null ELSE IF v = p THEN n ELSE l.next[v]]
      /\ m.prev = [v \in Users |-> IF v = u THEN Null ELSE IF v = n THEN p ELSE l.prev[v]]
  BY DEF Removed
<1>3. p \in H \cup {Null} /\ (p # Null => IpOf[p] = i /\ l.next[p] = u)
  BY DEF Matched, LinksType
<1>4. n \in H \cup {Null} /\ (n # Null => IpOf[n] = i /\ l.prev[n] = u)
  BY DEF Matched, LinksType
<1>5. /\ \A v \in Users : m.next[v] = IF v = u THEN Null ELSE IF v = p THEN n ELSE l.next[v]
      /\ \A v \in Users : m.prev[v] = IF v = u THEN Null ELSE IF v = n THEN p ELSE l.prev[v]
      /\ \A j \in Ips : m.first[j] = IF j = i /\ p = Null THEN n ELSE l.first[j]
  <2> HIDE DEF m, i, p, n
  <2>1. \A v \in Users : m.next[v] = IF v = u THEN Null ELSE IF v = p THEN n ELSE l.next[v]
    BY <1>2
  <2>2. \A v \in Users : m.prev[v] = IF v = u THEN Null ELSE IF v = n THEN p ELSE l.prev[v]
    BY <1>2
  <2>3. \A j \in Ips : m.first[j] = IF j = i /\ p = Null THEN n ELSE l.first[j]
    BY <1>1, <1>2 DEF LinksType
  <2> QED BY <2>1, <2>2, <2>3
<1>6. LinksType(m)
  <2>1. l.count[i] \in 0 .. CountLimit - 1
    BY <1>1 DEF LinksType
  <2>2. m.count \in [Ips -> 0 .. CountLimit - 1]
    BY <1>1, <1>2, <2>1, CountInRange DEF LinksType
  <2>3. m.first \in [Ips -> Users \cup {Null}]
    BY <1>1, <1>2, <1>4 DEF LinksType
  <2>4. m.next \in [Users -> Users \cup {Null}]
    BY <1>2, <1>4 DEF LinksType
  <2>5. m.prev \in [Users -> Users \cup {Null}]
    BY <1>2, <1>3 DEF LinksType
  <2> QED BY <2>2, <2>3, <2>4, <2>5 DEF LinksType
<1>7. Matched(m, H \ {u})
  <2> HIDE DEF m, i, p, n
  <2>a. p = l.prev[u] /\ n = l.next[u] /\ i = IpOf[u]
    BY DEF p, n, i
  <2>1. \A v \in H \ {u} : m.next[v] # Null =>
          m.next[v] \in H \ {u} /\ IpOf[m.next[v]] = IpOf[v] /\ m.prev[m.next[v]] = v
    BY <1>1, <1>3, <1>4, <1>5, <2>a DEF Matched
  <2>2. \A v \in H \ {u} : m.prev[v] # Null =>
          m.prev[v] \in H \ {u} /\ IpOf[m.prev[v]] = IpOf[v] /\ m.next[m.prev[v]] = v
    BY <1>1, <1>3, <1>4, <1>5, <2>a DEF Matched
  <2>3. \A v \in H \ {u} : m.prev[v] = Null <=> m.first[IpOf[v]] = v
    BY <1>1, <1>3, <1>4, <1>5, <2>a DEF Matched
  <2>4. \A v \in Users \ (H \ {u}) : m.next[v] = Null /\ m.prev[v] = Null
    BY <1>1, <1>3, <1>4, <1>5 DEF Matched
  <2>5. \A j \in Ips : m.first[j] # Null => m.first[j] \in H \ {u} /\ IpOf[m.first[j]] = j
    BY <1>1, <1>3, <1>4, <1>5, <2>a DEF Matched
  <2> QED BY <2>1, <2>2, <2>3, <2>4, <2>5 DEF Matched
<1> QED BY <1>6, <1>7
-----------------------------------------------------------------------------
\* The order along the lists: pos is the place of a user in the list of its
\* address, counted from the head.

Group(H, i) == {u \in H : IpOf[u] = i}

Placed(l, H, pos) ==
    /\ \A u \in H : l.prev[u] = Null => pos[u] = 0
    /\ \A u \in H : l.prev[u] # Null => pos[u] = pos[l.prev[u]] + 1
    /\ \A u \in H : l.next[u] = Null => pos[u] + 1 = Cardinality(Group(H, IpOf[u]))
    /\ \A u \in H : pos[u] < Cardinality(Group(H, IpOf[u])) /\ l.first[IpOf[u]] # Null
    /\ \A u, v \in H : IpOf[u] = IpOf[v] /\ pos[u] = pos[v] => u = v
    /\ \A i \in Ips : l.count[i] = Cardinality(Group(H, i)) % CountLimit

InOrder(l, H) == \E pos \in [Users -> Nat] : Placed(l, H, pos)

\* Counting up, and down again, round the width of the counter.
LEMMA Division ==
    ASSUME NEW c \in Nat, NEW w \in Nat, w > 1
    PROVE  c = (c \div w) * w + (c % w) /\ (c \div w) \in Int /\ c % w \in 0 .. w - 1
BY SMTT(60)

LEMMA Remainder ==
    ASSUME NEW r \in Nat, NEW q \in Int, NEW c \in Nat, NEW w \in Nat, w > 1, r < w,
           c = q * w + r
    PROVE  c % w = r
BY SMTT(60)

LEMMA CountUp ==
    ASSUME NEW c \in Nat, NEW w \in Nat, w > 1
    PROVE  (c + 1) % w = ((c % w) + 1) % w
<1>1. PICK q \in Int, r \in 0 .. w - 1 : c = q * w + r /\ r = c % w
  BY Division
<1>2. CASE r + 1 < w
  <2>1. c + 1 = q * w + (r + 1)
    BY <1>1
  <2>2. PICK d \in Nat, s \in Nat : d = c + 1 /\ s = r + 1
    BY <1>1
  <2>3. s < w /\ d = q * w + s
    BY <1>2, <2>1, <2>2, SMTT(60)
  <2>4. d % w = s
    BY <2>3, Remainder
  <2>5. (r + 1) % w = r + 1
    BY <1>2
  <2> QED BY <1>1, <2>2, <2>4, <2>5
<1>3. CASE r + 1 = w
  <2>0. c + 1 = q * w + w /\ (q + 1) * w = q * w + w
    BY <1>1, <1>3, SMTT(60)
  <2>1. c + 1 = (q + 1) * w + 0
    BY <2>0, SMTT(60)
  <2>2. c + 1 \in Nat /\ q + 1 \in Int /\ 0 \in Nat /\ 0 < w
    OBVIOUS
  <2>3. (c + 1) % w = 0
    BY <2>1, <2>2, Remainder, ZenonT(60)
  <2>4. (r + 1) % w = 0
    BY <1>3
  <2> QED BY <1>1, <2>3, <2>4
<1> QED BY <1>2, <1>3

LEMMA CountDown ==
    ASSUME NEW c \in Nat, NEW w \in Nat, w > 1
    PROVE  (((c + 1) % w) - 1) % w = c % w
<1>1. PICK q \in Int, r \in 0 .. w - 1 : c = q * w + r /\ r = c % w
  BY Division
<1>2. CASE r + 1 < w
  <2>1. (r + 1) % w = r + 1
    BY <1>2
  <2>2. (c + 1) % w = r + 1
    BY <1>1, <2>1, CountUp
  <2> QED BY <1>1, <2>2
<1>3. CASE r + 1 = w
  <2>1. (r + 1) % w = 0
    BY <1>3
  <2>2. (c + 1) % w = 0
    BY <1>1, <2>1, CountUp
  <2>3. (0 - 1) % w = w - 1
    OBVIOUS
  <2> QED BY <1>1, <1>3, <2>2, <2>3
<1> QED BY <1>2, <1>3

\* The users of one address.
LEMMA GroupFinite ==
    ASSUME NEW H \in SUBSET Users, NEW i
    PROVE  IsFiniteSet(Group(H, i)) /\ Cardinality(Group(H, i)) \in Nat
BY HashAssumption, FS_Subset, FS_CardinalityType DEF Group

LEMMA GroupGrows ==
    ASSUME NEW H \in SUBSET Users, NEW u \in Users \ H, NEW i
    PROVE  Cardinality(Group(H \cup {u}, i)) =
             IF i = IpOf[u] THEN Cardinality(Group(H, i)) + 1 ELSE Cardinality(Group(H, i))
<1>1. CASE i = IpOf[u]
  <2>1. Group(H \cup {u}, i) = Group(H, i) \cup {u} /\ u \notin Group(H, i)
    BY <1>1 DEF Group
  <2> QED BY <1>1, <2>1, GroupFinite, FS_AddElement
<1>2. CASE i # IpOf[u]
  <2>1. Group(H \cup {u}, i) = Group(H, i)
    BY <1>2 DEF Group
  <2> QED BY <1>2, <2>1
<1> QED BY <1>1, <1>2

LEMMA GroupShrinks ==
    ASSUME NEW H \in SUBSET Users, NEW u \in H, NEW i
    PROVE  Cardinality(Group(H, i)) =
             IF i = IpOf[u] THEN Cardinality(Group(H \ {u}, i)) + 1
             ELSE Cardinality(Group(H \ {u}, i))
<1>1. (H \ {u}) \cup {u} = H /\ H \ {u} \in SUBSET Users /\ u \in Users \ (H \ {u})
  OBVIOUS
<1> QED BY <1>1, GroupGrows

\* The new head is at place 0 and moves the users of its address back.
LEMMA AddKeepsOrder ==
    ASSUME NEW l, NEW H \in SUBSET Users, NEW u \in Users \ H,
           LinksType(l), Matched(l, H), InOrder(l, H)
    PROVE  InOrder(Added(l, u), H \cup {u})
<1> DEFINE i == IpOf[u]
           head == l.first[i]
           m == Added(l, u)
           G == H \cup {u}
<1>1. i \in Ips /\ Null \notin Users /\ \A v \in Users : IpOf[v] \in Ips
  BY HashAssumption
<1>2. l.next[u] = Null /\ l.prev[u] = Null
  BY DEF Matched
<1>3. /\ \A v \in Users : m.next[v] = IF v = u THEN head ELSE l.next[v]
      /\ \A v \in Users : m.prev[v] = IF v = head THEN u ELSE l.prev[v]
      /\ \A j \in Ips : m.first[j] = IF j = i THEN u ELSE l.first[j]
      /\ \A j \in Ips : m.count[j] = IF j # i THEN l.count[j]
                                     ELSE IF head = Null THEN 1
                                     ELSE (l.count[i] + 1) % CountLimit
  BY <1>1, <1>2 DEF Added, LinksType
<1>4. PICK pos \in [Users -> Nat] : Placed(l, H, pos)
  BY DEF InOrder
<1> DEFINE new == [v \in Users |-> IF v = u THEN 0
                                   ELSE IF IpOf[v] = i THEN pos[v] + 1 ELSE pos[v]]
<1>5. /\ new \in [Users -> Nat] /\ new[u] = 0
      /\ \A v \in Users : v # u => new[v] = IF IpOf[v] = i THEN pos[v] + 1 ELSE pos[v]
      /\ \A v \in Users : pos[v] \in Nat
  OBVIOUS
<1>6. head = Null => Group(H, i) = {}
  <2> SUFFICES ASSUME head = Null, NEW v \in Group(H, i) PROVE FALSE
    OBVIOUS
  <2>1. v \in H /\ IpOf[v] = i
    BY DEF Group
  <2>2. l.first[IpOf[v]] # Null
    BY <1>4, <2>1 DEF Placed
  <2> QED BY <2>1, <2>2
<1>7. head # Null => head \in H /\ IpOf[head] = i /\ l.prev[head] = Null
  BY <1>1 DEF Matched, LinksType
<1>8. \A j : Cardinality(Group(G, j)) = IF j = i THEN Cardinality(Group(H, j)) + 1
                                        ELSE Cardinality(Group(H, j))
  BY GroupGrows
<1>9. \A j : Cardinality(Group(H, j)) \in Nat
  BY GroupFinite
<1>10. head = Null => Cardinality(Group(H, i)) = 0
  BY <1>6, FS_EmptySet
<1>11. u \notin H /\ H \subseteq Users /\ i = IpOf[u] /\ G = H \cup {u}
  OBVIOUS
<1> HIDE DEF m, new, head, i, G
<1>12. \A v \in G : m.prev[v] = Null => new[v] = 0
  BY <1>1, <1>2, <1>3, <1>4, <1>5, <1>7, <1>11 DEF Placed, Matched, head
<1>13. ASSUME NEW v \in G, m.prev[v] # Null PROVE new[v] = new[m.prev[v]] + 1
  <2>1. CASE v = head
    <3>1. head # Null /\ v \in H /\ v # u
      BY <1>1, <1>7, <1>11, <2>1
    <3>2. m.prev[v] = u /\ pos[v] = 0 /\ IpOf[v] = i
      BY <1>3, <1>4, <1>7, <1>11, <2>1, <3>1 DEF Placed
    <3> QED BY <1>5, <1>11, <3>1, <3>2
  <2>2. CASE v # head
    <3>1. m.prev[v] = l.prev[v] /\ v # u /\ v \in H
      BY <1>2, <1>3, <1>11, <1>13, <2>2
    <3>2. l.prev[v] \in H /\ IpOf[l.prev[v]] = IpOf[v] /\ pos[v] = pos[l.prev[v]] + 1
      BY <1>4, <1>13, <3>1 DEF Placed, Matched
    <3> QED BY <1>5, <1>11, <3>1, <3>2
  <2> QED BY <2>1, <2>2
<1>14. ASSUME NEW v \in G, m.next[v] = Null
       PROVE  new[v] + 1 = Cardinality(Group(G, IpOf[v]))
  <2>1. CASE v = u
    BY <1>3, <1>5, <1>8, <1>10, <1>11, <1>14, <2>1
  <2>2. CASE v # u
    <3>1. v \in H /\ l.next[v] = Null
      BY <1>3, <1>11, <1>14, <2>2
    <3>2. pos[v] + 1 = Cardinality(Group(H, IpOf[v]))
      BY <1>4, <3>1 DEF Placed
    <3> QED BY <1>5, <1>8, <1>11, <2>2, <3>1, <3>2
  <2> QED BY <2>1, <2>2
<1>15. ASSUME NEW v \in G
       PROVE  new[v] < Cardinality(Group(G, IpOf[v])) /\ m.first[IpOf[v]] # Null
  <2>1. PICK c \in Nat, d \in Nat : /\ c = Cardinality(Group(H, IpOf[v])) /\ d = Cardinality(Group(G, IpOf[v]))
                            /\ d = IF IpOf[v] = i THEN c + 1 ELSE c
    BY <1>8, <1>9
  <2>2. v \in Users /\ IpOf[v] \in Ips
    BY <1>1, <1>11
  <2>3. CASE v = u
    <3>1. new[v] < d
      BY <1>5, <1>11, <2>1, <2>3
    <3> QED BY <1>1, <1>3, <1>11, <2>1, <2>2, <2>3, <3>1
  <2>4. CASE v # u
    <3>1. v \in H /\ pos[v] < c /\ l.first[IpOf[v]] # Null
      BY <1>4, <1>11, <2>1, <2>4 DEF Placed
    <3>2. new[v] < d
      BY <1>5, <2>1, <2>2, <2>4, <3>1
    <3>3. m.first[IpOf[v]] # Null
      BY <1>1, <1>3, <1>11, <2>2, <3>1
    <3> QED BY <2>1, <3>2, <3>3
  <2> QED BY <2>3, <2>4
<1>16. ASSUME NEW v \in G, NEW w \in G, IpOf[v] = IpOf[w], new[v] = new[w] PROVE v = w
  <2>1. v # u /\ w # u => v \in H /\ w \in H /\ pos[v] = pos[w]
    BY <1>5, <1>11, <1>16
  <2> QED BY <1>4, <1>5, <1>11, <1>16, <2>1 DEF Placed
<1>17. ASSUME NEW j \in Ips PROVE m.count[j] = Cardinality(Group(G, j)) % CountLimit
  <2>1. CountLimit \in Nat /\ CountLimit > 1
    BY HashAssumption
  <2>2. l.count[j] = Cardinality(Group(H, j)) % CountLimit
    BY <1>4 DEF Placed
  <2>3. CASE j # i
    BY <1>3, <1>8, <2>2, <2>3
  <2>4. CASE j = i /\ head = Null
    BY <1>3, <1>8, <1>10, <2>1, <2>4
  <2>5. CASE j = i /\ head # Null
    <3>1. (Cardinality(Group(H, j)) + 1) % CountLimit
             = ((Cardinality(Group(H, j)) % CountLimit) + 1) % CountLimit
      BY <1>9, <2>1, CountUp
    <3> QED BY <1>3, <1>8, <2>2, <2>5, <3>1
  <2> QED BY <2>3, <2>4, <2>5
<1>18. Placed(m, G, new)
  BY <1>12, <1>13, <1>14, <1>15, <1>16, <1>17 DEF Placed
<1> QED BY <1>5, <1>18 DEF InOrder, m, G

\* Those behind a user that leaves move up.
LEMMA RemoveKeepsOrder ==
    ASSUME NEW l, NEW H \in SUBSET Users, NEW u \in H,
           LinksType(l), Matched(l, H), InOrder(l, H)
    PROVE  InOrder(Removed(l, u), H \ {u})
<1> DEFINE i == IpOf[u]
           p == l.prev[u]
           n == l.next[u]
           m == Removed(l, u)
           G == H \ {u}
<1>1. i \in Ips /\ Null \notin Users /\ \A v \in Users : IpOf[v] \in Ips
  BY HashAssumption
<1>2. p \in H \cup {Null} /\ (p # Null => IpOf[p] = i /\ l.next[p] = u)
  BY DEF Matched, LinksType
<1>3. n \in H \cup {Null} /\ (n # Null => IpOf[n] = i /\ l.prev[n] = u)
  BY DEF Matched, LinksType
<1>4. /\ \A v \in Users : m.next[v] = IF v = u THEN Null ELSE IF v = p THEN n ELSE l.next[v]
      /\ \A v \in Users : m.prev[v] = IF v = u THEN Null ELSE IF v = n THEN p ELSE l.prev[v]
      /\ \A j \in Ips : m.first[j] = IF j = i /\ p = Null THEN n ELSE l.first[j]
      /\ \A j \in Ips : m.count[j] = IF j # i THEN l.count[j]
                                     ELSE IF p = Null /\ n = Null THEN 0
                                     ELSE (l.count[i] - 1) % CountLimit
  BY <1>1 DEF Removed, LinksType
<1>5. PICK pos \in [Users -> Nat] : Placed(l, H, pos)
  BY DEF InOrder
<1> DEFINE new == [v \in Users |-> IF IpOf[v] = i /\ pos[v] > pos[u] THEN pos[v] - 1 ELSE pos[v]]
<1>6. /\ new \in [Users -> Nat]
      /\ \A v \in Users : new[v] = IF IpOf[v] = i /\ pos[v] > pos[u]
                                   THEN pos[v] - 1 ELSE pos[v]
      /\ \A v \in Users : pos[v] \in Nat
  OBVIOUS
<1>7. \A j : Cardinality(Group(H, j)) = IF j = i THEN Cardinality(Group(G, j)) + 1
                                        ELSE Cardinality(Group(G, j))
  BY GroupShrinks
<1>8. \A j : Cardinality(Group(G, j)) \in Nat
  BY GroupFinite
<1>9. u \in H /\ H \subseteq Users /\ i = IpOf[u] /\ G = H \ {u} /\ p = l.prev[u] /\ n = l.next[u]
  OBVIOUS
<1> HIDE DEF m, new, i, p, n, G
<1>10. \A v \in G : IpOf[v] = i => pos[v] # pos[u]
  BY <1>5, <1>9 DEF Placed
<1>11. p # Null => pos[u] = pos[p] + 1
  BY <1>5, <1>9 DEF Placed
<1>12. n # Null => pos[n] = pos[u] + 1
  BY <1>1, <1>3, <1>5, <1>9 DEF Placed
<1>13. ASSUME NEW v \in G, m.prev[v] = Null PROVE new[v] = 0
  <2>1. v \in H /\ v \in Users /\ v # u
    BY <1>9
  <2>2. CASE v = n
    <3>1. p = Null
      BY <1>4, <1>13, <2>1, <2>2
    <3>3. l.prev[u] = Null
      BY <1>9, <3>1
    <3>4. pos[u] = 0
      BY <1>5, <1>9, <3>3 DEF Placed
    <3>5. v # Null /\ n # Null
      BY <1>1, <2>1, <2>2
    <3>2. pos[u] = 0 /\ pos[v] = 1 /\ IpOf[v] = i
      BY <1>3, <1>12, <2>2, <3>4, <3>5
    <3> QED BY <1>6, <2>1, <3>2
  <2>3. CASE v # n
    <3>1. pos[v] = 0
      BY <1>4, <1>5, <1>13, <2>1, <2>3 DEF Placed
    <3> QED BY <1>6, <1>9, <2>1, <3>1
  <2> QED BY <2>2, <2>3
<1>14. ASSUME NEW v \in G, m.prev[v] # Null PROVE new[v] = new[m.prev[v]] + 1
  <2>1. v \in H /\ v \in Users /\ v # u
    BY <1>9
  <2>2. CASE v = n
    <3>1. m.prev[v] = p /\ p # Null /\ p \in Users /\ IpOf[p] = i /\ IpOf[v] = i
      BY <1>1, <1>2, <1>3, <1>4, <1>9, <1>14, <2>1, <2>2
    <3>2. pos[v] = pos[u] + 1 /\ pos[u] = pos[p] + 1
      BY <1>1, <1>11, <1>12, <2>1, <2>2, <3>1
    <3> QED BY <1>6, <1>9, <2>1, <3>1, <3>2
  <2>3. CASE v # n
    <3>1. m.prev[v] = l.prev[v] /\ l.prev[v] # Null
      BY <1>4, <1>14, <2>1, <2>3
    <3>2. l.prev[v] \in H /\ IpOf[l.prev[v]] = IpOf[v] /\ pos[v] = pos[l.prev[v]] + 1
          /\ l.next[l.prev[v]] = v
      BY <1>5, <2>1, <3>1 DEF Placed, Matched
    <3>3. l.prev[v] \in G
      BY <1>9, <2>3, <3>2
    <3>4. IpOf[v] = i => pos[v] # pos[u] /\ pos[l.prev[v]] # pos[u]
      BY <1>10, <3>2, <3>3
    <3> QED BY <1>6, <1>9, <2>1, <3>1, <3>2, <3>4
  <2> QED BY <2>2, <2>3
<1>15. ASSUME NEW v \in G, m.next[v] = Null
       PROVE  new[v] + 1 = Cardinality(Group(G, IpOf[v]))
  <2>1. v \in H /\ v \in Users /\ v # u
    BY <1>9
  <2>2. CASE v = p
    <3>1. n = Null /\ p # Null /\ IpOf[v] = i
      BY <1>1, <1>2, <1>4, <1>15, <2>1, <2>2
    <3>2. pos[u] + 1 = Cardinality(Group(H, i)) /\ pos[u] = pos[v] + 1
      BY <1>5, <1>9, <1>11, <2>2, <3>1 DEF Placed
    <3> QED BY <1>6, <1>7, <1>8, <1>9, <2>1, <3>1, <3>2
  <2>3. CASE v # p
    <3>1. l.next[v] = Null
      BY <1>4, <1>15, <2>1, <2>3
    <3>2. pos[v] + 1 = Cardinality(Group(H, IpOf[v]))
      BY <1>5, <2>1, <3>1 DEF Placed
    <3>3. IpOf[v] = i => pos[u] < pos[v]
      <4> SUFFICES ASSUME IpOf[v] = i PROVE pos[u] < pos[v]
        OBVIOUS
      <4>1. pos[u] < Cardinality(Group(H, i)) /\ pos[v] # pos[u]
        BY <1>5, <1>9, <1>10 DEF Placed
      <4>2. pos[v] + 1 = Cardinality(Group(H, i)) /\ pos[v] \in Nat /\ pos[u] \in Nat
        BY <1>6, <1>9, <2>1, <3>2
      <4> QED BY <4>1, <4>2
    <3>4. PICK c \in Nat : c = Cardinality(Group(G, IpOf[v]))
      BY <1>8
    <3>5. Cardinality(Group(H, IpOf[v])) = IF IpOf[v] = i THEN c + 1 ELSE c
      BY <1>7, <3>4
    <3>6. new[v] + 1 = c
      BY <1>6, <1>9, <2>1, <3>2, <3>3, <3>4, <3>5
    <3> QED BY <3>4, <3>6
  <2> QED BY <2>2, <2>3
<1>16. ASSUME NEW v \in G
       PROVE  new[v] < Cardinality(Group(G, IpOf[v])) /\ m.first[IpOf[v]] # Null
  <2>1. v \in H /\ v \in Users /\ v # u /\ l.first[IpOf[v]] # Null
    BY <1>5, <1>9 DEF Placed
  <2>2. pos[v] < Cardinality(Group(H, IpOf[v])) /\ pos[u] < Cardinality(Group(H, i))
    BY <1>5, <1>9, <2>1 DEF Placed
  <2>5. PICK c \in Nat : c = Cardinality(Group(G, IpOf[v]))
    BY <1>8
  <2>6. Cardinality(Group(H, IpOf[v])) = IF IpOf[v] = i THEN c + 1 ELSE c
    BY <1>7, <2>5
  <2>7. pos[v] \in Nat /\ pos[u] \in Nat /\ (IpOf[v] = i => pos[v] # pos[u])
    BY <1>6, <1>9, <1>10, <2>1
  <2>8. IpOf[v] = i => pos[u] < c + 1
    BY <2>2, <2>6
  <2>9. new[v] < c
    <3>1. CASE IpOf[v] = i /\ pos[v] > pos[u]
      BY <1>6, <2>1, <2>2, <2>6, <2>7, <3>1
    <3>2. CASE IpOf[v] = i /\ ~(pos[v] > pos[u])
      <4>1. new[v] = pos[v] /\ pos[v] < pos[u]
        BY <1>6, <2>1, <2>7, <3>2
      <4> QED BY <2>7, <2>8, <3>2, <4>1
    <3>3. CASE IpOf[v] # i
      BY <1>6, <2>1, <2>2, <2>6, <3>3
    <3> QED BY <3>1, <3>2, <3>3
  <2>3. new[v] < Cardinality(Group(G, IpOf[v]))
    BY <2>5, <2>9
  <2>4. IpOf[v] = i /\ p = Null => n # Null
    <3> SUFFICES ASSUME IpOf[v] = i, p = Null, n = Null PROVE FALSE
      OBVIOUS
    <3>1. pos[u] = 0 /\ pos[u] + 1 = Cardinality(Group(H, i))
      BY <1>5, <1>9 DEF Placed
    <3> QED BY <1>6, <1>10, <2>1, <2>2, <3>1
  <2> QED BY <1>1, <1>4, <2>1, <2>3, <2>4
<1>17. ASSUME NEW v \in G, NEW w \in G, IpOf[v] = IpOf[w], new[v] = new[w] PROVE v = w
  <2>1. v \in H /\ w \in H /\ v \in Users /\ w \in Users /\ u \in Users
    BY <1>9
  <2>2. pos[v] = pos[w]
    BY <1>6, <1>10, <1>17, <2>1
  <2> QED BY <1>5, <1>17, <2>1, <2>2 DEF Placed
<1>18. ASSUME NEW j \in Ips PROVE m.count[j] = Cardinality(Group(G, j)) % CountLimit
  <2>1. CountLimit \in Nat /\ CountLimit > 1
    BY HashAssumption
  <2>2. l.count[j] = Cardinality(Group(H, j)) % CountLimit
    BY <1>5 DEF Placed
  <2>3. CASE j # i
    BY <1>4, <1>7, <2>2, <2>3
  <2>4. CASE j = i /\ p = Null /\ n = Null
    <3>1. pos[u] = 0 /\ pos[u] + 1 = Cardinality(Group(H, i))
      BY <1>5, <1>9, <2>4 DEF Placed
    <3>2. Cardinality(Group(G, i)) = 0
      BY <1>7, <1>8, <3>1
    <3> QED BY <1>4, <2>1, <2>4, <3>2
  <2>5. CASE j = i /\ ~(p = Null /\ n = Null)
    <3>1. (((Cardinality(Group(G, j)) + 1) % CountLimit) - 1) % CountLimit
             = Cardinality(Group(G, j)) % CountLimit
      BY <1>8, <2>1, CountDown
    <3> QED BY <1>4, <1>7, <2>2, <2>5, <3>1
  <2> QED BY <2>3, <2>4, <2>5
<1>19. Placed(m, G, new)
  BY <1>13, <1>14, <1>15, <1>16, <1>17, <1>18 DEF Placed
<1> QED BY <1>6, <1>19 DEF InOrder, m, G
-----------------------------------------------------------------------------
\* What Add and Remove keep.
Linked(l, H) == LinksType(l) /\ Matched(l, H) /\ InOrder(l, H)

LEMMA AddKeepsLinked ==
    ASSUME NEW l, NEW H \in SUBSET Users, NEW u \in Users \ H, Linked(l, H)
    PROVE  Linked(Added(l, u), H \cup {u})
BY AddKeepsMatched, AddKeepsOrder DEF Linked

LEMMA RemoveKeepsLinked ==
    ASSUME NEW l, NEW H \in SUBSET Users, NEW u \in H, Linked(l, H)
    PROVE  Linked(Removed(l, u), H \ {u})
BY RemoveKeepsMatched, RemoveKeepsOrder DEF Linked

HashInv == conn \in [Users -> States] /\ Linked(Links, Hashed)

\* The primed forms of Links and Hashed, in terms of IsLinks.
LEMMA LinksAfter ==
    ASSUME NEW l, NEW H, IsLinks(l), conn' \in [Users -> States],
           H = {v \in Users : conn'[v] = "hashed"}, Linked(l, H)
    PROVE  HashInv'
<1>1. Links'.first = l.first /\ Links'.count = l.count /\ Links'.next = l.next /\ Links'.prev = l.prev
  BY DEF IsLinks, Links
<1>2. Hashed' = H
  BY DEF Hashed
<1>3. LinksType(Links')
  BY <1>1 DEF LinksType, Linked
<1>4. Matched(Links', H)
  BY <1>1 DEF Matched, Linked
<1>5. InOrder(Links', H)
  <2>1. PICK pos \in [Users -> Nat] : Placed(l, H, pos)
    BY DEF Linked, InOrder
  <2>2. Placed(Links', H, pos)
    BY <1>1, <2>1 DEF Placed
  <2> QED BY <2>2 DEF InOrder
<1>6. Linked(Links', H)
  BY <1>3, <1>4, <1>5 DEF Linked
<1> QED BY <1>2, <1>6 DEF HashInv

LEMMA LinksUnchanged ==
    ASSUME HashInv, UNCHANGED links, conn' \in [Users -> States],
           \A v \in Users : (conn'[v] = "hashed") <=> (conn[v] = "hashed")
    PROVE  HashInv'
<1>1. IsLinks(Links)
  BY DEF IsLinks, Links, links
<1>2. Hashed = {v \in Users : conn'[v] = "hashed"}
  BY DEF Hashed
<1> QED BY <1>1, <1>2, LinksAfter DEF HashInv

LEMMA HashInit == Init => HashInv
<1> SUFFICES ASSUME Init PROVE HashInv
    OBVIOUS
<1>1. Hashed = {}
  BY DEF Init, Hashed
<1>2. 0 \in 0 .. CountLimit - 1
  BY HashAssumption
<1>3. LinksType(Links) /\ Matched(Links, Hashed) /\ conn \in [Users -> States]
  BY <1>1, <1>2 DEF Init, LinksType, Matched, Links, States
<1>4. Placed(Links, Hashed, [u \in Users |-> 0])
  <2>1. \A i : Group(Hashed, i) = {}
    BY <1>1 DEF Group
  <2>2. \A i : Cardinality(Group(Hashed, i)) = 0
    BY <2>1, FS_EmptySet
  <2>3. 0 % CountLimit = 0
    BY HashAssumption
  <2> QED BY <1>1, <2>2, <2>3 DEF Init, Placed, Links
<1> QED BY <1>3, <1>4 DEF HashInv, Linked, InOrder

\* One user leaves the lists.
LEMMA CloseStep ==
    ASSUME HashInv, NEW u \in Hashed, conn' = [conn EXCEPT ![u] = "closed"],
           IsLinks(Removed(Links, u))
    PROVE  HashInv'
<1>1. u \in Users /\ Hashed \in SUBSET Users
  BY DEF Hashed
<1>2. Linked(Removed(Links, u), Hashed \ {u})
  BY <1>1, RemoveKeepsLinked DEF HashInv
<1>3. conn' \in [Users -> States]
  BY <1>1 DEF HashInv, States
<1>4. Hashed \ {u} = {v \in Users : conn'[v] = "hashed"}
  BY <1>1 DEF HashInv, Hashed
<1> QED BY <1>2, <1>3, <1>4, LinksAfter

\* One user enters them.
LEMMA EnterStep ==
    ASSUME HashInv, NEW u \in Users \ Hashed, conn' = [conn EXCEPT ![u] = "hashed"],
           IsLinks(Added(Links, u))
    PROVE  HashInv'
<1>1. Hashed \in SUBSET Users
  BY DEF Hashed
<1>2. Linked(Added(Links, u), Hashed \cup {u})
  BY <1>1, AddKeepsLinked DEF HashInv
<1>3. conn' \in [Users -> States]
  BY DEF HashInv, States
<1>4. Hashed \cup {u} = {v \in Users : conn'[v] = "hashed"}
  BY DEF HashInv, Hashed
<1> QED BY <1>2, <1>3, <1>4, LinksAfter

LEMMA HashStep == HashInv /\ [Next]_vars => HashInv'
<1> SUFFICES ASSUME HashInv, [Next]_vars PROVE HashInv'
    OBVIOUS
<1>1. conn \in [Users -> States] /\ Hashed \in SUBSET Users
  BY DEF HashInv, Hashed
<1>2. ASSUME NEW u \in Users, Refuse(u) PROVE HashInv'
  BY <1>1, <1>2, LinksUnchanged DEF Refuse, States
<1>3. ASSUME NEW u \in Users, Validate(u) PROVE HashInv'
  <2>1. u \notin Hashed
    BY <1>3 DEF Validate, Hashed
  <2> QED BY <1>3, <2>1, EnterStep DEF Validate
<1>4. ASSUME NEW u \in Users, AskGhostPassword(u) PROVE HashInv'
  BY <1>1, <1>4, LinksUnchanged DEF AskGhostPassword, States
<1>5. ASSUME NEW u \in Users, MyPass(u) PROVE HashInv'
  <2>1. u \notin Hashed
    BY <1>5 DEF MyPass, Hashed
  <2>2. ASSUME NEW ghost \in Hashed,
               conn' = [conn EXCEPT ![ghost] = "closed", ![u] = "hashed"],
               IsLinks(Added(Removed(Links, ghost), u))
        PROVE  HashInv'
    <3>1. Linked(Removed(Links, ghost), Hashed \ {ghost})
      BY <1>1, RemoveKeepsLinked DEF HashInv
    <3>2. u \in Users \ (Hashed \ {ghost}) /\ Hashed \ {ghost} \in SUBSET Users
      BY <1>1, <2>1
    <3>3. Linked(Added(Removed(Links, ghost), u), (Hashed \ {ghost}) \cup {u})
      BY <3>1, <3>2, AddKeepsLinked
    <3>4. conn' \in [Users -> States]
      BY <1>1, <2>2 DEF States
    <3>5. (Hashed \ {ghost}) \cup {u} = {v \in Users : conn'[v] = "hashed"}
      BY <1>1, <2>1, <2>2 DEF Hashed
    <3> QED BY <2>2, <3>3, <3>4, <3>5, LinksAfter
  <2>3. ASSUME conn' = [conn EXCEPT ![u] = "hashed"], IsLinks(Added(Links, u)) PROVE HashInv'
    BY <2>1, <2>3, EnterStep
  <2> QED BY <1>5, <2>2, <2>3 DEF MyPass
<1>6. ASSUME NEW u \in Users, Close(u) PROVE HashInv'
  <2>1. CASE u \in Hashed
    BY <1>6, <2>1, CloseStep DEF Close
  <2>2. CASE u \notin Hashed
    <3>1. UNCHANGED links /\ conn' = [conn EXCEPT ![u] = "closed"]
      BY <1>6, <2>2 DEF Close
    <3>2. conn[u] # "hashed"
      BY <2>2 DEF Hashed
    <3>3. conn' \in [Users -> States]
      BY <1>1, <3>1 DEF States
    <3>4. \A v \in Users : (conn'[v] = "hashed") <=> (conn[v] = "hashed")
      BY <1>1, <3>1, <3>2
    <3> QED BY <3>1, <3>3, <3>4, LinksUnchanged
  <2> QED BY <2>1, <2>2
<1>7. ASSUME NEW i \in Ips, BeginWalk(i) PROVE HashInv'
  BY <1>1, <1>7, LinksUnchanged DEF BeginWalk
<1>8. CASE CloseNext
  <2> DEFINE u == walk.at
  <2>1. CASE PassOver(u)
    BY <1>1, <2>1, LinksUnchanged DEF PassOver
  <2>2. CASE CloseBanned(u)
    BY <2>2, CloseStep DEF CloseBanned
  <2>3. ASSUME NEW v \in Users, CloseBannedAndOther(u, v) PROVE HashInv'
    <3>0. PICK w : w = u
      OBVIOUS
    <3>1. /\ w \in Hashed /\ v \in Hashed \ {w}
          /\ conn' = [conn EXCEPT ![w] = "closed", ![v] = "closed"]
          /\ IsLinks(Removed(Removed(Links, w), v))
      BY <2>3, <3>0 DEF CloseBannedAndOther
    <3> HIDE DEF u
    <3>2. Linked(Removed(Links, w), Hashed \ {w})
      BY <1>1, <3>1, RemoveKeepsLinked DEF HashInv
    <3>3. Hashed \ {w} \in SUBSET Users
      BY <1>1
    <3>4. Linked(Removed(Removed(Links, w), v), (Hashed \ {w}) \ {v})
      BY <3>1, <3>2, <3>3, RemoveKeepsLinked
    <3>5. conn' \in [Users -> States]
      BY <1>1, <3>1 DEF States
    <3>6. (Hashed \ {w}) \ {v} = {x \in Users : conn'[x] = "hashed"}
      BY <1>1, <3>1 DEF Hashed
    <3> QED BY <3>1, <3>4, <3>5, <3>6, LinksAfter
  <2> QED BY <1>8, <2>1, <2>2, <2>3 DEF CloseNext
<1>9. CASE EndWalk
  BY <1>1, <1>9, LinksUnchanged DEF EndWalk
<1>10. CASE UNCHANGED vars
  BY <1>1, <1>10, LinksUnchanged DEF vars, links
<1> QED BY <1>2, <1>3, <1>4, <1>5, <1>6, <1>7, <1>8, <1>9, <1>10 DEF Next

\* HashManager::Add and Remove keep the lists linking exactly the users that
\* are hashed, in every interleaving of logins, ghosts, closes and walks.
THEOREM LinksCorrect == Spec => []LinksMatch
<1>1. HashInv => LinksMatch
  BY DEF HashInv, Linked, LinksMatch
<1> QED BY HashInit, HashStep, <1>1, PTL DEF Spec

\* The walk from the head visits the users in the order of their places.
LEMMA WalkMeetsAll ==
    ASSUME HashInv, NEW i \in Ips, NEW S \in SUBSET Users, Keeps(i, S)
    PROVE  OnIp(i) \subseteq S
<1>1. PICK pos \in [Users -> Nat] : Placed(Links, Hashed, pos)
  BY DEF HashInv, Linked, InOrder
<1>2. Matched(Links, Hashed) /\ Links.first = first /\ Links.next = next /\ Links.prev = prev
  BY DEF HashInv, Linked, Links
<1> DEFINE Missed(k) == \E u \in OnIp(i) \ S : pos[u] = k
           Bad == {k \in Nat : Missed(k)}
           R == OpToRel(<, Nat)
<1>3. Bad = {}
  <2> SUFFICES ASSUME Bad # {} PROVE FALSE
    OBVIOUS
  <2>1. PICK k \in Bad : \A j \in Bad : ~ (<<j, k>> \in R)
    <3>1. IsWellFoundedOn(R, Nat) /\ Bad \subseteq Nat
      BY NatLessThanWellFounded
    <3> HIDE DEF R, Bad
    <3> QED BY <3>1, WFMin
  <2>2. PICK u \in OnIp(i) \ S : pos[u] = k
    OBVIOUS
  <2>3. u \in Hashed /\ IpOf[u] = i /\ u \in Users
    BY DEF OnIp, Hashed
  <2>4. prev[u] # Null
    <3> SUFFICES ASSUME prev[u] = Null PROVE FALSE
      OBVIOUS
    <3>1. first[i] = u
      BY <1>2, <2>3 DEF Matched
    <3> QED BY <2>2, <2>3, <3>1, HashAssumption DEF Keeps
  <2>5. prev[u] \in Hashed /\ IpOf[prev[u]] = i /\ next[prev[u]] = u /\ pos[u] = pos[prev[u]] + 1
    BY <1>1, <1>2, <2>3, <2>4 DEF Matched, Placed
  <2>6. prev[u] \in S => u \in S
    BY <2>3, <2>5, HashAssumption DEF Keeps
  <2>7. prev[u] \in OnIp(i) \ S /\ prev[u] \in Users
    BY <2>2, <2>5, <2>6 DEF OnIp, Hashed
  <2>8. pos[prev[u]] \in Bad /\ pos[prev[u]] < k /\ k \in Nat
    BY <2>2, <2>5, <2>7
  <2>9. <<pos[prev[u]], k>> \in R
    BY <2>8 DEF OpToRel
  <2> QED BY <2>1, <2>8, <2>9
<1> QED BY <1>3 DEF OnIp, Hashed

\* HashManager::FindUser(ip) and the walks over an address meet its users and
\* nobody else, and m_ui16Count is their number, as far as it is wide, after any
\* Add and Remove.
THEOREM ListsAreExact == Spec => []ListExact
<1>1. HashInv => ListExact
  <2> SUFFICES ASSUME HashInv, NEW i \in Ips
               PROVE  Met(i) = OnIp(i) /\ count[i] = Cardinality(OnIp(i)) % CountLimit
    BY DEF ListExact
  <2>1. PICK pos \in [Users -> Nat] : Placed(Links, Hashed, pos)
    BY DEF HashInv, Linked, InOrder
  <2>2. count[i] = Cardinality(OnIp(i)) % CountLimit
    BY <2>1 DEF Placed, Links, Group, OnIp
  <2>3. OnIp(i) \subseteq Met(i)
    BY WalkMeetsAll DEF Met, OnIp, Hashed
  <2>4. Keeps(i, OnIp(i)) /\ OnIp(i) \in SUBSET Users
    BY DEF HashInv, Linked, Matched, Links, Keeps, OnIp, Hashed
  <2>5. Met(i) \subseteq OnIp(i)
    BY <2>4 DEF Met
  <2> QED BY <2>2, <2>3, <2>5
<1> QED BY HashInit, HashStep, <1>1, PTL DEF Spec
-----------------------------------------------------------------------------
\* The walk of CloseIpBannedUsers.

\* Whoever goes on from a along the links of l stays in S.
Stays(l, a, S) ==
    /\ a # Null => a \in S
    /\ \A u \in S : l.next[u] # Null => l.next[u] \in S

\* Those that are met from a on.
Ahead(l, a) == {x \in Users : \A S \in SUBSET Users : Stays(l, a, S) => x \in S}

\* Nobody else drops out of the walk when a user that it has not come to is
\* unlinked, or the one it is at, if it goes on from that one's next user.
LEMMA AheadAfterRemove ==
    ASSUME NEW l, NEW H \in SUBSET Users, NEW u \in H, LinksType(l), Matched(l, H),
           NEW a, NEW x \in Ahead(l, a), x # u
    PROVE  x \in Ahead(Removed(l, u), IF a = u THEN l.next[u] ELSE a)
<1> DEFINE m == Removed(l, u)
           b == IF a = u THEN l.next[u] ELSE a
<1> SUFFICES ASSUME NEW S \in SUBSET Users, Stays(m, b, S) PROVE x \in S
  BY DEF Ahead
<1>1. Null \notin Users /\ u \in Users
  BY HashAssumption
<1>2. \A v \in Users : m.next[v] = IF v = u THEN Null
                                   ELSE IF v = l.prev[u] THEN l.next[u] ELSE l.next[v]
  BY DEF Removed, LinksType
<1>3. \A v \in Users : l.next[v] = u => v = l.prev[u]
  BY <1>1 DEF Matched
<1>4. b = IF a = u THEN l.next[u] ELSE a
  OBVIOUS
<1> HIDE DEF m, b
<1>5. CASE a = u \/ l.prev[u] \in S
  <2>1. l.next[u] # Null => l.next[u] \in S
    <3>1. CASE a = u
      BY <1>4, <3>1 DEF Stays
    <3>2. CASE a # u /\ l.prev[u] \in S
      <4>1. CASE l.prev[u] = u
        <5>1. l.prev[u] # Null /\ l.next[l.prev[u]] = u
          BY <1>1, <4>1 DEF Matched
        <5> QED BY <3>2, <4>1, <5>1
      <4>2. CASE l.prev[u] # u
        <5>1. m.next[l.prev[u]] = l.next[u]
          BY <1>2, <3>2, <4>2
        <5> QED BY <3>2, <5>1 DEF Stays
      <4> QED BY <4>1, <4>2
    <3> QED BY <1>5, <3>1, <3>2
  <2>2. Stays(l, a, S \cup {u})
    <3>1. a # Null => a \in S \cup {u}
      BY <1>4 DEF Stays
    <3>2. ASSUME NEW v \in S \cup {u}, l.next[v] # Null PROVE l.next[v] \in S \cup {u}
      <4>1. CASE v = u
        BY <2>1, <3>2, <4>1
      <4>2. CASE v # u /\ v = l.prev[u]
        <5>1. l.next[v] = u
          BY <1>1, <4>2, <3>2 DEF Matched
        <5> QED BY <5>1
      <4>3. CASE v # u /\ v # l.prev[u]
        <5>1. v \in S /\ m.next[v] = l.next[v]
          BY <1>2, <3>2, <4>3
        <5> QED BY <3>2, <5>1 DEF Stays
      <4> QED BY <4>1, <4>2, <4>3
    <3> QED BY <3>1, <3>2 DEF Stays
  <2>3. S \cup {u} \in SUBSET Users
    BY <1>1
  <2> QED BY <2>2, <2>3 DEF Ahead
<1>6. CASE a # u /\ l.prev[u] \notin S
  <2>1. Stays(l, a, S \ {u})
    <3>1. a # Null => a \in S \ {u}
      BY <1>4, <1>6 DEF Stays
    <3>2. ASSUME NEW v \in S \ {u}, l.next[v] # Null PROVE l.next[v] \in S \ {u}
      <4>1. v # l.prev[u] /\ v \in Users /\ m.next[v] = l.next[v]
        BY <1>2, <1>6
      <4>2. l.next[v] # u
        BY <1>3, <4>1
      <4> QED BY <3>2, <4>1, <4>2 DEF Stays
    <3> QED BY <3>1, <3>2 DEF Stays
  <2>2. S \ {u} \in SUBSET Users
    OBVIOUS
  <2> QED BY <2>1, <2>2 DEF Ahead
<1> QED BY <1>5, <1>6

\* As long as no script has closed the very user that is next, all who have to
\* go are still ahead.
AllAhead == Walking /\ ~walk.cut => OnIp(walk.ip) \ Exempt \subseteq Ahead(Links, walk.at)

WalkType == walk \in [ip : Ips \cup {Null}, at : Users \cup {Null}, cut : BOOLEAN]

WalkInv == HashInv /\ WalkType /\ AllAhead

LEMMA PassOverStep ==
    ASSUME WalkInv, Walking, NEW u \in Users, u = walk.at, PassOver(u)
    PROVE  WalkType' /\ AllAhead'
<1>1. /\ u \in Exempt \/ u \notin Hashed
      /\ walk' = [walk EXCEPT !.at = next[u]] /\ UNCHANGED <<conn, links>>
  BY DEF PassOver
<1>2. next[u] \in Users \cup {Null}
  BY DEF WalkInv, HashInv, Linked, LinksType, Links
<1>3. WalkType' /\ walk'.ip = walk.ip /\ walk'.at = next[u] /\ walk'.cut = walk.cut
  BY <1>1, <1>2 DEF WalkInv, WalkType
<1>4. Links' = Links /\ Hashed' = Hashed /\ Links.next = next
  BY <1>1 DEF Links, links, Hashed
<1>5. ASSUME ~walk.cut, NEW x \in OnIp(walk.ip) \ Exempt PROVE x \in Ahead(Links, next[u])
  <2>1. x \in Ahead(Links, u) /\ x # u /\ x \in Users
    BY <1>1, <1>5 DEF WalkInv, AllAhead, OnIp, Hashed
  <2>2. ASSUME NEW S \in SUBSET Users, Stays(Links, next[u], S) PROVE x \in S
    <3>1. Stays(Links, u, S \cup {u}) /\ S \cup {u} \in SUBSET Users
      BY <1>4, <2>2 DEF Stays
    <3>2. x \in S \cup {u}
      BY <2>1, <3>1 DEF Ahead
    <3> QED BY <2>1, <3>2
  <2> QED BY <2>1, <2>2 DEF Ahead
<1>6. OnIp(walk.ip)' = OnIp(walk.ip)
  BY <1>3, <1>4 DEF OnIp
<1>7. AllAhead'
  BY <1>3, <1>4, <1>5, <1>6 DEF AllAhead, Walking
<1> QED BY <1>3, <1>7

LEMMA CloseBannedStep ==
    ASSUME WalkInv, Walking, NEW u \in Users, u = walk.at, CloseBanned(u)
    PROVE  WalkType' /\ AllAhead'
<1>1. /\ u \in Hashed /\ conn' = [conn EXCEPT ![u] = "closed"]
      /\ IsLinks(Removed(Links, u)) /\ walk' = [walk EXCEPT !.at = next[u]]
  BY DEF CloseBanned, GoOn
<1>2. next[u] \in Users \cup {Null} /\ LinksType(Links) /\ Matched(Links, Hashed)
      /\ Hashed \in SUBSET Users /\ Links.next = next
  BY DEF WalkInv, HashInv, Linked, LinksType, Links, Hashed
<1>3. WalkType' /\ walk'.ip = walk.ip /\ walk'.at = next[u] /\ walk'.cut = walk.cut
  BY <1>1, <1>2 DEF WalkInv, WalkType
<1>4. Links'.next = Removed(Links, u).next /\ Hashed' = Hashed \ {u}
  BY <1>1 DEF Links, IsLinks, Hashed, WalkInv, HashInv
<1>5. ASSUME ~walk.cut, NEW x \in OnIp(walk.ip)' \ Exempt PROVE x \in Ahead(Links', next[u])
  <2>1. x \in OnIp(walk.ip) \ Exempt /\ x # u
    BY <1>3, <1>4, <1>5 DEF OnIp
  <2>2. x \in Ahead(Links, u)
    BY <1>5, <2>1 DEF WalkInv, AllAhead
  <2>3. x \in Ahead(Removed(Links, u), next[u])
    BY <1>1, <1>2, <2>1, <2>2, AheadAfterRemove
  <2> QED BY <1>4, <2>3 DEF Ahead, Stays
<1>6. AllAhead'
  BY <1>3, <1>5 DEF AllAhead, Walking
<1> QED BY <1>3, <1>6

LEMMA CloseOtherStep ==
    ASSUME WalkInv, Walking, NEW u \in Users, u = walk.at, NEW v \in Users,
           CloseBannedAndOther(u, v)
    PROVE  WalkType' /\ AllAhead'
<1>1. /\ u \in Hashed /\ v \in Hashed \ {u}
      /\ conn' = [conn EXCEPT ![u] = "closed", ![v] = "closed"]
      /\ IsLinks(Removed(Removed(Links, u), v))
      /\ walk' = [walk EXCEPT !.at = next[u], !.cut = walk.cut \/ v = next[u]]
  BY DEF CloseBannedAndOther, GoOn
<1>2. next[u] \in Users \cup {Null} /\ LinksType(Links) /\ Matched(Links, Hashed)
      /\ Hashed \in SUBSET Users /\ Links.next = next
  BY DEF WalkInv, HashInv, Linked, LinksType, Links, Hashed
<1>3. LinksType(Removed(Links, u)) /\ Matched(Removed(Links, u), Hashed \ {u})
  BY <1>1, <1>2, RemoveKeepsMatched
<1>4. /\ WalkType' /\ walk'.ip = walk.ip /\ walk'.at = next[u]
      /\ walk'.cut = (walk.cut \/ v = next[u])
  BY <1>1, <1>2 DEF WalkInv, WalkType
<1>5. Links'.next = Removed(Removed(Links, u), v).next /\ Hashed' = (Hashed \ {u}) \ {v}
  BY <1>1 DEF Links, IsLinks, Hashed, WalkInv, HashInv
<1>6. ASSUME ~walk.cut, v # next[u], NEW x \in OnIp(walk.ip)' \ Exempt
      PROVE  x \in Ahead(Links', next[u])
  <2>1. x \in OnIp(walk.ip) \ Exempt /\ x # u /\ x # v
    BY <1>4, <1>5, <1>6 DEF OnIp
  <2>2. x \in Ahead(Links, u)
    BY <1>6, <2>1 DEF WalkInv, AllAhead
  <2>3. x \in Ahead(Removed(Links, u), next[u])
    BY <1>1, <1>2, <2>1, <2>2, AheadAfterRemove
  <2>4. v \in Hashed \ {u} /\ Hashed \ {u} \in SUBSET Users
    BY <1>1, <1>2
  <2> DEFINE l == Removed(Links, u)
  <2>5. LinksType(l) /\ Matched(l, Hashed \ {u}) /\ x \in Ahead(l, next[u])
    BY <1>3, <2>3
  <2> HIDE DEF l
  <2>6. x \in Ahead(Removed(l, v), next[u])
    BY <1>6, <2>1, <2>4, <2>5, AheadAfterRemove
  <2>7. Links'.next = Removed(l, v).next
    BY <1>5 DEF l
  <2> QED BY <2>6, <2>7 DEF Ahead, Stays
<1>7. AllAhead'
  BY <1>4, <1>6 DEF AllAhead, Walking
<1> QED BY <1>4, <1>7

LEMMA WalkStep == WalkInv /\ [Next]_vars => WalkInv'
<1> SUFFICES ASSUME WalkInv, [Next]_vars PROVE WalkType' /\ AllAhead'
  BY HashStep DEF WalkInv
<1>1. CASE UNCHANGED walk /\ ~Walking
  BY <1>1 DEF WalkInv, WalkType, AllAhead, Walking
<1>2. ASSUME NEW i \in Ips, BeginWalk(i) PROVE WalkType' /\ AllAhead'
  <2>1. /\ walk' = [ip |-> i, at |-> first[i], cut |-> FALSE]
        /\ UNCHANGED <<conn, links>>
    BY <1>2 DEF BeginWalk, NoWalk
  <2>2. first[i] \in Users \cup {Null}
    BY DEF WalkInv, HashInv, Linked, LinksType, Links
  <2>3. WalkType'
    BY <2>1, <2>2 DEF WalkType
  <2>4. Links' = Links /\ OnIp(i)' = OnIp(i) /\ Links.next = next
    BY <2>1 DEF Links, links, OnIp, Hashed
  <2>5. OnIp(i) \subseteq Ahead(Links, first[i])
    <3> SUFFICES ASSUME NEW x \in OnIp(i), NEW S \in SUBSET Users, Stays(Links, first[i], S)
                 PROVE  x \in S
      BY DEF Ahead, OnIp, Hashed
    <3>1. Keeps(i, S)
      BY <2>4 DEF Keeps, Stays
    <3> QED BY <3>1, WalkMeetsAll DEF WalkInv
  <2>6. walk'.ip = i /\ walk'.at = first[i]
    BY <2>1
  <2>7. OnIp(walk.ip)' = OnIp(i)
    BY <2>4, <2>6 DEF OnIp
  <2>8. AllAhead'
    BY <2>4, <2>5, <2>6, <2>7 DEF AllAhead
  <2> QED BY <2>3, <2>8
<1>3. CASE CloseNext
  <2>1. PICK u \in Users : /\ u = walk.at /\ Walking
                           /\ \/ PassOver(u) \/ CloseBanned(u)
                              \/ \E v \in Users : CloseBannedAndOther(u, v)
    BY <1>3 DEF CloseNext
  <2> QED BY <2>1, PassOverStep, CloseBannedStep, CloseOtherStep
<1>4. CASE EndWalk
  <2>1. walk' = [ip |-> Null, at |-> Null, cut |-> FALSE]
    BY <1>4 DEF EndWalk, NoWalk
  <2> QED BY <2>1 DEF WalkType, AllAhead, Walking
<1>5. CASE UNCHANGED vars
  <2>1. Links' = Links /\ Hashed' = Hashed /\ walk' = walk
    BY <1>5 DEF vars, links, Links, Hashed
  <2> QED BY <2>1 DEF WalkInv, WalkType, AllAhead, Walking, OnIp
<1>6. ASSUME NEW u \in Users,
             Refuse(u) \/ Validate(u) \/ AskGhostPassword(u) \/ MyPass(u) \/ Close(u)
      PROVE  UNCHANGED walk /\ ~Walking
  BY <1>6 DEF Refuse, Validate, AskGhostPassword, MyPass, Close
<1> QED BY <1>1, <1>2, <1>3, <1>4, <1>5, <1>6 DEF Next

\* When the walk of HubCommands::CloseIpBannedUsers ends, every user of the
\* address is gone that is not exempt, unless a script has closed the one user
\* that the walk was to visit next.
THEOREM WalkCorrect == Spec => WalkClosesAll
<1>1. Init => WalkInv
  <2>1. Init => WalkType /\ AllAhead
    BY DEF Init, NoWalk, WalkType, AllAhead, Walking
  <2> QED BY <2>1, HashInit DEF WalkInv
<1>2. WalkInv /\ [Next]_vars =>
        [Walking /\ ~Walking' /\ ~walk.cut => OnIp(walk.ip) \subseteq Exempt]_vars
  <2> SUFFICES ASSUME WalkInv, [Next]_vars, Walking, ~Walking', ~walk.cut
               PROVE  OnIp(walk.ip) \subseteq Exempt
    OBVIOUS
  <2>1. ~UNCHANGED walk
    BY DEF Walking
  <2>2. ~CloseNext
    <3>1. \A u \in Users : PassOver(u) \/ CloseBanned(u) => walk'.ip = walk.ip
      BY DEF PassOver, CloseBanned, WalkInv, WalkType
    <3>2. \A u \in Users, v \in Users :
             CloseBannedAndOther(u, v) => walk'.ip = walk.ip
      BY DEF CloseBannedAndOther, WalkInv, WalkType
    <3> QED BY <3>1, <3>2 DEF CloseNext, Walking
  <2>3. walk.at = Null
    BY <2>1, <2>2 DEF Next, vars, Refuse, Validate, AskGhostPassword, MyPass, Close,
                      BeginWalk, EndWalk
  <2>4. Stays(Links, Null, {}) /\ {} \in SUBSET Users
    BY DEF Stays
  <2>5. Ahead(Links, Null) = {}
    BY <2>4 DEF Ahead
  <2> QED BY <2>3, <2>5 DEF WalkInv, AllAhead
<1> QED BY <1>1, <1>2, WalkStep, PTL DEF Spec, WalkClosesAll
=============================================================================
