--------------------------- MODULE BanManager_proof ---------------------------
(***************************************************************************)
(* Theorems about BanManager, for any addresses, nicks and ranges and any  *)
(* number of bans.                                                         *)
(***************************************************************************)
EXTENDS BanManager, FiniteSetTheorems, SequenceTheorems, TLAPS

\* A set that holds 0, and n + 1 with n, holds every natural.
LEMMA EveryNatural ==
    ASSUME NEW N, 0 \in N, \A n \in Nat : n \in N => n + 1 \in N
    PROVE  Nat \subseteq N
<1> DEFINE R == OpToRel(<, Nat)
           T == Nat \ N
<1> SUFFICES ASSUME T # {} PROVE FALSE
  OBVIOUS
<1>1. IsWellFoundedOn(R, Nat)
  BY NatLessThanWellFounded
<1>2. \E x \in T : \A y \in T : ~ (<<y, x>> \in R)
  <2> HIDE DEF R
  <2> QED BY <1>1, WFMin
<1>3. PICK x \in T : \A y \in T : ~ (<<y, x>> \in R)
  BY <1>2
<1>4. x \in Nat /\ x # 0
  OBVIOUS
<1>5. x - 1 \in Nat /\ x - 1 < x /\ (x - 1) + 1 = x
  BY <1>4
<1>6. x - 1 \notin T
  BY <1>3, <1>4, <1>5 DEF OpToRel
<1>7. x - 1 \in N
  BY <1>5, <1>6
<1>8. x \in N
  BY <1>5, <1>7
<1> QED BY <1>3, <1>8

\* The positions of a set can be put in order ...
Ordered(S, p) ==
    /\ p \in [1 .. Cardinality(S) -> S]
    /\ \A i, j \in 1 .. Cardinality(S) : i < j => p[i] < p[j]

LEMMA PositionsFinite ==
    ASSUME NEW n \in Nat, NEW S \in SUBSET (1 .. n)
    PROVE  IsFiniteSet(S) /\ Cardinality(S) \in Nat
<1>1. IsFiniteSet(1 .. n)
  BY FS_Interval
<1> QED BY <1>1, FS_Subset, FS_CardinalityType

LEMMA OrderExists ==
    ASSUME NEW n \in Nat, NEW S \in SUBSET (1 .. n)
    PROVE  \E p : Ordered(S, p)
<1> DEFINE N == {k \in Nat : \A Q \in SUBSET (1 .. k) : \E p : Ordered(Q, p)}
<1>1. 0 \in N
  <2> SUFFICES ASSUME NEW Q \in SUBSET (1 .. 0) PROVE \E p : Ordered(Q, p)
    OBVIOUS
  <2>2. 1 .. 0 = {}
    OBVIOUS
  <2>1. Q = {} /\ Cardinality(Q) = 0
    BY <2>2, FS_EmptySet
  <2>3. Ordered(Q, [i \in 1 .. 0 |-> i])
    BY <2>1, <2>2 DEF Ordered
  <2> QED BY <2>3
<1>2. ASSUME NEW k \in Nat, k \in N PROVE k + 1 \in N
  <2> SUFFICES ASSUME NEW Q \in SUBSET (1 .. k + 1) PROVE \E p : Ordered(Q, p)
    OBVIOUS
  <2> DEFINE Less == Q \ {k + 1}
             m == Cardinality(Less)
  <2>1. Less \in SUBSET (1 .. k)
    OBVIOUS
  <2>2. PICK q : Ordered(Less, q)
    BY <1>2, <2>1
  <2>3. CASE k + 1 \notin Q
    <3>1. Less = Q
      BY <2>3
    <3> QED BY <2>2, <3>1
  <2>4. CASE k + 1 \in Q
    <3>1. IsFiniteSet(Less) /\ m \in Nat
      BY <2>1, PositionsFinite
    <3>2. Q = Less \cup {k + 1} /\ k + 1 \notin Less
      BY <2>4
    <3>3. Cardinality(Q) = m + 1
      BY <3>1, <3>2, FS_AddElement
    <3> DEFINE p == [i \in 1 .. m + 1 |-> IF i = m + 1 THEN k + 1 ELSE q[i]]
    <3>4. \A i \in 1 .. m : q[i] \in Less /\ q[i] < k + 1
      <4> SUFFICES ASSUME NEW i \in 1 .. m PROVE q[i] \in Less /\ q[i] < k + 1
        OBVIOUS
      <4>1. q[i] \in Less
        BY <2>2 DEF Ordered
      <4>2. q[i] \in 1 .. k
        BY <2>1, <4>1
      <4> QED BY <4>1, <4>2
    <3>5. p \in [1 .. m + 1 -> Q]
      <4> SUFFICES ASSUME NEW i \in 1 .. m + 1 PROVE p[i] \in Q
        OBVIOUS
      <4>1. CASE i = m + 1
        BY <3>2, <4>1
      <4>2. CASE i # m + 1
        <5>1. i \in 1 .. m
          BY <3>1, <4>2
        <5> QED BY <3>2, <3>4, <4>2, <5>1
      <4> QED BY <4>1, <4>2
    <3>6. ASSUME NEW i \in 1 .. m + 1, NEW j \in 1 .. m + 1, i < j PROVE p[i] < p[j]
      <4>1. i \in 1 .. m /\ p[i] = q[i]
        BY <3>1, <3>6
      <4>2. CASE j = m + 1
        BY <3>4, <4>1, <4>2
      <4>3. CASE j # m + 1
        <5>1. j \in 1 .. m /\ p[j] = q[j]
          BY <3>1, <4>3
        <5> QED BY <2>2, <3>6, <4>1, <5>1 DEF Ordered
      <4> QED BY <4>2, <4>3
    <3> QED BY <3>3, <3>5, <3>6 DEF Ordered
  <2> QED BY <2>3, <2>4
<1> HIDE DEF N
<1>3. n \in N
  BY <1>1, <1>2, EveryNatural
<1> QED BY <1>3 DEF N

\* ... and InOrder puts them so, none left out.
LEMMA InOrderOnto ==
    ASSUME NEW n \in Nat, NEW S \in SUBSET (1 .. n)
    PROVE  /\ InOrder(S) \in [1 .. Cardinality(S) -> S]
           /\ \A i \in S : \E j \in 1 .. Cardinality(S) : InOrder(S)[j] = i
<1> DEFINE m == Cardinality(S)
           p == InOrder(S)
<1>1. Ordered(S, p)
  BY OrderExists DEF Ordered, InOrder
<1>2. ASSUME NEW i \in S, \A j \in 1 .. m : p[j] # i PROVE FALSE
  <2>1. p \in [1 .. m -> S \ {i}]
    BY <1>1, <1>2 DEF Ordered
  <2>2. IsFiniteSet(S) /\ m \in Nat
    BY PositionsFinite
  <2>3. IsFiniteSet(S \ {i}) /\ Cardinality(S \ {i}) = m - 1
    BY <2>2, FS_RemoveElement
  <2>4. IsFiniteSet(1 .. m) /\ Cardinality(1 .. m) = m
    BY <2>2, FS_Interval
  <2>5. \E x, y \in 1 .. m : x # y /\ p[x] = p[y]
    <3> HIDE DEF m, p
    <3> QED BY <2>1, <2>2, <2>3, <2>4, FS_PigeonHole
  <2>6. PICK x \in 1 .. m, y \in 1 .. m : x # y /\ p[x] = p[y]
    BY <2>5
  <2>7. \A a \in 1 .. m : p[a] \in Nat
    <3>1. \A a \in 1 .. m : p[a] \in S
      BY <1>1 DEF Ordered
    <3>2. S \subseteq Nat
      OBVIOUS
    <3> QED BY <3>1, <3>2
  <2>8. CASE x < y
    BY <1>1, <2>6, <2>7, <2>8 DEF Ordered
  <2>9. CASE y < x
    BY <1>1, <2>6, <2>7, <2>9 DEF Ordered
  <2> QED BY <2>2, <2>6, <2>8, <2>9
<1> QED BY <1>1, <1>2 DEF Ordered

\* Keep leaves exactly the elements at the positions of S.
LEMMA KeepIs ==
    ASSUME NEW T, NEW s \in Seq(T), NEW S \in SUBSET DOMAIN s
    PROVE  /\ Keep(s, S) \in Seq(T)
           /\ \A j \in DOMAIN Keep(s, S) : \E i \in S : Keep(s, S)[j] = s[i]
           /\ \A i \in S : \E j \in DOMAIN Keep(s, S) : Keep(s, S)[j] = s[i]
<1> DEFINE m == Cardinality(S)
           p == InOrder(S)
           k == Keep(s, S)
<1>1. Len(s) \in Nat /\ DOMAIN s = 1 .. Len(s) /\ \A i \in DOMAIN s : s[i] \in T
  BY ElementOfSeq, LenProperties
<1>2. CASE S = DOMAIN s
  BY <1>1, <1>2 DEF Keep
<1>3. CASE S # DOMAIN s
  <2>1. /\ m \in Nat /\ p \in [1 .. m -> S]
        /\ \A i \in S : \E j \in 1 .. m : p[j] = i
    BY <1>1, InOrderOnto, PositionsFinite
  <2>2. k = [j \in 1 .. m |-> s[p[j]]]
    BY <1>3, <2>1 DEF Keep
  <2>3. k \in [1 .. m -> T]
    BY <1>1, <2>1, <2>2
  <2>4. k \in Seq(T)
    <3> HIDE DEF m, k
    <3> QED BY <2>1, <2>3, IsASeq
  <2>5. DOMAIN k = 1 .. m /\ \A j \in 1 .. m : p[j] \in S /\ k[j] = s[p[j]]
    BY <2>1, <2>2
  <2> HIDE DEF k, m, p
  <2>6. \A j \in DOMAIN k : \E i \in S : k[j] = s[i]
    BY <2>5
  <2>7. \A i \in S : \E j \in DOMAIN k : k[j] = s[i]
    BY <2>1, <2>5, SMTT(60)
  <2> QED BY <2>4, <2>6, <2>7 DEF k
<1> QED BY <1>2, <1>3

LEMMA KeepElements ==
    ASSUME NEW T, NEW s \in Seq(T), NEW S \in SUBSET DOMAIN s
    PROVE  Keep(s, S) \in Seq(T) /\ ToSet(Keep(s, S)) = {s[i] : i \in S}
<1> DEFINE k == Keep(s, S)
<1>1. /\ k \in Seq(T)
      /\ \A j \in DOMAIN k : \E i \in S : k[j] = s[i]
      /\ \A i \in S : \E j \in DOMAIN k : k[j] = s[i]
  BY KeepIs
<1> HIDE DEF k
<1>2. ToSet(k) = {s[i] : i \in S}
  BY <1>1 DEF ToSet
<1> QED BY <1>1, <1>2 DEF k
-----------------------------------------------------------------------------
\* The inductive invariant.  A ban hangs where its bits say.
Hung ==
    {b \in Bans : /\ b.at = Table(b.bits)
                  /\ "PERM" \in b.bits <=> "TEMP" \notin b.bits
                  /\ "NICK" \in b.bits <=> b.nick # Nothing
                  /\ "IP" \in b.bits <=> b.ip # Nothing
                  /\ b.bits \cap {"NICK", "IP"} # {}}
HungRanges == {b \in RangeBans : "PERM" \in b.bits <=> "TEMP" \notin b.bits}

StoreInvariant ==
    /\ now \in 1 .. LastTick
    /\ saveCalled \in 0 .. SaveEvery
    /\ bans \in Seq(Hung) /\ ranges \in Seq(HungRanges)
    /\ file \in [bans : Seq(Hung), ranges : Seq(HungRanges)]

\* A guest without memory of a ban came from an address without one.
DoorInvariant ==
    /\ guest \in Guests
    /\ guest.st = "accepted" /\ guest.memory = Unbanned => ~guest.was
    /\ guest.st \in Inside /\ guest.kind = "plain" => ~guest.was

\* A ban that is to be added: Add hangs it up.
Ready(n) == n \in Bans /\ [n EXCEPT !.at = Table(n.bits)] \in Hung

LEMMA HungFields ==
    ASSUME NEW b \in Hung
    PROVE  /\ b \in Bans /\ b.bits \in SUBSET Bits
           /\ b.ip \in Ips \cup {Nothing} /\ b.nick \in Nicks \cup {Nothing}
           /\ b.until \in 0 .. LastTick /\ b.until \in Int
           /\ b.at = Table(b.bits) /\ b.at # {}
           /\ "nicks" \in b.at <=> "NICK" \in b.bits
           /\ "ips" \in b.at <=> "IP" \in b.bits
           /\ "perm" \in b.at <=> "PERM" \in b.bits
           /\ "temp" \in b.at <=> "TEMP" \in b.bits
BY TickAssumption DEF Hung, Bans, Table

LEMMA NamelessHung ==
    ASSUME NEW b \in Hung, "IP" \in b.bits
    PROVE  /\ Nameless(b) \in Hung
           /\ Nameless(b).bits = b.bits \ {"NICK"} /\ Nameless(b).ip = b.ip
           /\ Nameless(b).until = b.until /\ Nameless(b).at = b.at \ {"nicks"}
<1> DEFINE c == Nameless(b)
<1>1. /\ c.bits = b.bits \ {"NICK"} /\ c.ip = b.ip /\ c.until = b.until
      /\ c.at = b.at \ {"nicks"} /\ c.nick = Nothing
      /\ c \in Bans
  BY DEF Hung, Bans, Nameless
<1>2. c.at = Table(c.bits)
  BY <1>1 DEF Hung, Table
<1> QED BY <1>1, <1>2 DEF Hung

LEMMA NamelessReady ==
    ASSUME NEW n, Ready(n), "IP" \in n.bits
    PROVE  /\ Ready(Nameless(n))
           /\ Nameless(n).bits = n.bits \ {"NICK"} /\ Nameless(n).ip = n.ip
           /\ Nameless(n).until = n.until
<1> DEFINE c == Nameless(n)
           h == [n EXCEPT !.at = Table(n.bits)]
<1>1. /\ c.bits = n.bits \ {"NICK"} /\ c.ip = n.ip /\ c.until = n.until
      /\ c.nick = Nothing /\ c \in Bans
  BY DEF Ready, Bans, Nameless
<1>2. h \in Hung /\ h.bits = n.bits /\ h.ip = n.ip /\ h.nick = n.nick
  BY DEF Ready, Bans
<1>3. [c EXCEPT !.at = Table(c.bits)] = Nameless(h)
  BY <1>1, <1>2, ZenonT(60) DEF Ready, Bans, Nameless, Table
<1> QED BY <1>1, <1>2, <1>3, NamelessHung DEF Ready
-----------------------------------------------------------------------------
\* Taking bans out, and hanging them up.

LEMMA SeqElements ==
    ASSUME NEW T, NEW s \in Seq(T)
    PROVE  DOMAIN s = 1 .. Len(s) /\ Len(s) \in Nat /\ \A i \in DOMAIN s : s[i] \in T
BY ElementOfSeq, LenProperties

LEMMA RemIs ==
    ASSUME NEW d \in Seq(Hung), NEW S
    PROVE  Rem(d, S) \in Seq(Hung) /\ ToSet(Rem(d, S)) = {d[i] : i \in DOMAIN d \ S}
<1> DEFINE Out(b) == [b EXCEPT !.at = @ \ Table(b.bits)]
           left == [i \in DOMAIN d |-> IF i \notin S THEN d[i] ELSE Out(d[i])]
           Q == {i \in DOMAIN left : left[i].at # {}}
<1>1. DOMAIN d = 1 .. Len(d) /\ Len(d) \in Nat /\ \A i \in DOMAIN d : d[i] \in Hung
  BY SeqElements
<1>2. \A b \in Hung : Out(b) \in Bans /\ Out(b).at = {}
  BY DEF Hung, Bans
<1>3. \A i \in DOMAIN d : left[i] \in Bans
  BY <1>1, <1>2 DEF Hung
<1>4. left \in Seq(Bans)
  BY <1>1, <1>3, IsASeq
<1>5. Q = DOMAIN d \ S
  BY <1>1, <1>2, HungFields
<1>6. DOMAIN left = DOMAIN d /\ Q \in SUBSET DOMAIN left
  OBVIOUS
<1>7. \A i \in Q : left[i] = d[i]
  BY <1>5
<1>8. Rem(d, S) = Keep(left, Q)
  BY DEF Rem
<1> HIDE DEF left, Q
<1>9. Keep(left, Q) \in Seq(Bans) /\ ToSet(Keep(left, Q)) = {left[i] : i \in Q}
  BY <1>4, <1>6, KeepElements
<1>10. ToSet(Rem(d, S)) = {d[i] : i \in DOMAIN d \ S}
  BY <1>5, <1>7, <1>8, <1>9
<1>11. \A j \in DOMAIN Rem(d, S) : Rem(d, S)[j] \in Hung
  BY <1>1, <1>10 DEF ToSet
<1>12. Rem(d, S) \in Seq(Hung)
  BY <1>8, <1>9, <1>11, SeqElements, IsASeq
<1> QED BY <1>10, <1>12

Hooked(n) == [n EXCEPT !.at = Table(n.bits)]

LEMMA AppendElements ==
    ASSUME NEW T, NEW s \in Seq(T), NEW x \in T
    PROVE  Append(s, x) \in Seq(T) /\ ToSet(Append(s, x)) = ToSet(s) \cup {x}
<1> DEFINE a == Append(s, x)
<1>1. /\ a \in Seq(T) /\ Len(a) = Len(s) + 1 /\ a[Len(a)] = x
      /\ \A i \in 1 .. Len(s) : a[i] = s[i]
  BY AppendProperties
<1>2. DOMAIN a = 1 .. Len(s) + 1 /\ DOMAIN s = 1 .. Len(s) /\ Len(s) \in Nat
  BY <1>1, LenProperties
<1> HIDE DEF a
<1>3. \A y \in ToSet(a) : y \in ToSet(s) \cup {x}
  BY <1>1, <1>2 DEF ToSet
<1>4. \A y \in ToSet(s) : y \in ToSet(a)
  BY <1>1, <1>2 DEF ToSet
<1>5. x \in ToSet(a)
  BY <1>1, <1>2 DEF ToSet
<1> QED BY <1>1, <1>3, <1>4, <1>5 DEF a

LEMMA AddIs ==
    ASSUME NEW d \in Seq(Hung), NEW n, Ready(n)
    PROVE  Add(d, n) \in Seq(Hung) /\ ToSet(Add(d, n)) = ToSet(d) \cup {Hooked(n)}
BY AppendElements DEF Add, Ready, Hooked

LEMMA ConcatElements ==
    ASSUME NEW T, NEW s \in Seq(T), NEW u \in Seq(T)
    PROVE  s \o u \in Seq(T) /\ ToSet(s \o u) = ToSet(s) \cup ToSet(u)
<1> DEFINE a == s \o u
<1>1. /\ a \in Seq(T) /\ Len(a) = Len(s) + Len(u)
      /\ \A i \in 1 .. Len(s) + Len(u) :
           a[i] = IF i <= Len(s) THEN s[i] ELSE u[i - Len(s)]
  BY ConcatProperties
<1>2. /\ DOMAIN a = 1 .. Len(s) + Len(u) /\ DOMAIN s = 1 .. Len(s) /\ DOMAIN u = 1 .. Len(u)
      /\ Len(s) \in Nat /\ Len(u) \in Nat
  BY <1>1, LenProperties
<1> HIDE DEF a
<1>3. \A y \in ToSet(a) : y \in ToSet(s) \cup ToSet(u)
  <2> SUFFICES ASSUME NEW i \in DOMAIN a PROVE a[i] \in ToSet(s) \cup ToSet(u)
    BY DEF ToSet
  <2>1. CASE i <= Len(s)
    BY <1>1, <1>2, <2>1 DEF ToSet
  <2>2. CASE ~(i <= Len(s))
    <3>1. i - Len(s) \in DOMAIN u /\ a[i] = u[i - Len(s)]
      BY <1>1, <1>2, <2>2
    <3> QED BY <3>1 DEF ToSet
  <2> QED BY <2>1, <2>2
<1>4. \A y \in ToSet(s) : y \in ToSet(a)
  <2> SUFFICES ASSUME NEW i \in DOMAIN s PROVE s[i] \in ToSet(a)
    BY DEF ToSet
  <2>1. i \in DOMAIN a /\ a[i] = s[i]
    BY <1>1, <1>2
  <2> QED BY <2>1 DEF ToSet
<1>5. \A y \in ToSet(u) : y \in ToSet(a)
  <2> SUFFICES ASSUME NEW i \in DOMAIN u PROVE u[i] \in ToSet(a)
    BY DEF ToSet
  <2>1. i + Len(s) \in DOMAIN a /\ a[i + Len(s)] = u[i]
    BY <1>1, <1>2
  <2> QED BY <2>1 DEF ToSet
<1> QED BY <1>1, <1>3, <1>4, <1>5 DEF a

\* A ban leaves its nick: the others stay where they are.
Cut(d, i) == [d EXCEPT ![i] = Nameless(@)]

LEMMA CutIs ==
    ASSUME NEW d \in Seq(Hung), NEW i \in DOMAIN d, "IP" \in d[i].bits
    PROVE  /\ Cut(d, i) \in Seq(Hung) /\ DOMAIN Cut(d, i) = DOMAIN d
           /\ Cut(d, i)[i] = Nameless(d[i])
           /\ \A j \in DOMAIN d : j # i => Cut(d, i)[j] = d[j]
<1> DEFINE c == Cut(d, i)
<1>1. DOMAIN d = 1 .. Len(d) /\ Len(d) \in Nat /\ \A j \in DOMAIN d : d[j] \in Hung
  BY SeqElements
<1>2. /\ DOMAIN c = DOMAIN d /\ c[i] = Nameless(d[i])
      /\ \A j \in DOMAIN d : j # i => c[j] = d[j]
  BY DEF Cut
<1>3. Nameless(d[i]) \in Hung
  BY <1>1, NamelessHung
<1>4. c = [j \in 1 .. Len(d) |-> c[j]] /\ \A j \in 1 .. Len(d) : c[j] \in Hung
  BY <1>1, <1>2, <1>3 DEF Cut
<1>5. c \in Seq(Hung)
  <2> HIDE DEF c
  <2> QED BY <1>1, <1>4, IsASeq
<1> QED BY <1>2, <1>5

-----------------------------------------------------------------------------
\* Protection.  A ban is made up for by one that lasts as long and is as firm.
Lasts(c, b) == "TEMP" \in c.bits => "TEMP" \in b.bits /\ b.until <= c.until
AsFirm(c, b) == "FULL" \in b.bits => "FULL" \in c.bits

IpKept(b, E) ==
    \E c \in E : "ips" \in c.at /\ c.ip = b.ip /\ Lasts(c, b) /\ AsFirm(c, b)
NickKept(b, E) ==
    \E c \in E : "nicks" \in c.at /\ c.nick = b.nick /\ Lasts(c, b)
BanKept(b, E) ==
    /\ "ips" \in b.at => IpKept(b, E)
    /\ "nicks" \in b.at => NickKept(b, E)
RangeKept(b, E) ==
    \E c \in E : c.range = b.range /\ Lasts(c, b) /\ AsFirm(c, b)

BansKept(d, d2, t) ==
    \A b \in ToSet(d) : Expired(b, t) \/ BanKept(b, ToSet(d2))
RangesKept(r, r2, t) ==
    \A b \in ToSet(r) : Expired(b, t) \/ RangeKept(b, ToSet(r2))

LEMMA LastsExpired ==
    ASSUME NEW b, NEW c, b.until \in Int, c.until \in Int, Lasts(c, b),
           NEW t \in Int, ~Expired(b, t)
    PROVE  ~Expired(c, t)
BY DEF Lasts, Expired

LEMMA ExpiredStays ==
    ASSUME NEW b, b.until \in Int, NEW t \in Int, NEW u \in Int, t <= u, Expired(b, t)
    PROVE  Expired(b, u)
BY DEF Expired

LEMMA RangeFields ==
    ASSUME NEW b \in HungRanges
    PROVE  /\ b \in RangeBans /\ b.range \in Ranges /\ b.until \in Int
           /\ b.bits \in SUBSET {"PERM", "TEMP", "FULL"}
           /\ "PERM" \in b.bits <=> "TEMP" \notin b.bits
BY TickAssumption DEF HungRanges, RangeBans

\* What is kept in this sense is covered in that of the property.
LEMMA KeptIsCovered ==
    ASSUME NEW d \in Seq(Hung), NEW d2 \in Seq(Hung),
           NEW r \in Seq(HungRanges), NEW r2 \in Seq(HungRanges),
           now \in 1 .. LastTick,
           BansKept(d, d2, now), RangesKept(r, r2, now)
    PROVE  Covered(d, r, d2, r2)
<1>0. /\ \A b \in ToSet(d) : b \in Hung
      /\ \A b \in ToSet(d2) : b \in Hung
      /\ \A b \in ToSet(r) : b \in HungRanges
      /\ \A b \in ToSet(r2) : b \in HungRanges
  BY SeqElements DEF ToSet
<1>1. ASSUME NEW b \in ToSet(d), NEW t \in now .. LastTick, ~Expired(b, t)
      PROVE  /\ "ips" \in b.at => RefusedIp(d2, r2, b.ip, t, b.bits \cap {"FULL"})
             /\ "nicks" \in b.at => RefusedNick(d2, b.nick, t)
  <2>1. b \in Hung /\ b.until \in Int /\ now \in Int /\ t \in Int /\ now <= t
    BY <1>0, HungFields, TickAssumption
  <2>2. ~Expired(b, now)
    BY <1>1, <2>1, ExpiredStays
  <2>3. BanKept(b, ToSet(d2))
    BY <2>2 DEF BansKept
  <2>4. ASSUME "ips" \in b.at PROVE RefusedIp(d2, r2, b.ip, t, b.bits \cap {"FULL"})
    <3>1. PICK c \in ToSet(d2) : /\ "ips" \in c.at /\ c.ip = b.ip
                                 /\ Lasts(c, b) /\ AsFirm(c, b)
      BY <2>3, <2>4 DEF BanKept, IpKept
    <3>2. ~Expired(c, t)
      BY <1>0, <1>1, <2>1, <3>1, HungFields, LastsExpired
    <3>3. b.bits \cap {"FULL"} \subseteq c.bits
      BY <3>1 DEF AsFirm
    <3>4. PICK i \in DOMAIN d2 : d2[i] = c
      BY DEF ToSet
    <3> QED BY <3>1, <3>2, <3>3, <3>4 DEF RefusedIp
  <2>5. ASSUME "nicks" \in b.at PROVE RefusedNick(d2, b.nick, t)
    <3>1. PICK c \in ToSet(d2) : "nicks" \in c.at /\ c.nick = b.nick /\ Lasts(c, b)
      BY <2>3, <2>5 DEF BanKept, NickKept
    <3>2. ~Expired(c, t)
      BY <1>0, <1>1, <2>1, <3>1, HungFields, LastsExpired
    <3>3. PICK i \in DOMAIN d2 : d2[i] = c
      BY DEF ToSet
    <3> QED BY <3>1, <3>2, <3>3 DEF RefusedNick
  <2> QED BY <2>4, <2>5
<1>2. ASSUME NEW b \in ToSet(r), NEW t \in now .. LastTick, ~Expired(b, t),
             NEW ip \in InRange[b.range]
      PROVE  RefusedIp(d2, r2, ip, t, b.bits \cap {"FULL"})
  <2>1. b \in HungRanges /\ b.until \in Int /\ now \in Int /\ t \in Int /\ now <= t
    BY <1>0, RangeFields, TickAssumption
  <2>2. ~Expired(b, now)
    BY <1>2, <2>1, ExpiredStays
  <2>3. PICK c \in ToSet(r2) : c.range = b.range /\ Lasts(c, b) /\ AsFirm(c, b)
    BY <2>2 DEF RangesKept, RangeKept
  <2>4. ~Expired(c, t)
    BY <1>0, <1>2, <2>1, <2>3, RangeFields, LastsExpired
  <2>5. b.bits \cap {"FULL"} \subseteq c.bits
    BY <2>3 DEF AsFirm
  <2>6. PICK i \in DOMAIN r2 : r2[i] = c
    BY DEF ToSet
  <2> QED BY <1>2, <2>3, <2>4, <2>5, <2>6 DEF RefusedIp
<1> QED BY <1>1, <1>2 DEF Covered

\* What stays is kept, and so is everything when only the expired goes.
LEMMA KeptByItself ==
    ASSUME NEW b \in Hung, NEW E, b \in E
    PROVE  BanKept(b, E)
<1>1. Lasts(b, b) /\ AsFirm(b, b)
  BY HungFields DEF Lasts, AsFirm
<1> QED BY <1>1 DEF BanKept, IpKept, NickKept

LEMMA DropKeeps ==
    ASSUME NEW d \in Seq(Hung), NEW S, NEW t,
           \A i \in S \cap DOMAIN d : Expired(d[i], t)
    PROVE  Rem(d, S) \in Seq(Hung) /\ BansKept(d, Rem(d, S), t)
<1>1. Rem(d, S) \in Seq(Hung) /\ ToSet(Rem(d, S)) = {d[i] : i \in DOMAIN d \ S}
  BY RemIs
<1>2. ASSUME NEW i \in DOMAIN d PROVE Expired(d[i], t) \/ BanKept(d[i], ToSet(Rem(d, S)))
  <2>1. CASE i \in S
    BY <2>1
  <2>2. CASE i \notin S
    BY <1>1, <2>2, SeqElements, KeptByItself
  <2> QED BY <2>1, <2>2
<1> QED BY <1>1, <1>2 DEF BansKept, ToSet

LEMMA NothingGoes ==
    ASSUME NEW d \in Seq(Hung), NEW r \in Seq(HungRanges), NEW t
    PROVE  BansKept(d, d, t) /\ RangesKept(r, r, t)
<1>1. BansKept(d, d, t)
  BY SeqElements, KeptByItself DEF BansKept, ToSet
<1>2. \A b \in ToSet(r) : Lasts(b, b) /\ AsFirm(b, b)
  BY SeqElements, RangeFields DEF ToSet, Lasts, AsFirm
<1> QED BY <1>1, <1>2 DEF RangesKept, RangeKept
LEMMA KeptTwice ==
    ASSUME NEW d \in Seq(Hung), NEW d2 \in Seq(Hung), NEW d3 \in Seq(Hung),
           NEW t \in Int, BansKept(d, d2, t), BansKept(d2, d3, t)
    PROVE  BansKept(d, d3, t)
<1>0. /\ \A b \in ToSet(d) : b \in Hung
      /\ \A b \in ToSet(d2) : b \in Hung
      /\ \A b \in ToSet(d3) : b \in Hung
  BY SeqElements DEF ToSet
<1> SUFFICES ASSUME NEW b \in ToSet(d), ~Expired(b, t)
             PROVE  BanKept(b, ToSet(d3))
  BY DEF BansKept
<1>1. BanKept(b, ToSet(d2))
  BY DEF BansKept
<1>2. \A c \in ToSet(d2) : Lasts(c, b) => BanKept(c, ToSet(d3))
  BY <1>0, HungFields, LastsExpired DEF BansKept
<1>3. \A c, e : /\ c \in Hung /\ e \in Hung /\ Lasts(c, b) /\ Lasts(e, c)
                => Lasts(e, b)
  BY <1>0, HungFields DEF Lasts
<1>4. \A c, e : AsFirm(c, b) /\ AsFirm(e, c) => AsFirm(e, b)
  BY DEF AsFirm
<1>5. "ips" \in b.at => IpKept(b, ToSet(d3))
  <2> SUFFICES ASSUME "ips" \in b.at PROVE IpKept(b, ToSet(d3))
    OBVIOUS
  <2>1. PICK c \in ToSet(d2) : /\ "ips" \in c.at /\ c.ip = b.ip
                               /\ Lasts(c, b) /\ AsFirm(c, b)
    BY <1>1 DEF BanKept, IpKept
  <2>2. PICK e \in ToSet(d3) : /\ "ips" \in e.at /\ e.ip = c.ip
                               /\ Lasts(e, c) /\ AsFirm(e, c)
    BY <1>2, <2>1 DEF BanKept, IpKept
  <2>3. Lasts(e, b) /\ AsFirm(e, b)
    BY <1>0, <1>3, <1>4, <2>1, <2>2
  <2> QED BY <2>1, <2>2, <2>3 DEF IpKept
<1>6. "nicks" \in b.at => NickKept(b, ToSet(d3))
  <2> SUFFICES ASSUME "nicks" \in b.at PROVE NickKept(b, ToSet(d3))
    OBVIOUS
  <2>1. PICK c \in ToSet(d2) : "nicks" \in c.at /\ c.nick = b.nick /\ Lasts(c, b)
    BY <1>1 DEF BanKept, NickKept
  <2>2. PICK e \in ToSet(d3) : "nicks" \in e.at /\ e.nick = c.nick /\ Lasts(e, c)
    BY <1>2, <2>1 DEF BanKept, NickKept
  <2>3. Lasts(e, b)
    BY <1>0, <1>3, <2>1, <2>2
  <2> QED BY <2>1, <2>2, <2>3 DEF NickKept
<1> QED BY <1>5, <1>6 DEF BanKept
-----------------------------------------------------------------------------
\* Lookups: what they drop has expired, and what they find has not.

LEMMA FindNickIs ==
    ASSUME NEW d \in Seq(Hung), NEW nick, NEW t, NEW match,
           NEW f \in FindNick(d, nick, t, match)
    PROVE  /\ \A i \in f.drop \cap DOMAIN d : Expired(d[i], t)
           /\ \/ f.found = 0
              \/ /\ f.found \in DOMAIN d /\ f.found \notin f.drop
                 /\ "nicks" \in d[f.found].at /\ d[f.found].nick = nick
                 /\ ~Expired(d[f.found], t)
<1> DEFINE live == {i \in OnNick(d, nick) : ~Expired(d[i], t)}
           hits == {i \in live : match \subseteq d[i].bits}
           dead == OnNick(d, nick) \ live
<1>1. \/ f = [found |-> 0, drop |-> dead]
      \/ \E h \in hits, x \in SUBSET dead : f = [found |-> h, drop |-> x]
  BY DEF FindNick
<1>2. \A i \in dead : Expired(d[i], t)
  OBVIOUS
<1>3. \A i \in hits : /\ i \in DOMAIN d /\ i \notin dead /\ "nicks" \in d[i].at
                      /\ d[i].nick = nick /\ ~Expired(d[i], t)
  BY DEF OnNick
<1> QED BY <1>1, <1>2, <1>3

LEMMA FindIpDrops ==
    ASSUME NEW d, NEW ip, NEW t, NEW match
    PROVE  \A i \in FindIp(d, ip, t, match).drop : Expired(d[i], t)
BY DEF FindIp

LEMMA FindRangeDrops ==
    ASSUME NEW r, NEW ip, NEW range, NEW t, NEW match
    PROVE  /\ \A i \in FindRange(r, ip, t, match).drop : Expired(r[i], t)
           /\ \A i \in FindSameRange(r, range, t).drop : Expired(r[i], t)
BY DEF FindRange, FindSameRange
-----------------------------------------------------------------------------
\* A ban of a user: the bans that its nick was under are replaced only by one
\* that does for them what they did.
ForUser(n) ==
    /\ Ready(n) /\ {"IP", "NICK"} \subseteq n.bits /\ n.ip \in Ips /\ n.nick \in Nicks

LEMMA MeetKeeps ==
    ASSUME NEW o \in Hung, NEW n, ForUser(n)
    PROVE  LET m == Meet(o, n) IN
           /\ m.old \in {Goes, Nickless, Stays} /\ m.new \in {Goes, Nickless, Stays}
           /\ m.old # Stays => m.new = Stays /\ Lasts(n, o)
           /\ m.old = Nickless => "IP" \in o.bits
           /\ m.old = Goes /\ "IP" \in o.bits => o.ip = n.ip /\ AsFirm(n, o)
<1>1. /\ o.bits \in SUBSET Bits
      /\ "PERM" \in o.bits <=> "TEMP" \notin o.bits
      /\ o.until \in Int
  BY HungFields DEF Hung
<1>2. n.until \in Int /\ ("PERM" \in n.bits <=> "TEMP" \notin n.bits)
  BY TickAssumption DEF ForUser, Ready, Hung, Bans
<1>3. CASE Lasting(n)
  <2>1. Lasts(n, o)
    BY <1>2, <1>3 DEF Lasting, Lasts
  <2>2. Meet(o, n) = MeetPerm(o, n)
    BY <1>3 DEF Meet
  <2> QED BY <1>1, <2>1, <2>2
          DEF MeetPerm, SameIp, Sterner, NoWeaker, AsFirm, Goes, Nickless, Stays
<1>4. CASE ~Lasting(n)
  <2>1. Meet(o, n) = MeetTemp(o, n)
    BY <1>4 DEF Meet
  <2>2. "TEMP" \in o.bits /\ o.until < n.until => Lasts(n, o)
    BY <1>1, <1>2 DEF Lasts
  <2> QED BY <1>1, <2>1, <2>2
          DEF MeetTemp, SameIp, Sterner, NoWeaker, AsFirm, Goes, Nickless, Stays
<1> QED BY <1>3, <1>4

LEMMA FallsKeeps ==
    ASSUME NEW o \in Hung, NEW n, Ready(n), Falls(o, n)
    PROVE  "NICK" \notin o.bits /\ Lasts(n, o) /\ AsFirm(n, o)
<1>1. n.until \in Int /\ ("PERM" \in n.bits <=> "TEMP" \notin n.bits)
  BY TickAssumption DEF Ready, Hung, Bans
<1> QED BY <1>1, HungFields DEF Falls, Lasts, AsFirm, NoWeaker, Lasting

\* What a new ban does for others once it hangs, with its nick or without.
LEMMA HookedFields ==
    ASSUME NEW n, Ready(n)
    PROVE  LET h == Hooked(n) IN
           /\ h \in Hung /\ h.ip = n.ip /\ h.nick = n.nick
           /\ "ips" \in h.at <=> "IP" \in n.bits
           /\ "nicks" \in h.at <=> "NICK" \in n.bits
           /\ \A o : Lasts(n, o) => Lasts(h, o)
           /\ \A o : AsFirm(n, o) => AsFirm(h, o)
<1> DEFINE h == Hooked(n)
<1>1. h \in Hung /\ h.ip = n.ip /\ h.nick = n.nick /\ h.bits = n.bits /\ h.until = n.until
  BY DEF Ready, Hooked, Bans
<1> HIDE DEF h
<1> QED BY <1>1, HungFields DEF Lasts, AsFirm, h

LEMMA HookedNameless ==
    ASSUME NEW n, Ready(n), "IP" \in n.bits
    PROVE  LET h == Hooked(Nameless(n)) IN
           /\ Ready(Nameless(n)) /\ h \in Hung /\ h.ip = n.ip /\ "ips" \in h.at
           /\ \A o : Lasts(n, o) => Lasts(h, o)
           /\ \A o : AsFirm(n, o) => AsFirm(h, o)
<1> DEFINE m == Nameless(n)
<1>1. /\ Ready(m) /\ m.bits = n.bits \ {"NICK"} /\ m.ip = n.ip /\ m.until = n.until
  BY NamelessReady
<1> HIDE DEF m
<1>2. \A o : (Lasts(n, o) => Lasts(m, o)) /\ (AsFirm(n, o) => AsFirm(m, o))
  BY <1>1 DEF Lasts, AsFirm
<1>3. LET h == Hooked(m) IN
           /\ h \in Hung /\ h.ip = m.ip
           /\ "ips" \in h.at <=> "IP" \in m.bits
           /\ \A o : Lasts(m, o) => Lasts(h, o)
           /\ \A o : AsFirm(m, o) => AsFirm(h, o)
  BY <1>1, HookedFields
<1> QED BY <1>1, <1>2, <1>3 DEF m

LEMMA OnUserKeeps ==
    ASSUME NEW d \in Seq(Hung), NEW t, NEW n, ForUser(n), NEW o \in OnUser(d, t, n)
    PROVE  o.d \in Seq(Hung) /\ o.ok \in BOOLEAN /\ BansKept(d, o.d, t)
<1> DEFINE Met(f) == IF f.found = 0 THEN [old |-> Stays, new |-> Stays]
                     ELSE Meet(d[f.found], n)
           CutOf(f) == IF Met(f).old = Nickless THEN Cut(d, f.found) ELSE d
           Gone(f) == f.drop \cup (IF Met(f).old = Goes THEN {f.found} ELSE {})
           Left(f) == Rem(CutOf(f), Gone(f))
           C(f) == FindIp(Left(f), n.ip, t, {})
           Fall(f) == {i \in OnIp(Left(f), n.ip) : i <= C(f).found /\ Falls(Left(f)[i], n)}
           N(f) == IF Met(f).new = Nickless THEN Nameless(n) ELSE n
           After(f) == IF Met(f).new = Goes THEN [d |-> Rem(d, f.drop), ok |-> FALSE]
                       ELSE [d |-> Add(Rem(Left(f), C(f).drop \cup Fall(f)), N(f)), ok |-> TRUE]
<1>1. PICK f \in FindNick(d, n.nick, t, {}) : o = After(f)
  BY DEF OnUser, Cut
<1> DEFINE met == Met(f)
           cut == CutOf(f)
           gone == Gone(f)
           left == Left(f)
           out == C(f).drop \cup Fall(f)
           h == Hooked(N(f))
           E == ToSet(o.d)
<1>2. /\ \A i \in f.drop \cap DOMAIN d : Expired(d[i], t)
      /\ \/ f.found = 0
         \/ /\ f.found \in DOMAIN d /\ f.found \notin f.drop
            /\ "nicks" \in d[f.found].at /\ d[f.found].nick = n.nick
            /\ ~Expired(d[f.found], t)
  BY FindNickIs
<1>3. \A i \in DOMAIN d : d[i] \in Hung
  BY SeqElements
<1>4. /\ met.old \in {Goes, Nickless, Stays} /\ met.new \in {Goes, Nickless, Stays}
      /\ met.old # Stays =>
           /\ f.found \in DOMAIN d /\ met.new = Stays /\ Lasts(n, d[f.found])
           /\ met.old = Nickless => "IP" \in d[f.found].bits
           /\ met.old = Goes /\ "IP" \in d[f.found].bits =>
                d[f.found].ip = n.ip /\ AsFirm(n, d[f.found])
  <2>1. CASE f.found = 0
    BY <2>1 DEF Goes, Nickless, Stays
  <2>2. CASE f.found # 0
    <3>1. f.found \in DOMAIN d /\ d[f.found] \in Hung
      BY <1>2, <1>3, <2>2
    <3>2. met = Meet(d[f.found], n)
      BY <2>2
    <3> HIDE DEF met
    <3> QED BY <3>1, <3>2, MeetKeeps
  <2> QED BY <2>1, <2>2
<1> HIDE DEF Met
<1>5. CASE met.new = Goes
  <2>1. o = [d |-> Rem(d, f.drop), ok |-> FALSE]
    BY <1>1, <1>5
  <2> QED BY <1>2, <2>1, DropKeeps
<1>6. CASE met.new # Goes
  <2>1. /\ cut \in Seq(Hung) /\ DOMAIN cut = DOMAIN d
        /\ met.old = Nickless => cut[f.found] = Nameless(d[f.found])
        /\ \A i \in DOMAIN d : i # f.found \/ met.old # Nickless => cut[i] = d[i]
    <3>1. CASE met.old = Nickless
      <4>1. cut = Cut(d, f.found) /\ f.found \in DOMAIN d /\ "IP" \in d[f.found].bits
        BY <1>4, <3>1 DEF Nickless, Stays
      <4> HIDE DEF CutOf
      <4> QED BY <3>1, <4>1, CutIs
    <3>2. CASE met.old # Nickless
      BY <3>2
    <3> QED BY <3>1, <3>2
  <2>2. left \in Seq(Hung) /\ ToSet(left) = {cut[i] : i \in DOMAIN d \ gone}
    BY <2>1, RemIs
  <2>3. /\ Rem(left, out) \in Seq(Hung)
        /\ ToSet(Rem(left, out)) = {left[k] : k \in DOMAIN left \ out}
    <3> HIDE DEF left, out
    <3> QED BY <2>2, RemIs
  <2>4. /\ Ready(N(f)) /\ h \in Hung /\ h.ip = n.ip /\ "ips" \in h.at
        /\ \A b : Lasts(n, b) => Lasts(h, b)
        /\ \A b : AsFirm(n, b) => AsFirm(h, b)
        /\ met.new = Stays => "nicks" \in h.at /\ h.nick = n.nick
    <3>1. CASE met.new = Nickless
      BY <3>1, HookedNameless DEF ForUser, Nickless, Stays
    <3>2. CASE met.new # Nickless
      BY <3>2, HookedFields DEF ForUser
    <3> QED BY <3>1, <3>2
  <2>5. o = [d |-> Add(Rem(left, out), N(f)), ok |-> TRUE]
    BY <1>1, <1>6
  <2>6. o.d \in Seq(Hung) /\ E = {left[k] : k \in DOMAIN left \ out} \cup {h}
    <3> HIDE DEF left, out, N
    <3> QED BY <2>3, <2>4, <2>5, AddIs
  <2>7. ASSUME NEW b \in ToSet(left)
        PROVE  \/ b \in E
               \/ Expired(b, t)
               \/ Falls(b, n) /\ b.ip = n.ip
    <3>1. PICK k \in DOMAIN left : b = left[k]
      BY DEF ToSet
    <3>2. k \in C(f).drop => Expired(b, t)
      BY <3>1, FindIpDrops
    <3>3. k \in Fall(f) => Falls(b, n) /\ b.ip = n.ip
      BY <3>1 DEF OnIp
    <3> HIDE DEF C, Fall, left, E
    <3> QED BY <2>6, <3>1, <3>2, <3>3
  <2> HIDE DEF CutOf, Gone, Left, C, Fall, N, E, h
  <2>8. ASSUME NEW i \in DOMAIN d, ~Expired(d[i], t), "ips" \in d[i].at
        PROVE  IpKept(d[i], E)
    <3>1. d[i] \in Hung /\ "IP" \in d[i].bits
      BY <1>3, <2>8, HungFields
    <3>2. CASE i = f.found /\ met.old = Goes
      <4>1. Lasts(n, d[i]) /\ d[i].ip = n.ip /\ AsFirm(n, d[i])
        BY <1>4, <3>1, <3>2 DEF Goes, Stays
      <4> QED BY <2>4, <2>6, <4>1 DEF IpKept
    <3>3. CASE ~(i = f.found /\ met.old = Goes)
      <4>1. i \notin gone
        BY <1>2, <2>8, <3>3 DEF Gone
      <4>2. cut[i] \in ToSet(left)
        BY <2>2, <4>1
      <4>3. /\ cut[i].ip = d[i].ip /\ cut[i].until = d[i].until /\ "ips" \in cut[i].at
            /\ cut[i] \in Hung
            /\ \A x \in {"TEMP", "FULL"} : x \in cut[i].bits <=> x \in d[i].bits
        BY <2>1, <2>8, <3>1, NamelessHung
      <4>4. ~Expired(cut[i], t)
        BY <2>8, <4>3 DEF Expired
      <4>5. CASE cut[i] \in E
        <5>1. Lasts(cut[i], d[i]) /\ AsFirm(cut[i], d[i])
          BY <3>1, <4>3, HungFields DEF Lasts, AsFirm
        <5> QED BY <4>3, <4>5, <5>1 DEF IpKept
      <4>6. CASE Falls(cut[i], n) /\ cut[i].ip = n.ip
        <5>1. Lasts(n, cut[i]) /\ AsFirm(n, cut[i])
          BY <4>3, <4>6, FallsKeeps DEF ForUser
        <5>2. Lasts(n, d[i]) /\ AsFirm(n, d[i])
          BY <4>3, <5>1 DEF Lasts, AsFirm
        <5> QED BY <2>4, <2>6, <4>3, <4>6, <5>2 DEF IpKept
      <4> QED BY <2>7, <4>2, <4>4, <4>5, <4>6
    <3> QED BY <3>2, <3>3
  <2>9. ASSUME NEW i \in DOMAIN d, ~Expired(d[i], t), "nicks" \in d[i].at
        PROVE  NickKept(d[i], E)
    <3>1. d[i] \in Hung /\ "NICK" \in d[i].bits
      BY <1>3, <2>9, HungFields
    <3>2. CASE i = f.found /\ met.old # Stays
      <4>1. Lasts(n, d[i]) /\ d[i].nick = n.nick /\ met.new = Stays
        BY <1>2, <1>4, <2>9, <3>2
      <4> QED BY <2>4, <2>6, <4>1 DEF NickKept
    <3>3. CASE ~(i = f.found /\ met.old # Stays)
      <4>1. i \notin gone /\ cut[i] = d[i]
        BY <1>2, <2>1, <2>9, <3>3 DEF Gone, Goes, Nickless, Stays
      <4>2. d[i] \in ToSet(left)
        BY <2>2, <4>1
      <4>3. ~Falls(d[i], n)
        BY <3>1, FallsKeeps DEF ForUser
      <4>4. d[i] \in E
        BY <2>7, <2>9, <4>2, <4>3
      <4>5. Lasts(d[i], d[i])
        BY <3>1, HungFields DEF Lasts
      <4> QED BY <2>9, <4>4, <4>5 DEF NickKept
    <3> QED BY <3>2, <3>3
  <2>10. BansKept(d, o.d, t)
    BY <2>8, <2>9 DEF BansKept, BanKept, ToSet, E
  <2> QED BY <2>5, <2>6, <2>10
<1> QED BY <1>5, <1>6
-----------------------------------------------------------------------------
\* A ban of an address, of a nick, of a range.

\* What falls is made up for by the new ban, or by the one that blocks it; and
\* nothing that has expired blocks.
LEMMA FallsIpKeeps ==
    ASSUME NEW o \in Hung, NEW n, Ready(n), FallsIp(o, n)
    PROVE  /\ "NICK" \notin o.bits /\ Lasts(n, o) /\ AsFirm(n, o)
           /\ \A b \in Hung : BlocksIp(b, n) => Lasts(b, o) /\ AsFirm(b, o)
<1>1. n.until \in Int /\ ("PERM" \in n.bits <=> "TEMP" \notin n.bits)
  BY TickAssumption DEF Ready, Hung, Bans
<1>2. o.until \in Int /\ ("PERM" \in o.bits <=> "TEMP" \notin o.bits)
  BY HungFields DEF Hung
<1>3. "NICK" \notin o.bits /\ Lasts(n, o) /\ AsFirm(n, o)
  BY <1>1, <1>2 DEF FallsIp, Lasts, AsFirm, NoWeaker, Lasting, Outlives
<1>4. ASSUME NEW b \in Hung, BlocksIp(b, n) PROVE Lasts(b, o) /\ AsFirm(b, o)
  <2>1. b.until \in Int /\ ("PERM" \in b.bits <=> "TEMP" \notin b.bits)
    BY HungFields DEF Hung
  <2>2. AsFirm(b, o)
    BY <1>4 DEF FallsIp, BlocksIp, AsFirm, NoWeaker, Sterner
  <2>3. Lasts(b, o)
    BY <1>1, <1>2, <1>4, <2>1 DEF FallsIp, BlocksIp, Lasts, Lasting, Outlives
  <2> QED BY <2>2, <2>3
<1> QED BY <1>3, <1>4

LEMMA ExpiredBlocksNot ==
    ASSUME NEW b \in Hung, NEW n, Ready(n), NEW t \in Int, Expired(b, t),
           Lasting(n) \/ n.until > t
    PROVE  ~BlocksIp(b, n)
<1>1. n.until \in Int
  BY TickAssumption DEF Ready, Bans
<1>2. b.until \in Int /\ ("PERM" \in b.bits <=> "TEMP" \notin b.bits)
  BY HungFields DEF Hung
<1> QED BY <1>1, <1>2 DEF Expired, BlocksIp, Outlives

LEMMA OnAddressKeeps ==
    ASSUME NEW d \in Seq(Hung), NEW t \in Int, NEW n, Ready(n), "IP" \in n.bits,
           Lasting(n) \/ n.until > t
    PROVE  LET o == OnAddress(d, t, n) IN
           o.d \in Seq(Hung) /\ o.ok \in BOOLEAN /\ BansKept(d, o.d, t)
<1> DEFINE c == FindIp(d, n.ip, t, {})
           chain == {i \in OnIp(d, n.ip) : i <= c.found}
           block == {i \in chain : BlocksIp(d[i], n)}
           fall == {i \in chain : FallsIp(d[i], n) /\ \A b \in block : i > b}
           left == Rem(d, c.drop \cup fall)
           o == OnAddress(d, t, n)
           E == ToSet(o.d)
<1>1. o = IF block # {} THEN [d |-> left, ok |-> FALSE] ELSE [d |-> Add(left, n), ok |-> TRUE]
  BY DEF OnAddress
<1>2. /\ \A i \in c.drop : Expired(d[i], t)
      /\ \A i \in chain : i \in DOMAIN d /\ i \in Int /\ d[i].ip = n.ip /\ "ips" \in d[i].at
      /\ \A i \in DOMAIN d : d[i] \in Hung
  BY FindIpDrops, SeqElements DEF OnIp
<1>3. left \in Seq(Hung) /\ ToSet(left) = {d[i] : i \in DOMAIN d \ (c.drop \cup fall)}
  <2> HIDE DEF c, fall
  <2> QED BY RemIs
<1>4. Add(left, n) \in Seq(Hung) /\ ToSet(Add(left, n)) = ToSet(left) \cup {Hooked(n)}
  <2> HIDE DEF left
  <2> QED BY <1>3, AddIs
<1>5. o.d \in Seq(Hung) /\ o.ok \in BOOLEAN /\ ToSet(left) \subseteq E
  <2> HIDE DEF left, block
  <2> QED BY <1>1, <1>3, <1>4
<1>6. ASSUME NEW i \in fall PROVE BanKept(d[i], E)
  <2>1. /\ d[i] \in Hung /\ FallsIp(d[i], n) /\ d[i].ip = n.ip
        /\ \A b \in block : i > b
    BY <1>2
  <2>2. "nicks" \notin d[i].at
    BY <2>1, FallsIpKeeps, HungFields
  <2>3. CASE block = {}
    <3>1. Hooked(n) \in E
      BY <1>1, <1>4, <2>3
    <3>2. /\ Hooked(n).ip = n.ip /\ "ips" \in Hooked(n).at
          /\ Lasts(Hooked(n), d[i]) /\ AsFirm(Hooked(n), d[i])
      BY <2>1, FallsIpKeeps, HookedFields
    <3> HIDE DEF E
    <3> QED BY <2>1, <2>2, <3>1, <3>2 DEF BanKept, IpKept
  <2>4. CASE block # {}
    <3>1. PICK b \in block : TRUE
      BY <2>4
    <3>2. b \in DOMAIN d /\ b \in Int /\ d[b] \in Hung /\ BlocksIp(d[b], n)
          /\ d[b].ip = n.ip /\ "ips" \in d[b].at
      BY <1>2
    <3>3. b \notin fall
      <4>1. ~(b > b)
        BY <3>2
      <4> QED BY <4>1
    <3>4. b \notin c.drop
      BY <1>2, <3>2, ExpiredBlocksNot
    <3>5. d[b] \in E
      <4> HIDE DEF fall, c, left, E
      <4> QED BY <1>3, <1>5, <3>2, <3>3, <3>4
    <3>6. Lasts(d[b], d[i]) /\ AsFirm(d[b], d[i])
      BY <2>1, <3>2, FallsIpKeeps
    <3> HIDE DEF E
    <3> QED BY <2>1, <2>2, <3>2, <3>5, <3>6 DEF BanKept, IpKept
  <2> QED BY <2>3, <2>4
<1>7. ASSUME NEW i \in DOMAIN d PROVE Expired(d[i], t) \/ BanKept(d[i], E)
  <2>1. CASE i \in c.drop
    BY <1>2, <2>1
  <2>2. CASE i \in fall
    BY <1>6, <2>2
  <2>3. CASE i \notin c.drop \cup fall
    <3> HIDE DEF fall, c, left, E
    <3>1. d[i] \in E
      BY <1>3, <1>5, <2>3
    <3> QED BY <1>2, <3>1, KeptByItself
  <2> QED BY <2>1, <2>2, <2>3
<1> HIDE DEF o
<1> QED BY <1>5, <1>7 DEF BansKept, ToSet, o

LEMMA OnNameKeeps ==
    ASSUME NEW d \in Seq(Hung), NEW t, NEW n, Ready(n), "NICK" \in n.bits,
           NEW o \in OnName(d, t, n)
    PROVE  o.d \in Seq(Hung) /\ o.ok \in BOOLEAN /\ BansKept(d, o.d, t)
<1> DEFINE After(f) ==
             LET met == d[f.found]
                 cut == [d EXCEPT ![f.found] = Nameless(@)]
             IN CASE f.found = 0 -> [d |-> Add(Rem(d, f.drop), n), ok |-> TRUE]
                  [] f.found # 0 /\ ~Yields(met, n) ->
                       [d |-> Rem(d, f.drop), ok |-> FALSE]
                  [] f.found # 0 /\ Yields(met, n) /\ "IP" \in met.bits ->
                       [d |-> Add(Rem(cut, f.drop), n), ok |-> TRUE]
                  [] OTHER ->
                       [d |-> Add(Rem(d, f.drop \cup {f.found}), n), ok |-> TRUE]
<1>1. PICK f \in FindNick(d, n.nick, t, {}) : o = After(f)
  BY DEF OnName
<1>2. /\ \A i \in f.drop \cap DOMAIN d : Expired(d[i], t)
      /\ \/ f.found = 0
         \/ /\ f.found \in DOMAIN d /\ f.found \notin f.drop
            /\ "nicks" \in d[f.found].at /\ d[f.found].nick = n.nick
            /\ ~Expired(d[f.found], t)
  BY FindNickIs
<1>3. \A i \in DOMAIN d : d[i] \in Hung
  BY SeqElements
<1>4. Hooked(n).nick = n.nick /\ "nicks" \in Hooked(n).at
  BY HookedFields
<1>5. CASE f.found = 0
  <2>1. o = [d |-> Add(Rem(d, f.drop), n), ok |-> TRUE]
    BY <1>1, <1>5
  <2>2. Rem(d, f.drop) \in Seq(Hung) /\ BansKept(d, Rem(d, f.drop), t)
    BY <1>2, DropKeeps
  <2>3. o.d \in Seq(Hung) /\ ToSet(Rem(d, f.drop)) \subseteq ToSet(o.d)
    BY <2>1, <2>2, AddIs
  <2>4. BansKept(d, o.d, t)
    BY <2>2, <2>3 DEF BansKept, BanKept, IpKept, NickKept
  <2> QED BY <2>1, <2>3, <2>4
<1>6. CASE f.found # 0 /\ ~Yields(d[f.found], n)
  <2>1. o = [d |-> Rem(d, f.drop), ok |-> FALSE]
    BY <1>1, <1>6
  <2> QED BY <1>2, <2>1, DropKeeps
<1>7. CASE f.found # 0 /\ Yields(d[f.found], n)
  <2> DEFINE m == d[f.found]
             base == IF "IP" \in m.bits THEN Cut(d, f.found) ELSE d
             gone == IF "IP" \in m.bits THEN f.drop ELSE f.drop \cup {f.found}
             left == Rem(base, gone)
             E == ToSet(o.d)
  <2>1. o = [d |-> Add(left, n), ok |-> TRUE]
    BY <1>1, <1>7 DEF Cut
  <2>2. /\ f.found \in DOMAIN d /\ m \in Hung /\ m.nick = n.nick
        /\ Lasts(n, m)
    <3>1. f.found \in DOMAIN d /\ m \in Hung /\ m.nick = n.nick
      BY <1>2, <1>3, <1>7
    <3>2. m.until \in Int /\ ("PERM" \in m.bits <=> "TEMP" \notin m.bits)
      BY <3>1, HungFields DEF Hung
    <3>3. n.until \in Int /\ ("PERM" \in n.bits <=> "TEMP" \notin n.bits)
      BY TickAssumption DEF Ready, Hung, Bans
    <3>4. Lasts(n, m)
      BY <1>7, <3>2, <3>3 DEF Yields, Lasts, Lasting
    <3> QED BY <3>1, <3>4
  <2>3. /\ base \in Seq(Hung) /\ DOMAIN base = DOMAIN d
        /\ "IP" \in m.bits => base[f.found] = Nameless(m)
        /\ \A i \in DOMAIN d : i # f.found \/ "IP" \notin m.bits => base[i] = d[i]
    <3>1. CASE "IP" \in m.bits
      BY <2>2, <3>1, CutIs
    <3>2. CASE "IP" \notin m.bits
      BY <3>2
    <3> QED BY <3>1, <3>2
  <2> HIDE DEF base
  <2>4. left \in Seq(Hung) /\ ToSet(left) = {base[i] : i \in DOMAIN d \ gone}
    <3> HIDE DEF gone
    <3> QED BY <2>3, RemIs
  <2>5. o.d \in Seq(Hung) /\ E = ToSet(left) \cup {Hooked(n)}
    <3> HIDE DEF left
    <3> QED BY <2>1, <2>4, AddIs
  <2>6. Lasts(Hooked(n), m)
    BY <2>2, HookedFields
  <2> HIDE DEF left, E
  <2>7. ASSUME NEW i \in DOMAIN d, ~Expired(d[i], t) PROVE BanKept(d[i], E)
    <3>1. CASE i = f.found
      <4>1. "nicks" \in m.at => NickKept(m, E)
        BY <1>4, <2>2, <2>5, <2>6 DEF NickKept
      <4>2. ASSUME "ips" \in m.at PROVE IpKept(m, E)
        <5>1. "IP" \in m.bits
          BY <2>2, <4>2, HungFields
        <5>2. /\ Nameless(m).bits = m.bits \ {"NICK"} /\ Nameless(m).ip = m.ip
              /\ Nameless(m).until = m.until /\ "ips" \in Nameless(m).at
          BY <2>2, <4>2, <5>1, NamelessHung
        <5>3. Lasts(Nameless(m), m) /\ AsFirm(Nameless(m), m)
          BY <2>2, <5>2, HungFields DEF Lasts, AsFirm
        <5>4. Nameless(m) \in E
          BY <1>2, <1>7, <2>2, <2>3, <2>4, <2>5, <5>1
        <5> QED BY <5>2, <5>3, <5>4 DEF IpKept
      <4> QED BY <3>1, <4>1, <4>2 DEF BanKept
    <3>2. CASE i # f.found
      <4>1. d[i] \in E
        BY <1>2, <2>3, <2>4, <2>5, <2>7, <3>2
      <4> QED BY <1>3, <4>1, KeptByItself
    <3> QED BY <3>1, <3>2
  <2>8. BansKept(d, o.d, t)
    BY <2>7 DEF BansKept, ToSet, E
  <2> QED BY <2>1, <2>5, <2>8
<1> QED BY <1>5, <1>6, <1>7

LEMMA RangesDropKeeps ==
    ASSUME NEW r \in Seq(HungRanges), NEW S \in SUBSET DOMAIN r, NEW t,
           \A i \in DOMAIN r \ S : Expired(r[i], t)
    PROVE  Keep(r, S) \in Seq(HungRanges) /\ RangesKept(r, Keep(r, S), t)
<1>1. Keep(r, S) \in Seq(HungRanges) /\ ToSet(Keep(r, S)) = {r[i] : i \in S}
  BY KeepElements
<1>2. \A i \in DOMAIN r : Lasts(r[i], r[i]) /\ AsFirm(r[i], r[i])
  BY SeqElements, RangeFields DEF Lasts, AsFirm
<1>3. \A i \in DOMAIN r : Expired(r[i], t) \/ RangeKept(r[i], ToSet(Keep(r, S)))
  BY <1>1, <1>2 DEF RangeKept
<1> QED BY <1>1, <1>3 DEF RangesKept, ToSet

LEMMA OnRangeKeeps ==
    ASSUME NEW r \in Seq(HungRanges), NEW n \in HungRanges, NEW t
    PROVE  LET o == OnRange(r, n) IN
           o.d \in Seq(HungRanges) /\ o.ok \in BOOLEAN /\ RangesKept(r, o.d, t)
<1> DEFINE same == {i \in DOMAIN r : r[i].range = n.range}
           block == {i \in same : BlocksIp(r[i], n)}
           fall == {i \in same : FallsRange(r[i], n) /\ \A b \in block : i < b}
           left == Keep(r, DOMAIN r \ fall)
           o == OnRange(r, n)
           E == ToSet(o.d)
<1>1. o = IF block # {} THEN [d |-> left, ok |-> FALSE]
          ELSE [d |-> Append(left, n), ok |-> TRUE]
  BY DEF OnRange
<1>2. /\ \A i \in DOMAIN r : r[i] \in HungRanges /\ i \in Int
      /\ \A i \in DOMAIN r : Lasts(r[i], r[i]) /\ AsFirm(r[i], r[i])
  BY SeqElements, RangeFields DEF Lasts, AsFirm
<1>3. left \in Seq(HungRanges) /\ ToSet(left) = {r[i] : i \in DOMAIN r \ fall}
  <2> HIDE DEF fall
  <2> QED BY KeepElements
<1>4. /\ Append(left, n) \in Seq(HungRanges)
      /\ ToSet(Append(left, n)) = ToSet(left) \cup {n}
  <2> HIDE DEF left
  <2> QED BY <1>3, AppendElements
<1>5. o.d \in Seq(HungRanges) /\ o.ok \in BOOLEAN /\ ToSet(left) \subseteq E
  <2> HIDE DEF left, block
  <2> QED BY <1>1, <1>3, <1>4
<1>6. ASSUME NEW i \in fall PROVE RangeKept(r[i], E)
  <2>1. /\ r[i].until \in Int /\ n.until \in Int
        /\ "PERM" \in r[i].bits <=> "TEMP" \notin r[i].bits
        /\ "PERM" \in n.bits <=> "TEMP" \notin n.bits
        /\ FallsRange(r[i], n) /\ r[i].range = n.range /\ \A b \in block : i < b
    BY <1>2, RangeFields
  <2>2. CASE block = {}
    <3>1. n \in E
      <4> HIDE DEF left, block
      <4> QED BY <1>1, <1>4, <2>2
    <3>2. Lasts(n, r[i]) /\ AsFirm(n, r[i])
      BY <2>1 DEF FallsRange, Lasts, AsFirm, Lasting, Sterner, NoWeaker, Outlives
    <3> HIDE DEF E
    <3> QED BY <2>1, <3>1, <3>2 DEF RangeKept
  <2>3. CASE block # {}
    <3>1. PICK b \in block : TRUE
      BY <2>3
    <3>2. /\ b \in DOMAIN r /\ b \in Int /\ r[b].range = n.range /\ BlocksIp(r[b], n)
          /\ r[b].until \in Int
          /\ "PERM" \in r[b].bits <=> "TEMP" \notin r[b].bits
      BY <1>2, RangeFields
    <3>3. b \notin fall
      <4>1. ~(b < b)
        BY <3>2
      <4> QED BY <4>1
    <3>4. r[b] \in E
      <4> HIDE DEF fall, left, E
      <4> QED BY <1>3, <1>5, <3>2, <3>3
    <3>5. AsFirm(r[b], r[i])
      BY <2>1, <3>2 DEF FallsRange, BlocksIp, AsFirm, Lasting, Sterner, NoWeaker
    <3>6. Lasts(r[b], r[i])
      BY <2>1, <3>2 DEF FallsRange, BlocksIp, Lasts, Lasting, Outlives
    <3> HIDE DEF E
    <3> QED BY <2>1, <3>2, <3>4, <3>5, <3>6 DEF RangeKept
  <2> QED BY <2>2, <2>3
<1>7. ASSUME NEW i \in DOMAIN r PROVE RangeKept(r[i], E)
  <2>1. CASE i \in fall
    BY <1>6, <2>1
  <2>2. CASE i \notin fall
    <3> HIDE DEF fall, left, E
    <3>1. r[i] \in E
      BY <1>3, <1>5, <2>2
    <3> QED BY <1>2, <3>1 DEF RangeKept
  <2> QED BY <2>1, <2>2
<1> HIDE DEF o
<1> QED BY <1>5, <1>7 DEF RangesKept, ToSet, o
-----------------------------------------------------------------------------
\* The file.

LEMMA SavedIs ==
    ASSUME NEW d \in Seq(Hung)
    PROVE  Saved(d) \in Seq(Hung) /\ ToSet(Saved(d)) = ToSet(d)
<1> DEFINE A == {i \in DOMAIN d : "temp" \in d[i].at}
           B == {i \in DOMAIN d : "perm" \in d[i].at}
<1>1. A \in SUBSET DOMAIN d /\ B \in SUBSET DOMAIN d /\ A \cup B = DOMAIN d
  <2>1. \A i \in DOMAIN d : "temp" \in d[i].at \/ "perm" \in d[i].at
    BY SeqElements DEF Hung, Table
  <2> QED BY <2>1
<1>2. Saved(d) = Keep(d, A) \o Keep(d, B)
  BY DEF Saved
<1> HIDE DEF A, B
<1>3. Keep(d, A) \in Seq(Hung) /\ ToSet(Keep(d, A)) = {d[i] : i \in A}
  BY <1>1, KeepElements
<1>4. Keep(d, B) \in Seq(Hung) /\ ToSet(Keep(d, B)) = {d[i] : i \in B}
  BY <1>1, KeepElements
<1>5. Saved(d) \in Seq(Hung) /\ ToSet(Saved(d)) = ToSet(Keep(d, A)) \cup ToSet(Keep(d, B))
  BY <1>2, <1>3, <1>4, ConcatElements, SMTT(60)
<1> QED BY <1>1, <1>3, <1>4, <1>5 DEF ToSet

LEMMA LoadedIs ==
    ASSUME NEW d \in Seq(Hung), NEW r \in Seq(HungRanges), NEW t
    PROVE  /\ Loaded(d, t) \in Seq(Hung) /\ LoadedRanges(r, t) \in Seq(HungRanges)
           /\ ToSet(Loaded(d, t)) = {b \in ToSet(d) : ~Expired(b, t)}
           /\ ToSet(LoadedRanges(r, t)) = {b \in ToSet(r) : ~Expired(b, t)}
<1>1. /\ Loaded(d, t) \in Seq(Hung)
      /\ ToSet(Loaded(d, t)) = {d[i] : i \in {j \in DOMAIN d : ~Expired(d[j], t)}}
  BY KeepElements DEF Loaded
<1>2. /\ LoadedRanges(r, t) \in Seq(HungRanges)
      /\ ToSet(LoadedRanges(r, t)) = {r[i] : i \in {j \in DOMAIN r : ~Expired(r[j], t)}}
  BY KeepElements DEF LoadedRanges
<1> QED BY <1>1, <1>2, ZenonT(60) DEF ToSet

\* Save, of bans and ranges that are as they should be.
LEMMA SaveType ==
    ASSUME StoreInvariant, NEW b \in Seq(Hung), NEW r \in Seq(HungRanges),
           NEW force \in BOOLEAN, Save(b, r, force)
    PROVE  /\ saveCalled' \in 0 .. SaveEvery
           /\ file' \in [bans : Seq(Hung), ranges : Seq(HungRanges)]
<1>1. Saved(b) \in Seq(Hung)
  BY SavedIs
<1> QED BY <1>1, BoundsAssumption DEF Save, StoreInvariant

\* Does and DoesRange, with what an operation of the manager answers.
Placed(d, o, t) == o.d \in Seq(Hung) /\ o.ok \in BOOLEAN /\ BansKept(d, o.d, t)
PlacedRange(r, o, t) ==
    o.d \in Seq(HungRanges) /\ o.ok \in BOOLEAN /\ RangesKept(r, o.d, t)
AllKept == BansKept(bans, bans', now) /\ RangesKept(ranges, ranges', now)

LEMMA DoesStore ==
    ASSUME StoreInvariant, now' = now, NEW o, o.d \in Seq(Hung), Does(o)
    PROVE  /\ StoreInvariant' /\ bans' = o.d /\ ranges' = ranges
           /\ Placed(bans, o, now) => AllKept
<1>1. bans' = o.d /\ ranges' = ranges
  BY DEF Does, Changed
<1>2. /\ saveCalled' \in 0 .. SaveEvery
      /\ file' \in [bans : Seq(Hung), ranges : Seq(HungRanges)]
  BY SaveType DEF Does, NoSave, StoreInvariant
<1>3. RangesKept(ranges, ranges, now)
  BY NothingGoes DEF StoreInvariant
<1> QED BY <1>1, <1>2, <1>3 DEF StoreInvariant, Placed, AllKept

LEMMA DoesRangeStore ==
    ASSUME StoreInvariant, now' = now, NEW o, o.d \in Seq(HungRanges), DoesRange(o)
    PROVE  /\ StoreInvariant' /\ bans' = bans /\ ranges' = o.d
           /\ PlacedRange(ranges, o, now) => AllKept
<1>1. bans' = bans /\ ranges' = o.d
  BY DEF DoesRange, Changed
<1>2. /\ saveCalled' \in 0 .. SaveEvery
      /\ file' \in [bans : Seq(Hung), ranges : Seq(HungRanges)]
  BY SaveType DEF DoesRange, NoSave, StoreInvariant
<1>3. BansKept(bans, bans, now)
  BY NothingGoes DEF StoreInvariant
<1> QED BY <1>1, <1>2, <1>3 DEF StoreInvariant, PlacedRange, AllKept
-----------------------------------------------------------------------------
\* What commands, scripts and wrong passwords place.

LEMMA LevelIs ==
    ASSUME NEW full \in BOOLEAN
    PROVE  Level(full) \subseteq {"FULL"}
BY DEF Level

LEMMA OfReady ==
    ASSUME NEW kind \in {"PERM", "TEMP"}, NEW bits \in SUBSET {"IP", "NICK", "FULL"},
           NEW ip \in Ips \cup {Nothing}, NEW nick \in Nicks \cup {Nothing},
           NEW until \in 0 .. LastTick,
           "IP" \in bits <=> ip # Nothing, "NICK" \in bits <=> nick # Nothing,
           ip # Nothing \/ nick # Nothing
    PROVE  Ready(Of({kind} \cup bits, ip, nick, until))
BY DEF Ready, Of, Hung, Bans, Bits, Structures, Table

LEMMA UserBansPlaced ==
    ASSUME NEW d \in Seq(Hung), NEW t \in Int, NEW ip \in Ips, NEW nick \in Nicks,
           NEW full \in BOOLEAN, NEW until \in 0 .. LastTick
    PROVE  \A o \in Ban(d, t, ip, nick, full) \cup TempBan(d, t, ip, nick, full, until) :
             Placed(d, o, t)
<1> DEFINE n == Of({"PERM", "IP", "NICK"} \cup Level(full), ip, nick, 0)
           m == Of({"TEMP", "IP", "NICK"} \cup Level(full), ip, nick, until)
<1>1. ip # Nothing /\ nick # Nothing
  BY NothingAssumption
<1>2. Ready(n) /\ Ready(m)
  <2>1. \A kind \in {"PERM", "TEMP"} :
          {kind, "IP", "NICK"} \cup Level(full) = {kind} \cup ({"IP", "NICK"} \cup Level(full))
    OBVIOUS
  <2>2. {"IP", "NICK"} \cup Level(full) \in SUBSET {"IP", "NICK", "FULL"}
    BY LevelIs
  <2>3. 0 \in 0 .. LastTick
    BY TickAssumption
  <2> QED BY <1>1, <2>1, <2>2, <2>3, OfReady
<1>3. /\ {"IP", "NICK"} \subseteq n.bits /\ n.ip = ip /\ n.nick = nick
      /\ {"IP", "NICK"} \subseteq m.bits /\ m.ip = ip /\ m.nick = nick
  BY DEF Of
<1>4. Ban(d, t, ip, nick, full) = OnUser(d, t, n)
  BY DEF Ban
<1>5. TempBan(d, t, ip, nick, full, until) = OnUser(d, t, m)
  BY DEF TempBan
<1> HIDE DEF n, m
<1>6. ForUser(n) /\ ForUser(m)
  BY <1>2, <1>3 DEF ForUser
<1> QED BY <1>4, <1>5, <1>6, OnUserKeeps DEF Placed

LEMMA AddressReady ==
    ASSUME NEW kind \in {"PERM", "TEMP"}, NEW full \in BOOLEAN, NEW ip \in Ips,
           NEW until \in 0 .. LastTick
    PROVE  Ready(Of({kind, "IP"} \cup Level(full), ip, Nothing, until))
<1>1. ip # Nothing
  BY NothingAssumption
<1>2. {kind, "IP"} \cup Level(full) = {kind} \cup ({"IP"} \cup Level(full))
  OBVIOUS
<1>3. {"IP"} \cup Level(full) \in SUBSET {"IP", "NICK", "FULL"}
      /\ "NICK" \notin {"IP"} \cup Level(full)
  BY LevelIs
<1> QED BY <1>1, <1>2, <1>3, OfReady

LEMMA BanIpPlaced ==
    ASSUME NEW d \in Seq(Hung), NEW t \in Int, NEW ip \in Ips, NEW full \in BOOLEAN
    PROVE  Placed(d, BanIp(d, t, ip, full), t)
<1> DEFINE n == Of({"PERM", "IP"} \cup Level(full), ip, Nothing, 0)
<1>2. "IP" \in n.bits /\ Lasting(n)
  BY DEF Of, Lasting
<1>4. Ready(n)
  BY AddressReady, TickAssumption
<1> HIDE DEF n
<1>3. Placed(d, OnAddress(d, t, n), t)
  BY <1>2, <1>4, OnAddressKeeps DEF Placed
<1> QED BY <1>3 DEF BanIp, n

LEMMA TempBanIpPlaced ==
    ASSUME NEW d \in Seq(Hung), NEW t \in Int, NEW ip \in Ips, NEW full \in BOOLEAN,
           NEW until \in 0 .. LastTick, t < until
    PROVE  Placed(d, TempBanIp(d, t, ip, full, until), t)
<1> DEFINE n == Of({"TEMP", "IP"} \cup Level(full), ip, Nothing, until)
<1>2. Ready(n) /\ "IP" \in n.bits
  BY AddressReady DEF Of
<1>3. n.until > t
  BY TickAssumption DEF Of
<1> HIDE DEF n
<1>4. Placed(d, OnAddress(d, t, n), t)
  BY <1>2, <1>3, OnAddressKeeps DEF Placed
<1> QED BY <1>4 DEF TempBanIp, n

LEMMA NickBansPlaced ==
    ASSUME NEW d \in Seq(Hung), NEW t \in Int, NEW nick \in Nicks,
           NEW until \in 0 .. LastTick
    PROVE  \A o \in NickBan(d, t, nick) \cup NickTempBan(d, t, nick, until) :
             Placed(d, o, t)
<1> DEFINE n == Of({"PERM", "NICK"}, Nothing, nick, 0)
           m == Of({"TEMP", "NICK"}, Nothing, nick, until)
<1>1. nick # Nothing
  BY NothingAssumption
<1>2. /\ Ready(n) /\ "NICK" \in n.bits
      /\ Ready(m) /\ "NICK" \in m.bits
  <2>1. \A kind \in {"PERM", "TEMP"} : {kind, "NICK"} = {kind} \cup {"NICK"}
    OBVIOUS
  <2>2. {"NICK"} \in SUBSET {"IP", "NICK", "FULL"} /\ "IP" \notin {"NICK"}
    OBVIOUS
  <2>3. 0 \in 0 .. LastTick
    BY TickAssumption
  <2>4. Ready(n) /\ Ready(m)
    BY <1>1, <2>1, <2>2, <2>3, OfReady
  <2> QED BY <2>4 DEF Of
<1>3. NickBan(d, t, nick) = OnName(d, t, n)
  BY DEF NickBan
<1>4. NickTempBan(d, t, nick, until) = OnName(d, t, m)
  BY DEF NickTempBan
<1> HIDE DEF n, m
<1> QED BY <1>2, <1>3, <1>4, OnNameKeeps DEF Placed

LEMMA RangeBansPlaced ==
    ASSUME NEW r \in Seq(HungRanges), NEW t, NEW range \in Ranges,
           NEW full \in BOOLEAN, NEW until \in 0 .. LastTick
    PROVE  /\ PlacedRange(r, RangeBan(r, range, full), t)
           /\ PlacedRange(r, RangeTempBan(r, range, full, until), t)
<1> DEFINE n == [bits |-> {"PERM"} \cup Level(full), range |-> range, until |-> 0]
           m == [bits |-> {"TEMP"} \cup Level(full), range |-> range, until |-> until]
<1>1. n \in HungRanges /\ m \in HungRanges
  BY LevelIs, TickAssumption DEF HungRanges, RangeBans
<1>2. RangeBan(r, range, full) = OnRange(r, n)
  BY DEF RangeBan
<1>3. RangeTempBan(r, range, full, until) = OnRange(r, m)
  BY DEF RangeTempBan
<1> HIDE DEF n, m
<1> QED BY <1>1, <1>2, <1>3, OnRangeKeeps DEF PlacedRange

LEMMA UntilIs ==
    ASSUME StoreInvariant
    PROVE  now \in Int /\ \A t \in Until : t \in 0 .. LastTick /\ now < t
BY TickAssumption DEF Until, StoreInvariant

LEMMA WrongPasswordKeeps ==
    ASSUME StoreInvariant, guest \in Guests, WrongPassword
    PROVE  StoreInvariant' /\ AllKept
<1> DEFINE f == FindFull(bans, guest.ip, now)
           left == Rem(bans, f.drop)
           full == f.found # 0 /\ "FULL" \in bans[f.found].bits
<1>1. guest.ip \in Ips
  BY DEF WrongPassword, Guests, Inside, Away
<1>2. left \in Seq(Hung) /\ BansKept(bans, left, now)
  BY FindIpDrops, DropKeeps DEF FindFull, StoreInvariant
<1> HIDE DEF left
<1>3. /\ Placed(left, BanIp(left, now, guest.ip, TRUE), now)
      /\ \A t \in Until : Placed(left, TempBanIp(left, now, guest.ip, TRUE, t), now)
  BY <1>1, <1>2, UntilIs, BanIpPlaced, TempBanIpPlaced
<1>4. PICK o \in {[d |-> left, ok |-> FALSE]}
                 \cup {x \in {BanIp(left, now, guest.ip, TRUE)}
                         \cup {TempBanIp(left, now, guest.ip, TRUE, t) : t \in Until} :
                       ~full} : Does(o)
  BY DEF WrongPassword, left
<1>5. Placed(bans, o, now)
  <2>1. CASE o = [d |-> left, ok |-> FALSE]
    BY <1>2, <2>1 DEF Placed
  <2>2. CASE Placed(left, o, now)
    BY <1>2, <2>2, UntilIs, KeptTwice DEF Placed, StoreInvariant
  <2> QED BY <1>3, <1>4, <2>1, <2>2
<1>6. now' = now
  BY DEF WrongPassword
<1> QED BY <1>4, <1>5, <1>6, DoesStore DEF Placed

LEMMA PlacesKeep ==
    ASSUME StoreInvariant, guest \in Guests, Places
    PROVE  StoreInvariant' /\ AllKept
<1> USE UntilIs
<1>1. bans \in Seq(Hung) /\ ranges \in Seq(HungRanges) /\ now \in Int
  BY DEF StoreInvariant
<1>2. ASSUME NEW o, Placed(bans, o, now), Does(o), now' = now
      PROVE  StoreInvariant' /\ AllKept
  BY <1>2, DoesStore DEF Placed
<1>3. ASSUME NEW o, PlacedRange(ranges, o, now), DoesRange(o), now' = now
      PROVE  StoreInvariant' /\ AllKept
  BY <1>3, DoesRangeStore DEF PlacedRange
<1>4. CASE WrongPassword
  BY <1>4, WrongPasswordKeeps
<1>5. CASE LuaBan
  <2>1. PICK m \in Members, full \in BOOLEAN : OnUserOf(m, Ban(bans, now, m.ip, m.nick, full))
    BY <1>5 DEF LuaBan, BanCommand
  <2>2. m.ip \in Ips /\ m.nick \in Nicks
    BY DEF Members
  <2>3. PICK o \in Ban(bans, now, m.ip, m.nick, full) : Does(o) /\ now' = now
    BY <2>1 DEF OnUserOf
  <2>4. 0 \in 0 .. LastTick
    BY TickAssumption
  <2> QED BY <1>1, <1>2, <2>2, <2>3, <2>4, UserBansPlaced
<1>6. CASE Drop \/ LuaTempBan
  <2>1. PICK m \in Members, full \in BOOLEAN, t \in Until :
          OnUserOf(m, TempBan(bans, now, m.ip, m.nick, full, t))
    <3>1. now < LastTick => now + 1 \in Until
      BY TickAssumption DEF Until, StoreInvariant
    <3> QED BY <1>6, <3>1 DEF Drop, LuaTempBan, TempBanCommand
  <2>2. m.ip \in Ips /\ m.nick \in Nicks
    BY DEF Members
  <2>3. PICK o \in TempBan(bans, now, m.ip, m.nick, full, t) : Does(o) /\ now' = now
    BY <2>1 DEF OnUserOf
  <2> QED BY <1>1, <1>2, <2>2, <2>3, UserBansPlaced
<1>7. CASE BanIpCommand \/ LuaBanIP
  <2>1. PICK ip \in Ips, full \in BOOLEAN : Does(BanIp(bans, now, ip, full)) /\ now' = now
    BY <1>7 DEF BanIpCommand, LuaBanIP, IpCommand
  <2> QED BY <1>1, <1>2, <2>1, BanIpPlaced
<1>8. CASE TempBanIpCommand \/ LuaTempBanIP
  <2>1. PICK ip \in Ips, full \in BOOLEAN, t \in Until :
          Does(TempBanIp(bans, now, ip, full, t)) /\ now' = now
    BY <1>8 DEF TempBanIpCommand, LuaTempBanIP, IpCommand
  <2> QED BY <1>1, <1>2, <2>1, TempBanIpPlaced
<1>9. CASE LuaBanNick
  <2>1. PICK nick \in Nicks : OnScriptName(nick, NickBan(bans, now, nick))
    BY <1>9 DEF LuaBanNick, NickBanCommand, BanAbsent, OnNameOf, Present
  <2>2. PICK o \in NickBan(bans, now, nick) : Does(o) /\ now' = now
    BY <2>1 DEF OnScriptName
  <2>3. 0 \in 0 .. LastTick
    BY TickAssumption
  <2> QED BY <1>1, <1>2, <2>2, <2>3, NickBansPlaced
<1>10. CASE LuaTempBanNick
  <2>1. PICK nick \in Nicks, t \in Until : OnScriptName(nick, NickTempBan(bans, now, nick, t))
    BY <1>10 DEF LuaTempBanNick, NickTempBanCommand, TempBanAbsent, OnNameOf, Present
  <2>2. PICK o \in NickTempBan(bans, now, nick, t) : Does(o) /\ now' = now
    BY <2>1 DEF OnScriptName
  <2> QED BY <1>1, <1>2, <2>2, NickBansPlaced
<1>11. CASE LuaRangeBan
  <2>1. PICK range \in Ranges, full \in BOOLEAN :
          DoesRange(RangeBan(ranges, range, full)) /\ now' = now
    BY <1>11 DEF LuaRangeBan, RangeBanCommand
  <2>2. 0 \in 0 .. LastTick
    BY TickAssumption
  <2> QED BY <1>1, <1>3, <2>1, <2>2, RangeBansPlaced
<1>12. CASE LuaRangeTempBan
  <2>1. PICK range \in Ranges, full \in BOOLEAN, t \in Until :
          DoesRange(RangeTempBan(ranges, range, full, t)) /\ now' = now
    BY <1>12 DEF LuaRangeTempBan, RangeTempBanCommand
  <2> QED BY <1>1, <1>3, <2>1, RangeBansPlaced
<1> QED BY <1>4, <1>5, <1>6, <1>7, <1>8, <1>9, <1>10, <1>11, <1>12 DEF Places
-----------------------------------------------------------------------------
\* What is looked up and listed: only the expired goes.
BansLooked ==
    \/ bans' = bans
    \/ \E S : /\ bans' = Rem(bans, S)
              /\ \A i \in S \cap DOMAIN bans : Expired(bans[i], now)
RangesLooked ==
    \/ ranges' = ranges
    \/ \E S \in SUBSET DOMAIN ranges :
         /\ ranges' = Keep(ranges, S)
         /\ \A i \in DOMAIN ranges \ S : Expired(ranges[i], now)

LEMMA LookedKeeps ==
    ASSUME StoreInvariant, now' = now, NoSave, BansLooked, RangesLooked
    PROVE  StoreInvariant' /\ AllKept
<1>1. bans \in Seq(Hung) /\ ranges \in Seq(HungRanges)
  BY DEF StoreInvariant
<1>2. bans' \in Seq(Hung) /\ BansKept(bans, bans', now)
  BY <1>1, NothingGoes, DropKeeps DEF BansLooked
<1>3. ranges' \in Seq(HungRanges) /\ RangesKept(ranges, ranges', now)
  BY <1>1, NothingGoes, RangesDropKeeps DEF RangesLooked
<1> QED BY <1>2, <1>3 DEF StoreInvariant, NoSave, AllKept

LEMMA OverdueExpired ==
    ASSUME NEW b, b.until \in Int, NEW t \in Int, OverdueBy(b, t)
    PROVE  Expired(b, t)
BY DEF OverdueBy, Expired

LEMMA LooksKeep ==
    ASSUME StoreInvariant, Looks
    PROVE  StoreInvariant' /\ AllKept
<1>1. /\ bans \in Seq(Hung) /\ ranges \in Seq(HungRanges) /\ now \in Int
      /\ \A i \in DOMAIN bans : bans[i] \in Hung /\ bans[i].until \in Int
      /\ \A i \in DOMAIN ranges : ranges[i] \in HungRanges /\ ranges[i].until \in Int
  BY UntilIs, SeqElements, HungFields, RangeFields DEF StoreInvariant
<1>2. now' = now /\ NoSave
  BY DEF Looks, AcceptUser, ValidateUserNick, CheckNickBan, CheckIpBan, LuaGetBan,
         LuaGetTempBan, LuaGetBans, GetTempBans, LuaGetRangeBans, GetRangeTempBans,
         LuaGetRangeBan, CheckRangeBan
<1>3. BansLooked /\ RangesLooked
  <2>1. CASE AcceptUser
    <3>1. PICK ip \in Ips :
            LET f == FindFull(bans, ip, now)
                r == FindFullRange(ranges, ip, now)
            IN  /\ bans' = Rem(bans, f.drop)
                /\ ranges' = ranges \/ ranges' = Keep(ranges, DOMAIN ranges \ r.drop)
      BY <2>1 DEF AcceptUser
    <3>2. /\ \A i \in FindFull(bans, ip, now).drop : Expired(bans[i], now)
          /\ \A i \in FindFullRange(ranges, ip, now).drop : Expired(ranges[i], now)
      BY FindIpDrops, FindRangeDrops DEF FindFull, FindFullRange
    <3>3. BansLooked
      BY <3>1, <3>2 DEF BansLooked
    <3>4. RangesLooked
      BY <3>1, <3>2 DEF RangesLooked
    <3> QED BY <3>3, <3>4
  <2>2. CASE ValidateUserNick
    <3>1. PICK nick \in Nicks : \E f \in FindNick(bans, nick, now, {}) :
            bans' = Rem(bans, f.drop) \/ bans' = bans
      BY <2>2 DEF ValidateUserNick
    <3>2. PICK f \in FindNick(bans, nick, now, {}) :
            bans' = Rem(bans, f.drop) \/ bans' = bans
      BY <3>1
    <3>3. ranges' = ranges
      BY <2>2 DEF ValidateUserNick
    <3> QED BY <1>1, <3>2, <3>3, FindNickIs DEF BansLooked, RangesLooked
  <2>3. CASE CheckNickBan
    <3>1. PICK nick \in Nicks : \E f \in FindNick(bans, nick, now, {}) :
            bans' = Rem(bans, f.drop) /\ ranges' = ranges
      BY <2>3 DEF CheckNickBan, Changed
    <3>2. PICK f \in FindNick(bans, nick, now, {}) :
            bans' = Rem(bans, f.drop) /\ ranges' = ranges
      BY <3>1
    <3> QED BY <1>1, <3>2, FindNickIs DEF BansLooked, RangesLooked
  <2>4. CASE CheckIpBan
    <3>1. PICK ip \in Ips :
            /\ bans' = Rem(bans, {i \in OnIp(bans, ip) : Expired(bans[i], now)})
            /\ ranges' = AppendMatchingRangeBans
      BY <2>4 DEF CheckIpBan, Changed
    <3> QED BY <3>1 DEF BansLooked, RangesLooked, AppendMatchingRangeBans
  <2>5. CASE LuaGetBan
    <3>1. PICK ip \in Ips :
            LET f == FindIp(bans, ip, now, {})
                rest == {i \in OnIp(bans, ip) : i < f.found /\ OverdueBy(bans[i], now)}
            IN  bans' = Rem(bans, f.drop \cup rest) /\ ranges' = ranges
      BY <2>5 DEF LuaGetBan, Changed
    <3> QED BY <1>1, <3>1, FindIpDrops, OverdueExpired, ZenonT(60) DEF BansLooked, RangesLooked
  <2>6. CASE LuaGetTempBan
    <3>1. PICK ip \in Ips :
            LET f == FindIp(bans, ip, now, {"TEMP"})
                rest == {i \in OnIp(bans, ip) : i < f.found /\ OverdueBy(bans[i], now)}
            IN  bans' = Rem(bans, f.drop \cup rest) /\ ranges' = ranges
      BY <2>6 DEF LuaGetTempBan, FindTempIp, Changed
    <3>2. \A i \in FindIp(bans, ip, now, {"TEMP"}).drop : Expired(bans[i], now)
      BY FindIpDrops
    <3>3. \A i \in DOMAIN bans : OverdueBy(bans[i], now) => Expired(bans[i], now)
      BY <1>1, OverdueExpired
    <3> QED BY <3>1, <3>2, <3>3 DEF BansLooked, RangesLooked
  <2>7. CASE LuaGetBans
    <3>1. bans' = Rem(bans, {i \in DOMAIN bans : OverdueBy(bans[i], now)})
          /\ ranges' = ranges
      BY <2>7 DEF LuaGetBans, GetTempBans, Purged, Changed
    <3>2. \A i \in DOMAIN bans : OverdueBy(bans[i], now) => Expired(bans[i], now)
      BY <1>1, OverdueExpired
    <3> QED BY <3>1, <3>2 DEF BansLooked, RangesLooked
  <2>8. CASE LuaGetRangeBans
    BY <1>1, <2>8, OverdueExpired
    DEF LuaGetRangeBans, GetRangeTempBans, PurgedRanges, Changed, BansLooked, RangesLooked
  <2>9. CASE LuaGetRangeBan
    BY <2>9, FindRangeDrops
    DEF LuaGetRangeBan, CheckRangeBan, Changed, BansLooked, RangesLooked
  <2> QED BY <2>1, <2>2, <2>3, <2>4, <2>5, <2>6, <2>7, <2>8, <2>9 DEF Looks
<1> QED BY <1>2, <1>3, LookedKeeps
-----------------------------------------------------------------------------
\* What is lifted, saved and loaded.

LEMMA LiftsType ==
    ASSUME StoreInvariant, Lifts
    PROVE  StoreInvariant'
<1>1. /\ bans \in Seq(Hung) /\ ranges \in Seq(HungRanges)
      /\ \A S : Rem(bans, S) \in Seq(Hung)
      /\ \A S \in SUBSET DOMAIN ranges : Keep(ranges, S) \in Seq(HungRanges)
      /\ <<>> \in Seq(Hung) /\ <<>> \in Seq(HungRanges)
  BY RemIs, KeepElements, EmptySeq DEF StoreInvariant
<1>2. now' = now
  BY DEF Lifts, ClearCommand, LuaUnban, UnbanCommand, PermUnbanCommand, TempUnbanCommand,
         LuaUnbanAll, LuaRangeUnban, RangeUnbanCommand, RangeUnbanOfKind, Unranges, LuaClearBans
<1>3. CASE ClearCommand
  <2>1. \/ \E d \in {ClearTemp(bans), ClearPerm(bans)} : Does([d |-> d, ok |-> TRUE])
        \/ \E d \in {ClearTempRange(ranges), ClearPermRange(ranges), <<>>} :
             DoesRange([d |-> d, ok |-> TRUE])
    BY <1>3 DEF ClearCommand
  <2>2. ClearTemp(bans) \in Seq(Hung) /\ ClearPerm(bans) \in Seq(Hung)
    BY <1>1 DEF ClearTemp, ClearPerm
  <2>3. ClearTempRange(ranges) \in Seq(HungRanges) /\ ClearPermRange(ranges) \in Seq(HungRanges)
    BY <1>1 DEF ClearTempRange, ClearPermRange
  <2> QED BY <1>1, <1>2, <2>1, <2>2, <2>3, DoesStore, DoesRangeStore
<1>4. CASE LuaUnban
  <2>1. \A f : Lifted(bans, f).d \in Seq(Hung)
    BY <1>1 DEF Lifted
  <2>2. \A x : /\ \A o \in Unban(bans, now, x) : o.d \in Seq(Hung)
               /\ \A o \in PermUnban(bans, x) : o.d \in Seq(Hung)
               /\ \A o \in TempUnban(bans, now, x) : o.d \in Seq(Hung)
    BY <2>1 DEF Unban, PermUnban, TempUnban
  <2>3. PICK o : o.d \in Seq(Hung) /\ Does(o)
    BY <1>4, <2>2 DEF LuaUnban, UnbanCommand, PermUnbanCommand, TempUnbanCommand
  <2> QED BY <1>2, <2>3, DoesStore
<1>5. CASE LuaUnbanAll
  <2>1. bans' \in Seq(Hung) /\ ranges' = ranges /\ NoSave
    BY <1>1, <1>5 DEF LuaUnbanAll, Changed, RemoveAllIP, RemovePermAllIP, RemoveTempAllIP
  <2> QED BY <1>2, <2>1 DEF StoreInvariant, NoSave
<1>6. CASE LuaRangeUnban
  <2>1. PICK range \in Ranges, match \in {{}, {"PERM"}, {"TEMP"}} :
          DoesRange([d |-> RangeUnban(ranges, range, match), ok |-> TRUE])
    BY <1>6 DEF LuaRangeUnban, RangeUnbanCommand, RangeUnbanOfKind, Unranges
  <2>2. RangeUnban(ranges, range, match) \in Seq(HungRanges)
    BY <1>1 DEF RangeUnban
  <2> QED BY <1>2, <2>1, <2>2, DoesRangeStore
<1>7. CASE LuaClearBans
  <2>1. ClearTemp(bans) \in Seq(Hung)
    BY <1>1 DEF ClearTemp
  <2>2. ClearPerm(ClearTemp(bans)) \in Seq(Hung)
    BY <2>1, RemIs DEF ClearPerm
  <2>3. bans' \in Seq(Hung) /\ ranges' = ranges
    BY <1>7, <2>2 DEF LuaClearBans, Changed
  <2>4. Saved(ClearTemp(bans)) \in Seq(Hung)
    BY <2>1, SavedIs
  <2>5. file' \in [bans : Seq(Hung), ranges : Seq(HungRanges)]
    <3>1. \/ file' = file
          \/ file' = [bans |-> <<>>, ranges |-> ranges]
          \/ file' = [bans |-> Saved(ClearTemp(bans)), ranges |-> ranges]
      BY <1>7 DEF LuaClearBans
    <3>2. file \in [bans : Seq(Hung), ranges : Seq(HungRanges)]
      BY DEF StoreInvariant
    <3>3. CASE file' = file
      BY <3>2, <3>3
    <3>4. CASE file' = [bans |-> <<>>, ranges |-> ranges]
      BY <1>1, <3>4
    <3>5. CASE file' = [bans |-> Saved(ClearTemp(bans)), ranges |-> ranges]
      BY <1>1, <2>4, <3>5
    <3> QED BY <3>1, <3>3, <3>4, <3>5
  <2>6. saveCalled' \in 0 .. SaveEvery
    BY <1>7, BoundsAssumption DEF LuaClearBans, StoreInvariant
  <2> QED BY <1>2, <2>3, <2>5, <2>6 DEF StoreInvariant
<1> QED BY <1>3, <1>4, <1>5, <1>6, <1>7 DEF Lifts

LEMMA RestartType ==
    ASSUME StoreInvariant, Restart \/ Crash
    PROVE  StoreInvariant'
<1>1. /\ saveCalled' \in 0 .. SaveEvery
      /\ file' \in [bans : Seq(Hung), ranges : Seq(HungRanges)]
  <2>1. CASE Restart
    <3>1. Save(bans, ranges, TRUE) /\ TRUE \in BOOLEAN
      BY <2>1 DEF Restart
    <3>2. bans \in Seq(Hung) /\ ranges \in Seq(HungRanges)
      BY DEF StoreInvariant
    <3> QED BY <3>1, <3>2, SaveType
  <2>2. CASE Crash
    BY <2>2, BoundsAssumption DEF Crash, StoreInvariant
  <2> QED BY <2>1, <2>2
<1>2. /\ now' = now /\ bans' = Loaded(file'.bans, now)
      /\ ranges' = LoadedRanges(file'.ranges, now)
  BY DEF Restart, Crash, Load
<1>3. file'.bans \in Seq(Hung) /\ file'.ranges \in Seq(HungRanges)
  BY <1>1
<1>4. bans' \in Seq(Hung) /\ ranges' \in Seq(HungRanges)
  BY <1>2, <1>3, LoadedIs
<1> QED BY <1>1, <1>2, <1>4 DEF StoreInvariant
-----------------------------------------------------------------------------
\* What a lookup finds.

LEMMA LeastAndGreatest ==
    ASSUME NEW n \in Nat, NEW S \in SUBSET (0 .. n), S # {}
    PROVE  /\ \E x \in S : \A y \in S : x >= y
           /\ \E x \in S : \A y \in S : x =< y
<1> DEFINE Has(Q) == Q # {} => /\ \E x \in Q : \A y \in Q : x >= y
                               /\ \E x \in Q : \A y \in Q : x =< y
           N == {k \in Nat : \A Q \in SUBSET (0 .. k) : Has(Q)}
<1>1. 0 \in N
  <2>1. ASSUME NEW Q \in SUBSET (0 .. 0), Q # {} PROVE Q = {0}
    <3>1. \A y \in Q : y = 0
      OBVIOUS
    <3> QED BY <2>1, <3>1
  <2>2. Has({0})
    OBVIOUS
  <2> QED BY <2>1, <2>2
<1>2. ASSUME NEW k \in Nat, k \in N PROVE k + 1 \in N
  <2> SUFFICES ASSUME NEW Q \in SUBSET (0 .. k + 1), Q # {} PROVE Has(Q)
    OBVIOUS
  <2> DEFINE Less == Q \ {k + 1}
  <2>1. Less \in SUBSET (0 .. k) /\ \A y \in Q : y \in Int /\ y <= k + 1
    OBVIOUS
  <2>2. Has(Less)
    BY <1>2, <2>1
  <2>3. CASE k + 1 \notin Q
    <3>1. Less = Q
      BY <2>3
    <3> QED BY <2>2, <3>1
  <2>4. CASE k + 1 \in Q
    <3>1. \A y \in Q : k + 1 >= y
      BY <2>1
    <3>2. CASE Less = {}
      <4>1. \A y \in Q : y = k + 1
        BY <3>2
      <4> QED BY <2>4, <4>1
    <3>3. CASE Less # {}
      <4>1. PICK x \in Less : \A y \in Less : x =< y
        BY <2>2, <3>3
      <4>2. \A y \in Q : x =< y
        BY <2>1, <4>1
      <4> QED BY <2>4, <3>1, <4>1, <4>2
    <3> QED BY <3>2, <3>3
  <2> QED BY <2>3, <2>4
<1> HIDE DEF N
<1>3. n \in N
  BY <1>1, <1>2, EveryNatural
<1> QED BY <1>3 DEF N

LEMMA FindIpFinds ==
    ASSUME NEW d \in Seq(Hung), NEW ip, NEW t, NEW match
    PROVE  LET f == FindIp(d, ip, t, match) IN
           /\ f.found \in DOMAIN d \cup {0}
           /\ f.found = 0 => \A i \in OnIp(d, ip) : Expired(d[i], t)
<1> DEFINE live == {i \in OnIp(d, ip) : ~Expired(d[i], t)}
           hits == {i \in live : match \subseteq d[i].bits}
           found == IF hits # {} THEN Max(hits) ELSE Max(live \cup {0})
<1>1. DOMAIN d = 1 .. Len(d) /\ Len(d) \in Nat
  BY SeqElements
<1>2. live \subseteq DOMAIN d /\ hits \subseteq live
  BY DEF OnIp
<1> HIDE DEF live, hits
<1>3. ASSUME hits # {} PROVE Max(hits) \in hits
  <2>1. hits \in SUBSET (0 .. Len(d))
    BY <1>1, <1>2
  <2> QED BY <1>1, <1>3, <2>1, LeastAndGreatest DEF Max
<1>4. Max(live \cup {0}) \in live \cup {0} /\ \A y \in live : Max(live \cup {0}) >= y
  <2>1. live \cup {0} \in SUBSET (0 .. Len(d)) /\ live \cup {0} # {}
    BY <1>1, <1>2
  <2>2. \E x \in live \cup {0} : \A y \in live \cup {0} : x >= y
    BY <1>1, <2>1, LeastAndGreatest
  <2> QED BY <2>2 DEF Max
<1>5. found \in DOMAIN d \cup {0}
  BY <1>2, <1>3, <1>4
<1>6. ASSUME NEW y \in live PROVE found # 0
  <2>1. \A z \in DOMAIN d : z \in Int /\ z > 0
    BY <1>1
  <2>2. CASE hits # {}
    <3>1. found = Max(hits) /\ Max(hits) \in DOMAIN d
      BY <1>2, <1>3, <2>2
    <3> QED BY <2>1, <3>1
  <2>3. CASE hits = {}
    <3>1. found = Max(live \cup {0}) /\ found >= y /\ found \in DOMAIN d \cup {0}
      BY <1>4, <1>5, <2>3
    <3> QED BY <1>2, <2>1, <3>1
  <2> QED BY <2>2, <2>3
<1>7. FindIp(d, ip, t, match).found = found
  BY DEF FindIp, live, hits
<1>8. live = {} => \A i \in OnIp(d, ip) : Expired(d[i], t)
  BY DEF live
<1> QED BY <1>5, <1>6, <1>7, <1>8

LEMMA FindRangeFinds ==
    ASSUME NEW r \in Seq(HungRanges), NEW ip, NEW t, NEW match
    PROVE  LET f == FindRange(r, ip, t, match) IN
           f.found = 0 => \A i \in DOMAIN r : ip \in InRange[r[i].range] => Expired(r[i], t)
<1> DEFINE over == {i \in DOMAIN r : ip \in InRange[r[i].range]}
           live == {i \in over : ~Expired(r[i], t)}
           hits == {i \in live : match \subseteq r[i].bits}
           found == CASE hits # {} -> Min(hits)
                      [] hits = {} /\ live # {} -> Min(live)
                      [] OTHER -> 0
<1>1. DOMAIN r = 1 .. Len(r) /\ Len(r) \in Nat
  BY SeqElements
<1>2. live \subseteq DOMAIN r /\ hits \subseteq live
  OBVIOUS
<1>3. FindRange(r, ip, t, match).found = found
  BY DEF FindRange
<1>4. live = {} => \A i \in DOMAIN r : ip \in InRange[r[i].range] => Expired(r[i], t)
  OBVIOUS
<1> HIDE DEF live, hits
<1>5. ASSUME NEW S \in SUBSET DOMAIN r, S # {} PROVE Min(S) \in S
  <2>1. S \in SUBSET (0 .. Len(r))
    BY <1>1
  <2> QED BY <1>1, <1>5, <2>1, LeastAndGreatest DEF Min
<1>6. ASSUME live # {} PROVE found # 0
  <2>1. CASE hits # {}
    <3>1. found = Min(hits) /\ Min(hits) \in DOMAIN r
      BY <1>2, <1>5, <2>1
    <3> QED BY <1>1, <3>1
  <2>2. CASE hits = {}
    <3>1. found = Min(live) /\ Min(live) \in DOMAIN r
      BY <1>2, <1>5, <1>6, <2>2
    <3> QED BY <1>1, <3>1
  <2> QED BY <2>1, <2>2
<1> QED BY <1>3, <1>4, <1>6
-----------------------------------------------------------------------------
\* The door: what is remembered of the address tells whether it was banned.

LEMMA AwayIs == Away \in Guests /\ Away.st = "away"
BY DEF Away, Guests

LEMMA AwayOpens ==
    ASSUME guest' = Away
    PROVE  DoorInvariant'
BY AwayIs DEF DoorInvariant, Inside

LEMMA GuestStays ==
    ASSUME DoorInvariant, guest' = guest
    PROVE  DoorInvariant'
BY DEF DoorInvariant

LEMMA AcceptedDoor ==
    ASSUME StoreInvariant, DoorInvariant, AcceptUser
    PROVE  DoorInvariant'
<1>1. PICK ip \in Ips :
         LET f == FindFull(bans, ip, now)
             r == FindFullRange(ranges, ip, now)
             memory == CASE f.found # 0 /\ "NICK" \in bans[f.found].bits ->
                              bans[f.found].nick
                         [] f.found # 0 /\ "NICK" \notin bans[f.found].bits ->
                              Nothing
                         [] f.found = 0 /\ r.found # 0 -> Nothing
                         [] OTHER -> Unbanned
         IN \/ guest' = Away
            \/ guest' = [st |-> "accepted", ip |-> ip, memory |-> memory,
                         was |-> Banned(ip, {})]
  BY DEF AcceptUser
<1> DEFINE f == FindFull(bans, ip, now)
           r == FindFullRange(ranges, ip, now)
           memory == CASE f.found # 0 /\ "NICK" \in bans[f.found].bits ->
                            bans[f.found].nick
                       [] f.found # 0 /\ "NICK" \notin bans[f.found].bits ->
                            Nothing
                       [] f.found = 0 /\ r.found # 0 -> Nothing
                       [] OTHER -> Unbanned
           was == Banned(ip, {})
<1>2. bans \in Seq(Hung) /\ ranges \in Seq(HungRanges)
  BY DEF StoreInvariant
<1>3. /\ f.found \in DOMAIN bans \cup {0}
      /\ f.found = 0 => \A i \in OnIp(bans, ip) : Expired(bans[i], now)
  BY <1>2, FindIpFinds DEF FindFull
<1>4. r.found = 0 => \A i \in DOMAIN ranges :
                        ip \in InRange[ranges[i].range] => Expired(ranges[i], now)
  BY <1>2, FindRangeFinds DEF FindFullRange
<1>5. f.found = 0 /\ r.found = 0 => ~was
  BY <1>3, <1>4 DEF Banned, RefusedIp, OnIp
<1>6. \A i \in DOMAIN bans : "NICK" \in bans[i].bits => bans[i].nick \in Nicks
  BY <1>2, SeqElements DEF Hung, Bans
<1>7. was \in BOOLEAN
  BY DEF Banned, RefusedIp
<1> HIDE DEF f, r, was
<1>8. memory \in Nicks \cup {Nothing, Unbanned}
  BY <1>3, <1>6
<1>9. memory = Unbanned => f.found = 0 /\ r.found = 0
  BY <1>3, <1>6, UnbannedAssumption
<1>10. \/ guest' = Away
       \/ guest' = [st |-> "accepted", ip |-> ip, memory |-> memory, was |-> was]
  BY <1>1 DEF f, r, was
<1> HIDE DEF memory
<1>11. CASE guest' = Away
  BY <1>11, AwayOpens
<1>12. CASE guest' = [st |-> "accepted", ip |-> ip, memory |-> memory, was |-> was]
  <2>1. guest' \in Guests
    BY <1>7, <1>8, <1>12 DEF Guests
  <2>2. guest'.st = "accepted" /\ guest'.memory = memory /\ guest'.was = was
    BY <1>12
  <2>3. guest'.memory = Unbanned => ~guest'.was
    BY <1>5, <1>9, <2>2
  <2>4. guest'.st \notin Inside
    BY <2>2 DEF Inside
  <2> QED BY <2>1, <2>3, <2>4 DEF DoorInvariant
<1> QED BY <1>10, <1>11, <1>12

LEMMA ValidatedDoor ==
    ASSUME DoorInvariant, ValidateUserNick
    PROVE  DoorInvariant'
<1>1. guest.st = "accepted" /\ guest \in Guests
  BY DEF ValidateUserNick, DoorInvariant
<1>2. guest.ip \in Ips /\ guest.was \in BOOLEAN
  BY <1>1 DEF Guests, Away, Inside
<1>3. PICK nick \in Nicks, kind \in Kinds, st \in Inside :
         \/ guest' = Away
         \/ /\ kind # "above" => guest.memory = Unbanned
            /\ guest' = [st |-> st, ip |-> guest.ip, nick |-> nick, kind |-> kind,
                         was |-> guest.was /\ kind = "plain"]
  BY DEF ValidateUserNick, Passes
<1>4. CASE guest' = Away
  BY <1>4, AwayOpens
<1>5. CASE /\ kind # "above" => guest.memory = Unbanned
           /\ guest' = [st |-> st, ip |-> guest.ip, nick |-> nick, kind |-> kind,
                        was |-> guest.was /\ kind = "plain"]
  <2>1. guest' \in Guests
    BY <1>2, <1>5 DEF Guests
  <2>2. guest'.st \in Inside /\ guest'.st # "accepted"
    BY <1>5 DEF Inside
  <2>3. guest'.kind = kind /\ (guest'.was => guest.was)
    BY <1>5
  <2>4. kind = "plain" => ~guest.was
    BY <1>1, <1>5 DEF DoorInvariant
  <2> QED BY <2>1, <2>2, <2>3, <2>4 DEF DoorInvariant
<1> QED BY <1>3, <1>4, <1>5

LEMMA PassedDoor ==
    ASSUME DoorInvariant, MyPass
    PROVE  DoorInvariant'
<1>1. guest.st \in {"ghost", "asked"} /\ guest \in Guests
      /\ guest' = [guest EXCEPT !.st = "in"]
  BY DEF MyPass, DoorInvariant
<1>2. guest \in [st : Inside, ip : Ips, nick : Nicks, kind : Kinds, was : BOOLEAN]
  BY <1>1 DEF Guests, Away
<1>3. guest' \in [st : Inside, ip : Ips, nick : Nicks, kind : Kinds, was : BOOLEAN]
  BY <1>1, <1>2 DEF Inside
<1>4. guest'.st = "in" /\ guest'.kind = guest.kind /\ guest'.was = guest.was
  BY <1>1, <1>2
<1>5. guest.st \in Inside
  BY <1>2
<1> QED BY <1>3, <1>4, <1>5 DEF DoorInvariant, Guests, Inside

LEMMA OtherDoors ==
    ASSUME DoorInvariant,
           Tick \/ Leaves \/ Places \/ Lifts \/ LuaSave \/ Restart \/ Crash
           \/ CheckNickBan \/ CheckIpBan \/ LuaGetBan \/ LuaGetTempBan \/ LuaGetBans
           \/ LuaGetRangeBans \/ LuaGetRangeBan
    PROVE  DoorInvariant'
<1>1. CASE Tick \/ Leaves \/ LuaSave \/ Restart \/ Crash
  BY <1>1, AwayOpens, GuestStays DEF Tick, Leaves, LuaSave, Restart, Crash, Load
<1>2. CASE Lifts
  BY <1>2, GuestStays
  DEF Lifts, ClearCommand, LuaUnban, UnbanCommand, PermUnbanCommand, TempUnbanCommand,
      LuaUnbanAll, LuaRangeUnban, RangeUnbanCommand, RangeUnbanOfKind, Unranges, LuaClearBans
<1>3. CASE \/ CheckNickBan \/ CheckIpBan \/ LuaGetBan \/ LuaGetTempBan \/ LuaGetBans
           \/ LuaGetRangeBans \/ LuaGetRangeBan
  BY <1>3, GuestStays
  DEF CheckNickBan, CheckIpBan, LuaGetBan, LuaGetTempBan, LuaGetBans, GetTempBans,
      LuaGetRangeBans, GetRangeTempBans, LuaGetRangeBan, CheckRangeBan
<1>4. CASE Places
  <2>1. guest' = Away \/ guest' = guest
    BY <1>4
    DEF Places, WrongPassword, Drop, OnUserOf, BanIpCommand, TempBanIpCommand, IpCommand,
        CloseIpBannedUsers, LuaBan, BanCommand, LuaTempBan, TempBanCommand, LuaBanIP,
        LuaTempBanIP, LuaBanNick, NickBanCommand, BanAbsent, OnNameOf, OnScriptName,
        LuaTempBanNick, NickTempBanCommand, TempBanAbsent, LuaRangeBan, RangeBanCommand,
        LuaRangeTempBan, RangeTempBanCommand
  <2> QED BY <2>1, AwayOpens, GuestStays
<1> QED BY <1>1, <1>2, <1>3, <1>4

LEMMA RestartIs ==
    ASSUME StoreInvariant, Restart
    PROVE  AllKept /\ ToSet(bans') \subseteq ToSet(bans) /\ ToSet(ranges') \subseteq ToSet(ranges)
<1>1. bans \in Seq(Hung) /\ ranges \in Seq(HungRanges)
  BY DEF StoreInvariant
<1>2. bans' = Loaded(Saved(bans), now) /\ ranges' = LoadedRanges(ranges, now)
  BY DEF Restart, Load, Save
<1>3. Saved(bans) \in Seq(Hung) /\ ToSet(Saved(bans)) = ToSet(bans)
  BY <1>1, SavedIs
<1>4. /\ ToSet(bans') = {b \in ToSet(bans) : ~Expired(b, now)}
      /\ ToSet(ranges') = {b \in ToSet(ranges) : ~Expired(b, now)}
  BY <1>1, <1>2, <1>3, LoadedIs
<1>5. /\ \A b \in ToSet(bans) : b \in Hung
      /\ \A b \in ToSet(ranges) : Lasts(b, b) /\ AsFirm(b, b)
  BY <1>1, SeqElements, RangeFields DEF ToSet, Lasts, AsFirm
<1>6. BansKept(bans, bans', now)
  BY <1>4, <1>5, KeptByItself DEF BansKept
<1>7. RangesKept(ranges, ranges', now)
  BY <1>4, <1>5 DEF RangesKept, RangeKept
<1> QED BY <1>4, <1>6, <1>7 DEF AllKept
-----------------------------------------------------------------------------
\* The invariant holds from the start and through every step.

LEMMA StoreInit ==
    ASSUME Init
    PROVE  StoreInvariant /\ DoorInvariant
<1>1. /\ saveCalled = 0 /\ now = 1 /\ guest = Away
      /\ bans = LoadXML(file.bans, 1) /\ ranges = LoadXMLRanges(file.ranges, 1)
  BY DEF Init
<1>2. <<>> \in Seq(Hung) /\ <<>> \in Seq(HungRanges)
  BY EmptySeq
<1>3. ASSUME NEW ip \in Ips
      PROVE  <<Add(<<>>, Of({"TEMP", "IP"}, ip, Nothing, 1))[1]>> \in Seq(Hung)
  <2> DEFINE n == Of({"TEMP", "IP"}, ip, Nothing, 1)
  <2>1. Ready(n)
    BY NothingAssumption, TickAssumption
    DEF Ready, Of, Hung, Bans, Bits, Table, Structures
  <2>2. Hooked(n) \in Hung
    BY <2>1 DEF Ready, Hooked
  <2>3. Append(<<>>, Hooked(n)) = <<Hooked(n)>>
    OBVIOUS
  <2>4. Add(<<>>, n)[1] = Hooked(n)
    BY <2>3 DEF Add, Hooked
  <2> HIDE DEF n
  <2>5. <<Hooked(n)>> \in Seq(Hung)
    BY <2>2
  <2> QED BY <2>4, <2>5 DEF n
<1>4. file \in [bans : Seq(Hung), ranges : Seq(HungRanges)]
  <2>1. PICK f \in {<<>>} \cup {<<Add(<<>>, Of({"TEMP", "IP"}, ip, Nothing, 1))[1]>> :
                             ip \in Ips} : file = [bans |-> f, ranges |-> <<>>]
    BY DEF Init
  <2>2. f \in Seq(Hung)
    BY <1>2, <1>3, <2>1
  <2> QED BY <1>2, <2>1, <2>2
<1>5. bans \in Seq(Hung) /\ ranges \in Seq(HungRanges)
  <2>1. file.bans \in Seq(Hung) /\ file.ranges \in Seq(HungRanges)
    BY <1>4
  <2> QED BY <1>1, <2>1, KeepElements DEF LoadXML, LoadXMLRanges
<1>6. now \in 1 .. LastTick /\ saveCalled \in 0 .. SaveEvery
  BY <1>1, TickAssumption, BoundsAssumption
<1> QED BY <1>1, <1>4, <1>5, <1>6, AwayIs DEF StoreInvariant, DoorInvariant, Inside

LEMMA StoreStep ==
    ASSUME StoreInvariant, DoorInvariant, [Next]_vars
    PROVE  StoreInvariant' /\ DoorInvariant'
<1>1. guest \in Guests
  BY DEF DoorInvariant
<1>2. CASE UNCHANGED vars
  BY <1>2, GuestStays DEF StoreInvariant, vars
<1>3. CASE Tick
  BY <1>3, OtherDoors, TickAssumption DEF StoreInvariant, Tick, store
<1>4. CASE MyPass
  BY <1>4, PassedDoor DEF StoreInvariant, MyPass, store
<1>5. CASE Leaves
  BY <1>5, OtherDoors DEF StoreInvariant, Leaves, store
<1>6. CASE Places
  BY <1>1, <1>6, OtherDoors, PlacesKeep
<1>7. CASE Lifts
  BY <1>7, OtherDoors, LiftsType
<1>8. CASE Looks
  BY <1>8, OtherDoors, LooksKeep, AcceptedDoor, ValidatedDoor DEF Looks
<1>9. CASE LuaSave
  <2>1. /\ Save(bans, ranges, TRUE) /\ TRUE \in BOOLEAN
        /\ UNCHANGED <<bans, ranges, now>>
    BY <1>9 DEF LuaSave
  <2>2. bans \in Seq(Hung) /\ ranges \in Seq(HungRanges)
    BY DEF StoreInvariant
  <2>3. StoreInvariant'
    BY <2>1, <2>2, SaveType DEF StoreInvariant
  <2> QED BY <1>9, <2>3, OtherDoors
<1>10. CASE Restart \/ Crash
  BY <1>10, OtherDoors, RestartType
<1> QED BY <1>2, <1>3, <1>4, <1>5, <1>6, <1>7, <1>8, <1>9, <1>10 DEF Next

\* Every ban hangs where its bits say, in memory and in the file, and a guest
\* of whom no ban is remembered came from an address without one: what the
\* properties of the bans rest on.
THEOREM StoreInvariantHolds == Spec => [](StoreInvariant /\ DoorInvariant)
<1>1. Init => StoreInvariant /\ DoorInvariant
  BY StoreInit
<1>2. StoreInvariant /\ DoorInvariant /\ [Next]_vars => (StoreInvariant /\ DoorInvariant)'
  BY StoreStep
<1> QED BY <1>1, <1>2, PTL DEF Spec

\* Rem, which takes a ban out of what its bits name, leaves it nowhere: bits
\* and places agree after every command, lookup, list, save and restart.
THEOREM TablesStayExact == Spec => []TablesExact
<1>1. ASSUME StoreInvariant, DoorInvariant PROVE TablesExact
  <2>1. \A i \in DOMAIN bans : bans[i] \in Hung
    BY <1>1, SeqElements DEF StoreInvariant
  <2>2. \A i \in DOMAIN file.bans : file.bans[i] \in Hung
    <3>1. file.bans \in Seq(Hung)
      BY <1>1 DEF StoreInvariant
    <3> QED BY <3>1, SeqElements
  <2>3. /\ \A i \in DOMAIN ranges : ranges[i] \in RangeBans
        /\ \A i \in DOMAIN file.ranges : file.ranges[i] \in RangeBans
    <3>1. file.ranges \in Seq(HungRanges) /\ ranges \in Seq(HungRanges)
      BY <1>1 DEF StoreInvariant
    <3> QED BY <3>1, SeqElements, RangeFields
  <2>4. \A s \in {bans, file.bans} : \A i \in DOMAIN s : s[i] \in Hung
    BY <2>1, <2>2
  <2>5. \A b \in Hung :
          /\ b \in Bans /\ b.at = Table(b.bits)
          /\ "PERM" \in b.bits <=> "TEMP" \notin b.bits
          /\ "NICK" \in b.bits <=> b.nick # Nothing
          /\ "IP" \in b.bits <=> b.ip # Nothing
          /\ b.bits \cap {"NICK", "IP"} # {}
    BY DEF Hung
  <2>6. now \in 1 .. LastTick /\ saveCalled \in 0 .. SaveEvery /\ guest \in Guests
    BY <1>1 DEF StoreInvariant, DoorInvariant
  <2> QED BY <2>3, <2>4, <2>5, <2>6 DEF TablesExact
<1> QED BY <1>1, StoreInvariantHolds, PTL

\* Who comes in without ENTERIFIPBAN was accepted from an address no ban and no
\* range was over: neither the nick check nor the password lets him past.
THEOREM NobodyComesPastTheDoor == Spec => []NobodyPastTheDoor
<1>1. DoorInvariant => NobodyPastTheDoor
  BY DEF DoorInvariant, NobodyPastTheDoor
<1> QED BY <1>1, StoreInvariantHolds, PTL

\* Of the bans that a command, a script, a lookup or a list of operators takes
\* away, none was still needed, whatever was banned how often before.
THEOREM OnlyLiftingWeakensHolds == Spec => OnlyLiftingWeakens
<1> DEFINE Kept == Covered(bans, ranges, bans', ranges') \/ Lifts \/ Crash
<1>1. ASSUME StoreInvariant, DoorInvariant, StoreInvariant', [Next]_vars PROVE [Kept]_vars
  <2>1. /\ bans \in Seq(Hung) /\ ranges \in Seq(HungRanges)
        /\ bans' \in Seq(Hung) /\ ranges' \in Seq(HungRanges)
        /\ now \in 1 .. LastTick /\ guest \in Guests
    BY <1>1 DEF StoreInvariant, DoorInvariant
  <2>2. ASSUME AllKept PROVE Kept
    BY <2>1, <2>2, KeptIsCovered DEF AllKept
  <2>3. CASE UNCHANGED <<bans, ranges>>
    BY <2>1, <2>2, <2>3, NothingGoes DEF AllKept
  <2>4. CASE Tick \/ MyPass \/ Leaves \/ LuaSave
    BY <2>3, <2>4 DEF Tick, MyPass, Leaves, LuaSave, store
  <2>5. CASE Places
    BY <1>1, <2>1, <2>2, <2>5, PlacesKeep
  <2>6. CASE Looks
    BY <1>1, <2>2, <2>6, LooksKeep
  <2>7. CASE Restart
    BY <1>1, <2>2, <2>7, RestartIs
  <2>8. CASE UNCHANGED vars
    BY <2>8
  <2> QED BY <1>1, <2>4, <2>5, <2>6, <2>7, <2>8 DEF Next
<1>2. StoreInvariant /\ DoorInvariant /\ StoreInvariant' /\ [Next]_vars => [Kept]_vars
  BY <1>1
<1> QED BY <1>2, StoreInvariantHolds, PTL DEF Spec, OnlyLiftingWeakens

\* A clean stop and the next start lose no ban that still holds and make none.
THEOREM RestartsKeep == Spec => RestartKeeps
<1> DEFINE Same == Restart => /\ Covered(bans, ranges, bans', ranges')
                              /\ Covered(bans', ranges', bans, ranges)
<1>1. ASSUME StoreInvariant, StoreInvariant', Restart
      PROVE  /\ Covered(bans, ranges, bans', ranges')
             /\ Covered(bans', ranges', bans, ranges)
  <2>1. /\ bans \in Seq(Hung) /\ ranges \in Seq(HungRanges)
        /\ bans' \in Seq(Hung) /\ ranges' \in Seq(HungRanges)
        /\ now \in 1 .. LastTick
    BY <1>1 DEF StoreInvariant
  <2>2. AllKept /\ ToSet(bans') \subseteq ToSet(bans) /\ ToSet(ranges') \subseteq ToSet(ranges)
    BY <1>1, RestartIs
  <2>3. Covered(bans, ranges, bans', ranges')
    BY <2>1, <2>2, KeptIsCovered DEF AllKept
  <2>4. Covered(bans', ranges', bans, ranges)
    BY <2>2 DEF Covered
  <2> QED BY <2>3, <2>4
<1>2. StoreInvariant /\ StoreInvariant' /\ [Next]_vars => [Same]_vars
  BY <1>1
<1> QED BY <1>2, StoreInvariantHolds, PTL DEF Spec, RestartKeeps
===============================================================================
