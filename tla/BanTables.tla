------------------------------- MODULE BanTables -------------------------------
(***************************************************************************)
(* The bans of BanManager (hashBanManager.cpp) as a value: what the lookups*)
(* find and drop, and what each way of placing a ban does to the bans that *)
(* are already there.                                                      *)
(*                                                                         *)
(* A sequence of bans in the order of their adding stands for the two      *)
(* lists, the table of nicks and the table of addresses: a ban says in "at"*)
(* which of them it hangs in.  A list is in the order of adding, the chain *)
(* of an address in the reverse order, and the bans of one nick come in no *)
(* order to rely on (equal keys of an unordered multimap).                 *)
(***************************************************************************)
EXTENDS Naturals, Sequences, FiniteSets, FiniteSetsExt, SequencesExt

CONSTANTS
    Ips,       \* addresses
    Nicks,     \* nicks, compared without case
    Ranges,    \* ranges of addresses
    InRange,   \* the addresses of each range
    LastTick,  \* bound: the clock and every expiry stay below LastTick + 1
    Nothing    \* no nick, no address

ASSUME RangesAssumption == InRange \in [Ranges -> SUBSET Ips]
ASSUME TickAssumption == LastTick \in Nat \ {0}
ASSUME NothingAssumption == Nothing \notin Ips \cup Nicks

Bits == {"PERM", "TEMP", "FULL", "IP", "NICK"}
Structures == {"perm", "temp", "nicks", "ips"}

Bans == [bits : SUBSET Bits, ip : Ips \cup {Nothing},
         nick : Nicks \cup {Nothing}, until : 0 .. LastTick,
         at : SUBSET Structures]
RangeBans == [bits : SUBSET {"PERM", "TEMP", "FULL"}, range : Ranges,
              until : 0 .. LastTick]

(* Add2Table and Rem: the structures the bits of a ban ask for.            *)
Table(bits) ==
    {IF "PERM" \in bits THEN "perm" ELSE "temp"}
        \cup (IF "NICK" \in bits THEN {"nicks"} ELSE {})
        \cup (IF "IP" \in bits THEN {"ips"} ELSE {})

Add(d, b) == Append(d, [b EXCEPT !.at = Table(b.bits)])

(* What is left of a list when only the positions of S stay.               *)
InOrder(S) == CHOOSE p \in [1 .. Cardinality(S) -> S] :
                \A i, j \in 1 .. Cardinality(S) : i < j => p[i] < p[j]
Keep(s, S) == IF S = DOMAIN s THEN s
              ELSE LET p == InOrder(S) IN [j \in DOMAIN p |-> s[p[j]]]

(* Rem of the bans at the positions of S, and their end.                   *)
RemKeepingAddress(d, S) ==    \* mutant: a ban is not taken out of the addresses
    LET left == [i \in DOMAIN d |->
                   IF i \notin S THEN d[i]
                   ELSE [d[i] EXCEPT !.at = @ \ (Table(d[i].bits) \ {"ips"})]]
    IN Keep(left, {i \in DOMAIN left : left[i].at # {}})
Rem(d, S) ==
    LET left == [i \in DOMAIN d |->
                   IF i \notin S THEN d[i]
                   ELSE [d[i] EXCEPT !.at = @ \ Table(d[i].bits)]]
    IN Keep(left, {i \in DOMAIN left : left[i].at # {}})

(* RemFromNickTable and the end of NICK: the nick is banned by another ban.*)
Nameless(b) == [b EXCEPT !.bits = @ \ {"NICK"}, !.at = @ \ {"nicks"},
                         !.nick = Nothing]
-----------------------------------------------------------------------------
(* Lookups.  "found" is a position or 0, "drop" the expired bans that were *)
(* met and removed on the way.                                             *)

Expired(b, t) == "TEMP" \in b.bits /\ t >= b.until

OnIp(d, ip) == {i \in DOMAIN d : "ips" \in d[i].at /\ d[i].ip = ip}
OnNick(d, nick) == {i \in DOMAIN d : "nicks" \in d[i].at /\ d[i].nick = nick}

(* FindIpBanGeneric: the first ban with the wanted bits or, when the chain *)
(* has none, its first ban of any kind.                                    *)
FindIp(d, ip, t, match) ==
    LET live == {i \in OnIp(d, ip) : ~Expired(d[i], t)}
        hits == {i \in live : match \subseteq d[i].bits}
    IN [found |-> IF hits # {} THEN Max(hits) ELSE Max(live \cup {0}),
        drop |-> {i \in OnIp(d, ip) \ live : \A h \in hits : i > h}]

(* FindNickBanGeneric, which has no such second choice: the possible       *)
(* answers.                                                                *)
FindNick(d, nick, t, match) ==
    LET live == {i \in OnNick(d, nick) : ~Expired(d[i], t)}
        hits == {i \in live : match \subseteq d[i].bits}
        dead == OnNick(d, nick) \ live
    IN IF hits = {} THEN {[found |-> 0, drop |-> dead]}
       ELSE {[found |-> h, drop |-> x] : h \in hits, x \in SUBSET dead}

(* FindRangeBanGeneric.                                                    *)
FindRange(r, ip, t, match) ==
    LET over == {i \in DOMAIN r : ip \in InRange[r[i].range]}
        live == {i \in over : ~Expired(r[i], t)}
        hits == {i \in live : match \subseteq r[i].bits}
    IN [found |-> CASE hits # {} -> Min(hits)
                    [] hits = {} /\ live # {} -> Min(live)
                    [] OTHER -> 0,
        drop |-> {i \in over \ live : \A h \in hits : i < h}]

(* FindRange of a whole range: its first ban that has not expired.         *)
FindSameRange(r, range, t) ==
    LET same == {i \in DOMAIN r : r[i].range = range}
        live == {i \in same : ~Expired(r[i], t)}
    IN [found |-> IF live = {} THEN 0 ELSE Min(live),
        drop |-> {i \in same \ live : \A h \in live : i < h}]

(* FindFull, FindIP and FindTempIP go by the clock; FindPermIP and         *)
(* FindPermNick go by a clock of 0, for which nothing has expired.         *)
FindFull(d, ip, t) == FindIp(d, ip, t, {"FULL"})
FindPermNick(d, nick) == FindNick(d, nick, 0, {"PERM"})
FindPermIp(d, ip) == FindIp(d, ip, 0, {"PERM"})
FindTempNick(d, nick, t) == FindNick(d, nick, t, {"TEMP"})
FindTempIp(d, ip, t) == FindIp(d, ip, t, {"TEMP"})
FindFullRange(r, ip, t) == FindRange(r, ip, t, {"FULL"})

(* Walks over the list of temporary bans (Find, Remove, the lists of       *)
(* operators and scripts) drop a ban a second later than the lookups do.   *)
OverdueBy(b, t) == "TEMP" \in b.bits /\ t > b.until
Purged(d, t) == Rem(d, {i \in DOMAIN d : OverdueBy(d[i], t)})
PurgedRanges(r, t) == Keep(r, {i \in DOMAIN r : ~OverdueBy(r[i], t)})

(* What the lookups amount to: who is refused, and how firmly.             *)
RefusedIp(d, r, ip, t, level) ==
    \/ \E i \in DOMAIN d :
          /\ d[i].ip = ip /\ "ips" \in d[i].at
          /\ ~Expired(d[i], t) /\ level \subseteq d[i].bits
    \/ \E i \in DOMAIN r : /\ ip \in InRange[r[i].range] /\ ~Expired(r[i], t)
                           /\ level \subseteq r[i].bits
RefusedNick(d, nick, t) ==
    \E i \in DOMAIN d : d[i].nick = nick /\ "nicks" \in d[i].at /\ ~Expired(d[i], t)
=============================================================================
