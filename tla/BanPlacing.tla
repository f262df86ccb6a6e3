------------------------------ MODULE BanPlacing ------------------------------
(***************************************************************************)
(* How BanManager places a ban: what becomes of the bans on the same nick, *)
(* address or range, and whether the new ban is added at all.  An outcome  *)
(* is the bans after the call and whether it added its ban: only then are  *)
(* the bans saved.                                                         *)
(***************************************************************************)
EXTENDS BanTables

Of(bits, ip, nick, until) ==
    [bits |-> bits, ip |-> ip, nick |-> nick, until |-> until, at |-> {}]
Level(full) == IF full THEN {"FULL"} ELSE {}

NoWeaker(o, n) == "FULL" \notin o.bits \/ "FULL" \in n.bits
Sterner(o, n) == "FULL" \notin o.bits /\ "FULL" \in n.bits
SameIp(o, n) == "IP" \in o.bits /\ o.ip = n.ip

Goes == "goes"          \* the old ban is removed, the new one not added
Nickless == "nameless"  \* it keeps its address and leaves the nick
Stays == "stays"

(* Ban: a permanent ban n of a user whose nick is under the ban o.         *)
MeetPermIgnoringFull(o, n) ==    \* mutant: the level of the old ban is not looked at
    IF "IP" \notin o.bits \/ SameIp(o, n) THEN [old |-> Goes, new |-> Stays]
    ELSE [old |-> Nickless, new |-> Stays]
MeetPerm(o, n) ==
    CASE "IP" \notin o.bits -> [old |-> Goes, new |-> Stays]
      [] "PERM" \in o.bits /\ SameIp(o, n) ->
           IF Sterner(o, n) THEN [old |-> Goes, new |-> Stays]
           ELSE [old |-> Stays, new |-> Goes]
      [] "PERM" \in o.bits /\ "IP" \in o.bits /\ ~SameIp(o, n) ->
           [old |-> Stays, new |-> Nickless]
      [] OTHER ->
           [old |-> IF SameIp(o, n) /\ NoWeaker(o, n) THEN Goes ELSE Nickless,
            new |-> Stays]

(* TempBan: n is temporary.  A permanent ban of the nick at another address*)
(* is left alone and the nick is banned a second time.                     *)
MeetTemp(o, n) ==
    CASE "PERM" \in o.bits /\ SameIp(o, n) ->
           [old |-> Stays, new |-> IF Sterner(o, n) THEN Nickless ELSE Goes]
      [] "PERM" \in o.bits /\ ~SameIp(o, n) ->
           [old |-> Stays, new |-> IF "IP" \in o.bits THEN Stays ELSE Nickless]
      [] "TEMP" \in o.bits /\ o.until < n.until ->
           [old |-> IF "IP" \notin o.bits \/ (SameIp(o, n) /\ NoWeaker(o, n))
                    THEN Goes ELSE Nickless,
            new |-> Stays]
      [] OTHER ->
           [old |-> Stays,
            new |-> IF SameIp(o, n) /\ ~Sterner(o, n) THEN Goes ELSE Nickless]

Lasting(n) == "PERM" \in n.bits
Outlives(n, o) == "TEMP" \in o.bits /\ o.until < n.until

Meet(o, n) == IF Lasting(n) THEN MeetPerm(o, n) ELSE MeetTemp(o, n)

(* The bans of the address that the ban of a user makes superfluous.       *)
Falls(o, n) ==
    /\ "NICK" \notin o.bits /\ NoWeaker(o, n)
    /\ ~Lasting(n) => "TEMP" \in o.bits /\ o.until <= n.until

OnUser(d, t, n) ==
    LET After(f) ==
          LET met == IF f.found = 0 THEN [old |-> Stays, new |-> Stays]
                     ELSE Meet(d[f.found], n)
              cut == IF met.old = Nickless
                     THEN [d EXCEPT ![f.found] = Nameless(@)] ELSE d
              left == Rem(cut, f.drop \cup (IF met.old = Goes THEN {f.found}
                                            ELSE {}))
              c == FindIp(left, n.ip, t, {})
              fall == {i \in OnIp(left, n.ip) : i <= c.found /\ Falls(left[i], n)}
          IN IF met.new = Goes THEN [d |-> Rem(d, f.drop), ok |-> FALSE]
             ELSE [d |-> Add(Rem(left, c.drop \cup fall),
                             IF met.new = Nickless THEN Nameless(n) ELSE n),
                   ok |-> TRUE]
    IN {After(f) : f \in FindNick(d, n.nick, t, {})}

Ban(d, t, ip, nick, full) ==
    OnUser(d, t, Of({"PERM", "IP", "NICK"} \cup Level(full), ip, nick, 0))
TempBan(d, t, ip, nick, full, until) ==
    OnUser(d, t, Of({"TEMP", "IP", "NICK"} \cup Level(full), ip, nick, until))

(* BanIp and TempBanIp: down the chain of the address to the first ban that*)
(* makes the new one superfluous; what fell before it stays removed.       *)
BlocksIp(o, n) ==
    /\ ~Sterner(o, n)
    /\ IF Lasting(n) THEN "PERM" \in o.bits ELSE ~Outlives(n, o)
FallsIp(o, n) ==
    /\ "NICK" \notin o.bits /\ NoWeaker(o, n)
    /\ ~Lasting(n) => Outlives(n, o)

OnAddress(d, t, n) ==
    LET c == FindIp(d, n.ip, t, {})
        chain == {i \in OnIp(d, n.ip) : i <= c.found}
        block == {i \in chain : BlocksIp(d[i], n)}
        fall == {i \in chain : FallsIp(d[i], n) /\ \A b \in block : i > b}
        left == Rem(d, c.drop \cup fall)
    IN IF block # {} THEN [d |-> left, ok |-> FALSE]
       ELSE [d |-> Add(left, n), ok |-> TRUE]

BanIp(d, t, ip, full) ==
    OnAddress(d, t, Of({"PERM", "IP"} \cup Level(full), ip, Nothing, 0))
TempBanIp(d, t, ip, full, until) ==
    OnAddress(d, t, Of({"TEMP", "IP"} \cup Level(full), ip, Nothing, until))

(* NickBan and NickTempBan: possible outcomes.                             *)
Yields(o, n) == "PERM" \notin o.bits /\ (Lasting(n) \/ o.until < n.until)

OnName(d, t, n) ==
    LET After(f) ==
          LET met == d[f.found]
              cut == [d EXCEPT ![f.found] = Nameless(@)]
          IN CASE f.found = 0 -> [d |-> Add(Rem(d, f.drop), n), ok |-> TRUE]
               [] f.found # 0 /\ ~Yields(met, n) ->
                    [d |-> Rem(d, f.drop), ok |-> FALSE]
               [] f.found # 0 /\ Yields(met, n) /\ "IP" \in met.bits ->
                    [d |-> Add(Rem(cut, f.drop), n), ok |-> TRUE]
               [] OTHER ->
                    [d |-> Add(Rem(d, f.drop \cup {f.found}), n), ok |-> TRUE]
    IN {After(f) : f \in FindNick(d, n.nick, t, {})}

NickBan(d, t, nick) ==
    OnName(d, t, Of({"PERM", "NICK"}, Nothing, nick, 0))
NickTempBan(d, t, nick, until) ==
    OnName(d, t, Of({"TEMP", "NICK"}, Nothing, nick, until))

(* RangeBan and RangeTempBan, over the bans of exactly this range.         *)
FallsRange(o, n) ==
    IF Lasting(n) THEN Lasting(o) /\ Sterner(o, n)
    ELSE Outlives(n, o) /\ NoWeaker(o, n)

OnRange(r, n) ==
    LET same == {i \in DOMAIN r : r[i].range = n.range}
        block == {i \in same : BlocksIp(r[i], n)}
        fall == {i \in same : FallsRange(r[i], n) /\ \A b \in block : i < b}
        left == Keep(r, DOMAIN r \ fall)
    IN IF block # {} THEN [d |-> left, ok |-> FALSE]
       ELSE [d |-> Append(left, n), ok |-> TRUE]

RangeBan(r, range, full) ==
    OnRange(r, [bits |-> {"PERM"} \cup Level(full), range |-> range, until |-> 0])
RangeTempBan(r, range, full, until) ==
    OnRange(r, [bits |-> {"TEMP"} \cup Level(full), range |-> range,
                until |-> until])
-----------------------------------------------------------------------------
(* Lifting.  Unban, PermUnban and TempUnban of a nick or of an address; the*)
(* lookup of an address may answer with a ban of the other kind.           *)
Lifted(d, f) == [d |-> Rem(d, f.drop \cup ({f.found} \ {0})), ok |-> f.found # 0]

Unban(d, t, x) ==
    IF x \in Nicks THEN {Lifted(d, f) : f \in FindNick(d, x, t, {})}
    ELSE {Lifted(d, FindIp(d, x, t, {}))}
PermUnban(d, x) ==
    IF x \in Nicks THEN {Lifted(d, f) : f \in FindPermNick(d, x)}
    ELSE {Lifted(d, FindPermIp(d, x))}
TempUnban(d, t, x) ==
    IF x \in Nicks THEN {Lifted(d, f) : f \in FindTempNick(d, x, t)}
    ELSE {Lifted(d, FindTempIp(d, x, t))}

RemoveAllIP(d, ip) == Rem(d, OnIp(d, ip))
RemovePermAllIP(d, ip) == Rem(d, {i \in OnIp(d, ip) : "PERM" \in d[i].bits})
RemoveTempAllIP(d, ip) == Rem(d, {i \in OnIp(d, ip) : "TEMP" \in d[i].bits})

(* RangeUnban removes the first ban of the range with the bits asked for.  *)
RangeUnban(r, range, match) ==
    LET of == {i \in DOMAIN r : r[i].range = range /\ match \subseteq r[i].bits}
    IN Keep(r, DOMAIN r \ (IF of = {} THEN {} ELSE {Min(of)}))

ClearTemp(d) == Rem(d, {i \in DOMAIN d : "temp" \in d[i].at})
ClearPerm(d) == Rem(d, {i \in DOMAIN d : "perm" \in d[i].at})
ClearTempRange(r) == Keep(r, {i \in DOMAIN r : "TEMP" \notin r[i].bits})
ClearPermRange(r) == Keep(r, {i \in DOMAIN r : "PERM" \notin r[i].bits})
-----------------------------------------------------------------------------
(* Save writes the temporary bans before the permanent ones; Load adds them*)
(* in the order of the file and leaves the expired out.  The file of older *)
(* versions (LoadXML) is read a second more leniently.                     *)
Saved(d) == Keep(d, {i \in DOMAIN d : "temp" \in d[i].at})
                \o Keep(d, {i \in DOMAIN d : "perm" \in d[i].at})
Loaded(f, t) == Keep(f, {i \in DOMAIN f : ~Expired(f[i], t)})
LoadedRanges(f, t) == Keep(f, {i \in DOMAIN f : ~Expired(f[i], t)})
LoadXML(f, t) == Keep(f, {i \in DOMAIN f : ~OverdueBy(f[i], t)})
LoadXMLRanges(f, t) == Keep(f, {i \in DOMAIN f : ~OverdueBy(f[i], t)})
=============================================================================
