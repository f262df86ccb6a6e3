------------------------------ MODULE BanManager ------------------------------
(***************************************************************************)
(* The bans of a running hub: the operations of operators, scripts and of  *)
(* the hub itself, the lookups at the door and what they let in, the lazy  *)
(* saves, a restart and a crash.                                           *)
(*                                                                         *)
(* One connection is followed, the guest.  The other members are not: any  *)
(* nick but the guest's may be in from any address, and be banned from it. *)
(***************************************************************************)
EXTENDS BanPlacing

CONSTANTS
    MaxBans,     \* bound: bans and range bans together
    SaveEvery    \* saves that are only counted (100 in the code)

ASSUME BoundsAssumption == MaxBans \in Nat /\ SaveEvery \in Nat

VARIABLES
    bans,        \* the lists and tables of bans
    ranges,      \* m_RangeBanList
    file,        \* Bans.pxb and RangeBans.pxb
    saveCalled,  \* m_ui32SaveCalled
    now,         \* the clock
    guest        \* the connection

vars == <<bans, ranges, file, saveCalled, now, guest>>
store == <<bans, ranges, file, saveCalled>>

Away == [st |-> "away"]
Unbanned == "none"
ASSUME UnbannedAssumption == Unbanned \notin Nicks \cup {Nothing}
(* plain: no profile, or one without ENTERIFIPBAN that operators outrank;  *)
(* above: a profile with ENTERIFIPBAN, out of reach of the operators.      *)
Kinds == {"plain", "above"}
(* ghost: somebody else holds the registered nick, and this connection is  *)
(* not hashed before it has given the password; asked: hashed, the password*)
(* is awaited; in: hashed, with its profile if it has one.                 *)
Inside == {"ghost", "asked", "in"}
Guests ==
    {Away}
    \cup [st : {"accepted"}, ip : Ips, memory : Nicks \cup {Nothing, Unbanned},
          was : BOOLEAN]
    \cup [st : Inside, ip : Ips, nick : Nicks, kind : Kinds,
          was : BOOLEAN]

Banned(ip, level) == RefusedIp(bans, ranges, ip, now, level)

Changed(b, r) ==
    /\ Len(b) + Len(r) <= MaxBans
    /\ bans' = b /\ ranges' = r

(* Save: the file is written when more than SaveEvery calls were counted.  *)
SaveForgettingRanges(b, r, force) ==    \* mutant: the file of the ranges is left as it is
    IF ~force /\ saveCalled < SaveEvery
    THEN saveCalled' = saveCalled + 1 /\ UNCHANGED file
    ELSE saveCalled' = 0 /\ file' = [bans |-> Saved(b), ranges |-> file.ranges]
Save(b, r, force) ==
    IF ~force /\ saveCalled < SaveEvery
    THEN saveCalled' = saveCalled + 1 /\ UNCHANGED file
    ELSE saveCalled' = 0 /\ file' = [bans |-> Saved(b), ranges |-> r]
NoSave == UNCHANGED <<file, saveCalled>>

(* One call of the manager that changes the bans, or the range bans.       *)
Does(o) ==
    /\ Changed(o.d, ranges)
    /\ IF o.ok THEN Save(o.d, ranges, FALSE) ELSE NoSave
DoesRange(o) ==
    /\ Changed(bans, o.d)
    /\ IF o.ok THEN Save(bans, o.d, FALSE) ELSE NoSave

Until == {t \in 1 .. LastTick : t > now}

Init ==
    /\ \E f \in {<<>>} \cup {<<Add(<<>>, Of({"TEMP", "IP"}, ip, Nothing, 1))[1]>> :
                             ip \in Ips} :
          file = [bans |-> f, ranges |-> <<>>]
    /\ bans = LoadXML(file.bans, 1) /\ ranges = LoadXMLRanges(file.ranges, 1)
    /\ saveCalled = 0 /\ now = 1 /\ guest = Away

Tick == now < LastTick /\ now' = now + 1 /\ UNCHANGED <<store, guest>>
-----------------------------------------------------------------------------
(* The door.                                                               *)

(* AcceptUser: the address is looked up once.                              *)
AcceptUser ==
    /\ guest = Away
    /\ \E ip \in Ips :
         LET f == FindFull(bans, ip, now)
             r == FindFullRange(ranges, ip, now)
             full == f.found # 0 /\ "FULL" \in bans[f.found].bits
             fullRange == r.found # 0 /\ "FULL" \in ranges[r.found].bits
             memory == CASE f.found # 0 /\ "NICK" \in bans[f.found].bits ->
                              bans[f.found].nick
                         [] f.found # 0 /\ "NICK" \notin bans[f.found].bits ->
                              Nothing
                         [] f.found = 0 /\ r.found # 0 -> Nothing
                         [] OTHER -> Unbanned
         IN /\ bans' = Rem(bans, f.drop)
            /\ ranges' = IF full THEN ranges
                         ELSE Keep(ranges, DOMAIN ranges \ r.drop)
            /\ guest' = IF full \/ fullRange THEN Away
                        ELSE [st |-> "accepted", ip |-> ip, memory |-> memory,
                              was |-> Banned(ip, {})]
    /\ NoSave /\ UNCHANGED now

(* ValidateUserNick: the remembered ban of this very nick, then the bans   *)
(* of the nick, then the remembered ban of the address.                    *)
PassesIgnoringMemory(nick, kind) == TRUE    \* mutant: the remembered ban is not used
Passes(nick, kind) ==
    /\ guest.memory # nick
    /\ kind # "above" => guest.memory = Unbanned

ValidateUserNick ==
    /\ guest.st = "accepted"
    /\ \E nick \in Nicks, kind \in Kinds, st \in Inside :
         \E f \in FindNick(bans, nick, now, {}) :
            LET look == guest.memory # nick IN
            /\ bans' = IF look THEN Rem(bans, f.drop) ELSE bans
            /\ kind = "above" => st # "in"
            /\ guest' = IF f.found = 0 /\ Passes(nick, kind)
                        THEN [st |-> st, ip |-> guest.ip, nick |-> nick,
                              kind |-> kind,
                              was |-> guest.was /\ kind = "plain"]
                        ELSE Away
    /\ NoSave /\ UNCHANGED <<ranges, now>>

(* MyPass: no ban is looked up any more.                                   *)
MyPass ==
    /\ guest.st \in {"ghost", "asked"} /\ guest' = [guest EXCEPT !.st = "in"]
    /\ UNCHANGED <<store, now>>

(* MyPass again: the first wrong password closes, the third one from an    *)
(* address bans it fully when nothing does yet.                            *)
WrongPassword ==
    /\ guest.st \in {"ghost", "asked"}
    /\ LET f == FindFull(bans, guest.ip, now)
           left == Rem(bans, f.drop)
           full == f.found # 0 /\ "FULL" \in bans[f.found].bits
       IN \E o \in {[d |-> left, ok |-> FALSE]}
                   \cup {x \in {BanIp(left, now, guest.ip, TRUE)}
                              \cup {TempBanIp(left, now, guest.ip, TRUE, t) :
                                       t \in Until} : ~full} : Does(o)
    /\ guest' = Away /\ UNCHANGED now

Leaves == guest # Away /\ guest' = Away /\ UNCHANGED <<store, now>>
-----------------------------------------------------------------------------
(* Commands of operators.  What is refused changes nothing.                *)

Online == guest.st \in {"asked", "in"}
Above == guest.st = "in" /\ guest.kind = "above"
Members == {m \in [ip : Ips, nick : Nicks] :
              Online /\ guest.nick = m.nick => guest.ip = m.ip}
OutOfReach(m) == Above /\ guest.nick = m.nick
HeldAbove(nick) == guest.st \in Inside /\ guest.nick = nick /\ guest.kind = "above"

(* A user is closed with his ban, whether it was added or not.  One who is *)
(* let in as a ghost may be under a ban of his nick: it was placed, with   *)
(* that of the user he replaces, while his password was awaited.           *)
OnUserOf(m, outcomes) ==
    /\ \E o \in outcomes : Does(o)
    /\ guest' = IF Online /\ guest.nick = m.nick THEN Away ELSE guest
    /\ UNCHANGED now

BanCommand ==
    \E m \in Members, full \in BOOLEAN :
       ~OutOfReach(m) /\ OnUserOf(m, Ban(bans, now, m.ip, m.nick, full))

TempBanCommand ==
    \E m \in Members, full \in BOOLEAN, t \in Until :
       /\ ~OutOfReach(m)
       /\ OnUserOf(m, TempBan(bans, now, m.ip, m.nick, full, t))

(* The default time of a ban is one tick.                                  *)
Drop ==
    \E m \in Members :
       /\ ~OutOfReach(m) /\ now < LastTick
       /\ OnUserOf(m, TempBan(bans, now, m.ip, m.nick, FALSE, now + 1))

(* CloseIpBannedUsers, after a ban that was added.                         *)
CloseIpBannedUsers(ip) ==
    guest' = IF Online /\ ~Above /\ guest.ip = ip THEN Away ELSE guest

IpCommand(ip, o) ==
    /\ Does(o) /\ UNCHANGED now
    /\ IF o.ok THEN CloseIpBannedUsers(ip) ELSE UNCHANGED guest

BanIpCommand ==
    \E ip \in Ips, full \in BOOLEAN : IpCommand(ip, BanIp(bans, now, ip, full))

TempBanIpCommand ==
    \E ip \in Ips, full \in BOOLEAN, t \in Until :
        IpCommand(ip, TempBanIp(bans, now, ip, full, t))

(* !nickban and !nicktempban close a present user even when no ban was     *)
(* added; the nick of an absent one is banned by !ban and !tempban as well.*)
OnScriptName(nick, outcomes) ==
    /\ \E o \in outcomes : Does(o)
    /\ guest' = IF Online /\ guest.nick = nick THEN Away ELSE guest
    /\ UNCHANGED now
OnNameOf(nick, outcomes) == ~HeldAbove(nick) /\ OnScriptName(nick, outcomes)

(* HubCommands::NickBan and TempNickBan.                                   *)
Present == {nick \in Nicks : Online /\ guest.nick = nick}

BanAbsent ==
    \E nick \in Nicks \ Present : OnNameOf(nick, NickBan(bans, now, nick))

TempBanAbsent ==
    \E nick \in Nicks \ Present, t \in Until :
        OnNameOf(nick, NickTempBan(bans, now, nick, t))

NickBanCommand ==
    \/ BanAbsent
    \/ \E nick \in Present : OnNameOf(nick, NickBan(bans, now, nick))

NickTempBanCommand ==
    \/ TempBanAbsent
    \/ \E nick \in Present, t \in Until :
          OnNameOf(nick, NickTempBan(bans, now, nick, t))

RangeBanCommand ==
    /\ \E range \in Ranges, full \in BOOLEAN :
          DoesRange(RangeBan(ranges, range, full))
    /\ UNCHANGED <<now, guest>>

RangeTempBanCommand ==
    /\ \E range \in Ranges, full \in BOOLEAN, t \in Until :
          DoesRange(RangeTempBan(ranges, range, full, t))
    /\ UNCHANGED <<now, guest>>

(* RangeUnban saves whether it found a ban or not.                         *)
Unranges(match) ==
    /\ \E range \in Ranges :
          DoesRange([d |-> RangeUnban(ranges, range, match), ok |-> TRUE])
    /\ UNCHANGED <<now, guest>>

RangeUnbanCommand == Unranges({})
RangeUnbanOfKind == Unranges({"PERM"}) \/ Unranges({"TEMP"})

UnbanCommand ==
    /\ \E x \in Nicks \cup Ips : \E o \in Unban(bans, now, x) : Does(o)
    /\ UNCHANGED <<now, guest>>

PermUnbanCommand ==
    /\ \E x \in Nicks \cup Ips : \E o \in PermUnban(bans, x) : Does(o)
    /\ UNCHANGED <<now, guest>>

TempUnbanCommand ==
    /\ \E x \in Nicks \cup Ips : \E o \in TempUnban(bans, now, x) : Does(o)
    /\ UNCHANGED <<now, guest>>

(* ClrTempBans, ClrPermBans, ClrRangeTempBans, ClrRangePermBans, ClrRange..*)
ClearCommand ==
    /\ \/ \E d \in {ClearTemp(bans), ClearPerm(bans)} : Does([d |-> d, ok |-> TRUE])
       \/ \E d \in {ClearTempRange(ranges), ClearPermRange(ranges), <<>>} :
             DoesRange([d |-> d, ok |-> TRUE])
    /\ UNCHANGED <<now, guest>>

(* The lists: the overdue bans go as the list is made.                     *)
GetTempBans ==
    /\ Changed(Purged(bans, now), ranges)
    /\ NoSave /\ UNCHANGED <<now, guest>>

GetRangeTempBans ==
    /\ Changed(bans, PurgedRanges(ranges, now))
    /\ NoSave /\ UNCHANGED <<now, guest>>

CheckNickBan ==
    /\ \E nick \in Nicks : \E f \in FindNick(bans, nick, now, {}) :
          Changed(Rem(bans, f.drop), ranges)
    /\ NoSave /\ UNCHANGED <<now, guest>>

(* Every ban of an address and every range around it.                      *)
AppendMatchingRangeBans ==
    Keep(ranges, {i \in DOMAIN ranges : ~Expired(ranges[i], now)})
CheckIpBan ==
    /\ \E ip \in Ips :
          Changed(Rem(bans, {i \in OnIp(bans, ip) : Expired(bans[i], now)}),
                  AppendMatchingRangeBans)
    /\ NoSave /\ UNCHANGED <<now, guest>>

CheckRangeBan ==
    /\ \E range \in Ranges :
          Changed(bans, Keep(ranges, DOMAIN ranges
                               \ FindSameRange(ranges, range, now).drop))
    /\ NoSave /\ UNCHANGED <<now, guest>>
-----------------------------------------------------------------------------
(* Scripts.  Those that ban a user need him online; the address of a script*)
(* ban is not swept.                                                       *)

LuaBan ==
    \/ BanCommand
    \/ \E m \in Members, full \in BOOLEAN :
          OutOfReach(m) /\ OnUserOf(m, Ban(bans, now, m.ip, m.nick, full))

LuaTempBan ==
    \/ TempBanCommand
    \/ \E m \in Members, full \in BOOLEAN, t \in Until :
          /\ OutOfReach(m)
          /\ OnUserOf(m, TempBan(bans, now, m.ip, m.nick, full, t))

LuaBanIP ==
    /\ \E ip \in Ips, full \in BOOLEAN : Does(BanIp(bans, now, ip, full))
    /\ UNCHANGED <<now, guest>>

LuaTempBanIP ==
    /\ \E ip \in Ips, full \in BOOLEAN, t \in Until :
          Does(TempBanIp(bans, now, ip, full, t))
    /\ UNCHANGED <<now, guest>>

LuaBanNick ==
    \/ NickBanCommand
    \/ \E nick \in Nicks :
          HeldAbove(nick) /\ OnScriptName(nick, NickBan(bans, now, nick))

LuaTempBanNick ==
    \/ NickTempBanCommand
    \/ \E nick \in Nicks, t \in Until :
          HeldAbove(nick) /\ OnScriptName(nick, NickTempBan(bans, now, nick, t))

LuaRangeBan == RangeBanCommand
LuaRangeTempBan == RangeTempBanCommand

LuaUnban == UnbanCommand \/ PermUnbanCommand \/ TempUnbanCommand
LuaRangeUnban == RangeUnbanCommand \/ RangeUnbanOfKind

(* UnbanAll, UnbanPermAll and UnbanTempAll: the only changes that no save  *)
(* follows.                                                                *)
LuaUnbanAll ==
    /\ \E ip \in Ips :
          \E d \in {RemoveAllIP(bans, ip), RemovePermAllIP(bans, ip),
                    RemoveTempAllIP(bans, ip)} : Changed(d, ranges)
    /\ NoSave /\ UNCHANGED <<now, guest>>

(* ClearBans clears the temporary bans, then the permanent ones.           *)
LuaClearBans ==
    /\ Changed(ClearPerm(ClearTemp(bans)), ranges)
    /\ IF saveCalled + 1 < SaveEvery
       THEN saveCalled' = saveCalled + 2 /\ UNCHANGED file
       ELSE IF saveCalled < SaveEvery
       THEN saveCalled' = 0 /\ file' = [bans |-> <<>>, ranges |-> ranges]
       ELSE IF SaveEvery = 0
       THEN saveCalled' = 0 /\ file' = [bans |-> <<>>, ranges |-> ranges]
       ELSE /\ saveCalled' = 1
            /\ file' = [bans |-> Saved(ClearTemp(bans)), ranges |-> ranges]
    /\ UNCHANGED <<now, guest>>

(* GetBan: the ban of a nick and every ban of an address; the first one of *)
(* the address goes by the clock of the lookups, the rest by that of lists.*)
LuaGetBan ==
    /\ \E ip \in Ips :
          LET f == FindIp(bans, ip, now, {})
              rest == {i \in OnIp(bans, ip) : i < f.found
                                              /\ OverdueBy(bans[i], now)}
          IN Changed(Rem(bans, f.drop \cup rest), ranges)
    /\ NoSave /\ UNCHANGED <<now, guest>>

LuaGetTempBan ==
    /\ \E ip \in Ips :
          LET f == FindTempIp(bans, ip, now)
              rest == {i \in OnIp(bans, ip) : i < f.found
                                              /\ OverdueBy(bans[i], now)}
          IN Changed(Rem(bans, f.drop \cup rest), ranges)
    /\ NoSave /\ UNCHANGED <<now, guest>>

LuaGetBans == GetTempBans
LuaGetRangeBans == GetRangeTempBans
LuaGetRangeBan == CheckRangeBan

LuaSave ==
    /\ Save(bans, ranges, TRUE) /\ UNCHANGED <<bans, ranges, now, guest>>
-----------------------------------------------------------------------------
Load(f) == /\ bans' = Loaded(f.bans, now)
           /\ ranges' = LoadedRanges(f.ranges, now)
           /\ guest' = Away /\ UNCHANGED now

(* A clean stop saves whatever was counted; a crash does not.              *)
Restart == Save(bans, ranges, TRUE) /\ Load(file')
Crash == Load(file) /\ saveCalled' = 0 /\ UNCHANGED file

(* The functions of scripts stand for the commands they contain, and       *)
(* NickBanCommand and NickTempBanCommand for the bans of an absent user.   *)
Places ==
    \/ WrongPassword \/ Drop \/ BanIpCommand \/ TempBanIpCommand
    \/ LuaBan \/ LuaTempBan \/ LuaBanIP \/ LuaTempBanIP
    \/ LuaBanNick \/ LuaTempBanNick \/ LuaRangeBan \/ LuaRangeTempBan
Lifts ==
    \/ ClearCommand \/ LuaUnban \/ LuaUnbanAll \/ LuaRangeUnban \/ LuaClearBans
Looks ==
    \/ AcceptUser \/ ValidateUserNick \/ CheckNickBan \/ CheckIpBan
    \/ LuaGetBan \/ LuaGetTempBan \/ LuaGetBans \/ LuaGetRangeBans
    \/ LuaGetRangeBan
Next ==
    \/ Tick \/ MyPass \/ Leaves \/ Places \/ Lifts \/ Looks
    \/ LuaSave \/ Restart \/ Crash

Spec == Init /\ [][Next]_vars
-----------------------------------------------------------------------------
(* Every ban hangs in exactly the list and the tables its bits name, is    *)
(* permanent or temporary, and bans a nick, an address or both: Rem finds  *)
(* what to take out by the bits alone, so a ban whose bits and places      *)
(* disagree would be freed while a table still points to it.               *)
TablesExact ==
    /\ now \in 1 .. LastTick /\ saveCalled \in 0 .. SaveEvery /\ guest \in Guests
    /\ \A s \in {bans, file.bans} : \A i \in DOMAIN s :
         LET b == s[i] IN
         /\ b \in Bans /\ b.at = Table(b.bits)
         /\ "PERM" \in b.bits <=> "TEMP" \notin b.bits
         /\ "NICK" \in b.bits <=> b.nick # Nothing
         /\ "IP" \in b.bits <=> b.ip # Nothing
         /\ b.bits \cap {"NICK", "IP"} # {}
    /\ \A s \in {ranges, file.ranges} : \A i \in DOMAIN s : s[i] \in RangeBans

(* From now on the bans d2 and r2 refuse all that d and r refuse: each ban *)
(* that is not there any more is made up for by others.                    *)
Covered(d, r, d2, r2) ==
    /\ \A b \in ToSet(d) \ ToSet(d2), t \in now .. LastTick :
          ~Expired(b, t) =>
             /\ "ips" \in b.at => RefusedIp(d2, r2, b.ip, t, b.bits \cap {"FULL"})
             /\ "nicks" \in b.at => RefusedNick(d2, b.nick, t)
    /\ \A b \in ToSet(r) \ ToSet(r2), t \in now .. LastTick :
          ~Expired(b, t) =>
             \A ip \in InRange[b.range] :
                RefusedIp(d2, r2, ip, t, b.bits \cap {"FULL"})

(* Whatever is banned stays banned as long and as firmly as before until   *)
(* somebody lifts it: of the bans that a new ban, a lookup or a list of    *)
(* operators takes away, none was still needed.                            *)
OnlyLiftingWeakens == [][Covered(bans, ranges, bans', ranges') \/ Lifts \/ Crash]_vars

(* A clean restart gives back exactly the protection of before: the file   *)
(* holds the bits and the expiry of every ban, though it changes the order *)
(* the bans are in.                                                        *)
RestartKeeps ==
    [][Restart => /\ Covered(bans, ranges, bans', ranges')
                  /\ Covered(bans', ranges', bans, ranges)]_vars

(* Nobody without a right to it comes in from an address that was under any*)
(* ban, of its own or of a range, when the connection was accepted.        *)
NobodyPastTheDoor ==
    guest.st \in Inside /\ guest.kind = "plain" => ~guest.was
=============================================================================
