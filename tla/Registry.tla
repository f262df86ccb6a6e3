------------------------------- MODULE Registry -------------------------------
(***************************************************************************)
(* Registered users (hashRegManager) and profiles (ProfileManager): the    *)
(* tables, the two files that are saved at different times, and what the   *)
(* members that are on the hub have of them: the number of their profile,  *)
(* the operator bit and a place in the list of operators.                  *)
(*                                                                         *)
(* A profile is known by its place in the table, in a registration and in  *)
(* a member; by its name in a command and in a registration that waits for *)
(* its password.                                                           *)
(***************************************************************************)
EXTENDS Integers, Sequences, FiniteSets

CONSTANTS
    Nicks,        \* nicks that are registered and come in
    Names,        \* names of profiles
    Operator,     \* the name the command op looks for
    MaxProfiles,  \* bound: profiles in the table
    MaxListed,    \* bound: times one nick stands in the operator list
    SaveEvery,    \* saves that are only counted (99 in the code)
    Garbled,      \* a text in the buffer that names no profile
    NotAsked      \* no registration waits for a password

ASSUME BoundsAssumption ==
    MaxProfiles \in Nat \ {0, 1} /\ MaxListed \in Nat /\ SaveEvery \in Nat
ASSUME NamesAssumption ==
    Operator \in Names /\ Garbled \notin Names /\ NotAsked \notin Names

VARIABLES
    hub,       \* "up", "down", or "dead": it met a profile that is not there
    profiles,  \* m_vpProfilesTable up to m_ui16ProfileCount
    holes,     \* the table is longer than the count: empty places follow
    profFile,  \* Profiles.pxb
    regs,      \* m_RegList: the profile of each registered nick
    regFile,   \* RegisteredUsers.pxb
    saveCalls, \* m_ui8SaveCalls
    member,    \* the user of each nick
    listed     \* how often the nick stands in m_OpList

registryVars == <<hub, profiles, holes, profFile, regs, regFile, saveCalls, member, listed>>
store == <<regs, regFile, saveCalls>>
table == <<profiles, holes, profFile>>
people == <<member, listed>>

None == -1    \* no profile, and no registration
Profile == [name : Names, key : BOOLEAN]
Phases == {"out", "asked", "login", "in"}
Out == [st |-> "out", profile |-> None, op |-> FALSE, temp |-> FALSE,
        hideKey |-> FALSE, hidden |-> FALSE, waits |-> NotAsked]

RegistryTypeOK ==
    /\ hub \in {"up", "down", "dead"} /\ holes \in BOOLEAN
    /\ {profiles, profFile} \subseteq Seq(Profile)
    /\ Len(profiles) <= MaxProfiles /\ Len(profFile) <= MaxProfiles
    /\ {regs, regFile} \subseteq [Nicks -> None .. MaxProfiles]
    /\ saveCalls \in 0 .. SaveEvery
    /\ member \in [Nicks ->
         [st : Phases, profile : None .. MaxProfiles, op : BOOLEAN,
          temp : BOOLEAN, hideKey : BOOLEAN, hidden : BOOLEAN,
          waits : Names \cup {Garbled, NotAsked}]]
    /\ listed \in [Nicks -> 0 .. MaxListed]
-----------------------------------------------------------------------------
Count == Len(profiles)
Ids == 0 .. Count - 1

(* IsAllowed: the number of a user is not checked against the table.       *)
Readable(p) == p = None \/ p \in Ids
HasKey(p) == p \in Ids /\ profiles[p + 1].key

(* GetProfileIndex: the first profile of that name.                        *)
Named(name) == {p \in Ids : profiles[p + 1].name = name}
GetProfileIndex(name) == CHOOSE p \in Named(name) : \A q \in Named(name) : p <= q

Registered(n) == regs[n] # None                   \* Find
Online == {n \in Nicks : member[n].st # "out"}    \* FindUser: hashed

Dies == hub' = "dead" /\ UNCHANGED <<table, store, people>>

(* Save: counted on a change, written after a hundred changes, on time if  *)
(* anything is counted, and at once otherwise.                             *)
SaveOnChange(r) ==
    IF saveCalls < SaveEvery
    THEN saveCalls' = saveCalls + 1 /\ UNCHANGED regFile
    ELSE saveCalls' = 0 /\ regFile' = r
SaveNow(r) == saveCalls' = 0 /\ regFile' = r
SaveOnTime ==
    saveCalls # 0 /\ SaveNow(regs) /\ UNCHANGED <<hub, table, regs, people>>

(* Add2OpList and DelFromOpList: a nick is added without looking for it,   *)
(* and one entry of it is taken out.                                       *)
Add2OpList(n) == listed[n] < MaxListed /\ listed' = [listed EXCEPT ![n] = @ + 1]
DelFromOpList(n) == listed' = [listed EXCEPT ![n] = IF @ > 0 THEN @ - 1 ELSE 0]

Shown(u) == u.st = "in" /\ u.op /\ ~u.hideKey /\ ~u.hidden

(* The member n becomes u: an operator that was none is listed.            *)
Becomes(n, u) ==
    /\ member' = [member EXCEPT ![n] = u]
    /\ IF u.op /\ ~member[n].op /\ ~u.hideKey THEN Add2OpList(n)
       ELSE UNCHANGED listed
Promoted(n, p) == [member[n] EXCEPT !.profile = p, !.op = @ \/ HasKey(p)]
-----------------------------------------------------------------------------
(* Members.                                                                *)

(* ValidateUserNickFinally: the nick is hashed; a registered one is asked  *)
(* for its password.                                                       *)
Enter(n) ==
    /\ n \notin Online
    /\ member' = [member EXCEPT ![n] =
         [Out EXCEPT !.st = IF ~Registered(n) THEN "login" ELSE "asked"]]
    /\ UNCHANGED <<hub, table, store, listed>>

(* User::Close: a member that was in is taken from the lists, from the     *)
(* list of operators if it is one.                                         *)
LeaveOp(n) ==
    IF member[n].st = "in" /\ member[n].op THEN DelFromOpList(n)
    ELSE UNCHANGED listed
Leaves(n) ==
    /\ n \in Online /\ LeaveOp(n)
    /\ member' = [member EXCEPT ![n] = Out]
    /\ UNCHANGED <<hub, table, store>>

(* MyPass: the right password of a registration that is still there.  A    *)
(* wrong password, or none to compare with, closes the connection.         *)
MyPass(n) ==
    /\ member[n].st = "asked" /\ Registered(n)
    /\ IF ~Readable(regs[n]) THEN Dies
       ELSE /\ member' = [member EXCEPT ![n] =
                 [@ EXCEPT !.st = "login", !.profile = regs[n],
                           !.op = HasKey(regs[n])]]
            /\ UNCHANGED <<hub, table, store, listed>>

(* ADDME_1LOOP: the member is added to the lists.  Its buffer takes what   *)
(* scripts sent it on the way.                                             *)
Add2Userlist(n) ==
    /\ member[n].st = "login"
    /\ \E waits \in {member[n].waits} \cup
                    (IF member[n].waits = NotAsked THEN {} ELSE {Garbled}) :
         LET u == [member[n] EXCEPT !.st = "in", !.waits = waits] IN
         /\ member' = [member EXCEPT ![n] = u]
         /\ IF Shown(u) THEN Add2OpList(n) ELSE UNCHANGED listed
    /\ UNCHANGED <<hub, table, store>>

(* Any command or message of a member: its rights are read.                *)
Speaks(n) ==
    /\ member[n].st = "in" /\ ~Readable(member[n].profile) /\ Dies

(* Because: the reason of a kick goes into the buffer of the member.       *)
KickMessage(n) ==
    /\ n \in Online /\ member[n].waits # NotAsked
    /\ member' = [member EXCEPT ![n].waits = Garbled]
    /\ UNCHANGED <<hub, table, store, listed>>
-----------------------------------------------------------------------------
(* Registrations.                                                          *)

(* AddNew; the member who is on the hub gets the profile at once.          *)
AddNew(n, p) ==
    /\ regs' = [regs EXCEPT ![n] = p]
    /\ SaveOnChange(regs')
    /\ IF n \in Online THEN Becomes(n, Promoted(n, p)) ELSE UNCHANGED people
AddsNew(n, p) ==
    /\ ~Registered(n) /\ p \in Ids
    /\ IF n \in Online /\ ~Readable(member[n].profile) THEN Dies
       ELSE AddNew(n, p) /\ UNCHANGED <<hub, table>>

AddRegUser(n) ==
    \E name \in Names : Named(name) # {} /\ AddsNew(n, GetProfileIndex(name))
LuaAddReg(n) == \E p \in Ids : AddsNew(n, p)

(* RegNewUser, and AddReg without a password: the member is asked for one, *)
(* and the name of the profile is kept in its buffer.                      *)
Asks(n, name) ==
    /\ ~Registered(n) /\ n \in Online
    /\ member' = [member EXCEPT ![n].waits = name]
    /\ UNCHANGED <<hub, table, store, listed>>
RegNewUser(n) == \E name \in Names : Named(name) # {} /\ Asks(n, name)
LuaAskReg(n) == \E p \in Ids : Asks(n, profiles[p + 1].name)

(* The password comes.  The profile is looked up again by its name; when   *)
(* the nick was registered in the meantime the member gets it all the same.*)
LatePassword(n) ==
    /\ member[n].st = "in" /\ member[n].waits # NotAsked
    /\ LET waits == member[n].waits
           u(p) == [Promoted(n, p) EXCEPT !.waits = NotAsked]
       IN IF Named(waits) = {}
          THEN /\ member' = [member EXCEPT ![n].waits = NotAsked]
               /\ UNCHANGED <<hub, table, store, listed>>
          ELSE LET p == GetProfileIndex(waits) IN
               IF ~Registered(n) /\ ~Readable(member[n].profile) THEN Dies
               ELSE /\ IF ~Registered(n)
                       THEN /\ regs' = [regs EXCEPT ![n] = p]
                            /\ SaveOnChange(regs')
                       ELSE UNCHANGED store
                    /\ Becomes(n, u(p))
                    /\ UNCHANGED <<hub, table>>

(* Delete.                                                                 *)
DeleteKeepingList(n) ==    \* mutant: the list of operators is forgotten
    /\ Registered(n)
    /\ regs' = [regs EXCEPT ![n] = None] /\ SaveOnChange(regs')
    /\ member' = IF n \in Online
                 THEN [member EXCEPT ![n].profile = None, ![n].op = FALSE]
                 ELSE member
    /\ UNCHANGED <<hub, table, listed>>
Delete(n) ==
    /\ Registered(n)
    /\ regs' = [regs EXCEPT ![n] = None] /\ SaveOnChange(regs')
    /\ IF n \in Online
       THEN /\ member' = [member EXCEPT ![n].profile = None, ![n].op = FALSE]
            /\ IF member[n].op THEN DelFromOpList(n) ELSE UNCHANGED listed
       ELSE UNCHANGED people
    /\ UNCHANGED <<hub, table>>

DelRegUser(n) == Delete(n)
LuaDelReg(n) == Delete(n)

(* ChangeReg: nothing but the registration changes when the member has the *)
(* number of the new profile already.                                      *)
ChangeReg(n) ==
    /\ Registered(n)
    /\ \E p \in Ids :
         IF n \in Online /\ member[n].profile # p /\ ~Readable(member[n].profile)
         THEN Dies
         ELSE /\ regs' = [regs EXCEPT ![n] = p] /\ SaveOnChange(regs')
              /\ IF n \in Online /\ member[n].profile # p
                 THEN /\ member' = [member EXCEPT ![n].profile = p,
                                                  ![n].op = HasKey(p)]
                      /\ CASE member[n].op = HasKey(p) \/ member[n].hideKey ->
                                UNCHANGED listed
                           [] HasKey(p) /\ ~member[n].op /\ ~member[n].hideKey ->
                                Add2OpList(n)
                           [] ~HasKey(p) /\ member[n].op /\ ~member[n].hideKey ->
                                DelFromOpList(n)
                 ELSE UNCHANGED people
              /\ UNCHANGED <<hub, table>>

LuaChangeReg(n) == ChangeReg(n)

(* Passwd: the password of a member that has a profile and a registration. *)
Passwd(n) ==
    /\ member[n].st = "in" /\ member[n].profile # None /\ Registered(n)
    /\ SaveOnChange(regs) /\ UNCHANGED <<hub, table, regs, people>>

(* Op: a member becomes an operator until it leaves.                       *)
Op(n) ==
    /\ n \in Online /\ ~member[n].op /\ Named(Operator) # {}
    /\ IF ~Readable(member[n].profile) THEN Dies
       ELSE /\ Becomes(n, [member[n] EXCEPT !.op = TRUE, !.temp = TRUE,
                                            !.profile = GetProfileIndex(Operator)])
            /\ UNCHANGED <<hub, table, store>>

HideUserKeyOnce(n) ==    \* mutant: a key that is shown again is not listed
    /\ n \in Online
    /\ member' = [member EXCEPT ![n].hideKey = ~@]
    /\ IF Shown(member[n]) THEN DelFromOpList(n) ELSE UNCHANGED listed
    /\ UNCHANGED <<hub, table, store>>
HideUserKey(n) ==
    /\ n \in Online
    /\ LET u == member[n]
           known == u.st = "in" /\ u.op /\ ~u.hidden
       IN /\ member' = [member EXCEPT ![n].hideKey = ~@]
          /\ CASE known /\ u.hideKey -> Add2OpList(n)
               [] known /\ ~u.hideKey -> DelFromOpList(n)
               [] ~known -> UNCHANGED listed
    /\ UNCHANGED <<hub, table, store>>

HideUser(n) ==
    /\ n \in Online
    /\ LET u == member[n]
           inList == u.st = "in" /\ u.op /\ ~u.hideKey
       IN /\ member' = [member EXCEPT ![n].hidden = ~@]
          /\ CASE inList /\ u.hidden -> Add2OpList(n)
               [] inList /\ ~u.hidden -> DelFromOpList(n)
               [] ~inList -> UNCHANGED listed
    /\ UNCHANGED <<hub, table, store>>

LuaSaveRegs == SaveNow(regs) /\ UNCHANGED <<hub, table, regs, people>>
-----------------------------------------------------------------------------
(* Profiles.                                                               *)

(* AddProfile compares the name with every place of the table, the empty   *)
(* ones included.                                                          *)
CreateProfile(name) ==
    /\ Count < MaxProfiles
    /\ profiles' = Append(profiles, [name |-> name, key |-> FALSE])
    /\ UNCHANGED <<hub, holes, profFile, store, people>>
AddProfile(name) == Named(name) = {} /\ IF holes THEN Dies ELSE CreateProfile(name)
LuaAddProfile == \E name \in Names : AddProfile(name)

Without(s, i) == SubSeq(s, 1, i - 1) \o SubSeq(s, i + 1, Len(s))
Below(p, q) == IF q > p THEN q - 1 ELSE q

(* RemoveProfile: refused when a registration has the profile; a member    *)
(* that has it keeps the number.  The last place of the table stays, empty.*)
RemoveProfileForgettingMembers(p) ==    \* mutant: members keep their numbers
    /\ p \in Ids /\ \A n \in Nicks : regs[n] # p
    /\ profiles' = Without(profiles, p + 1) /\ holes' = TRUE
    /\ regs' = [n \in Nicks |-> Below(p, regs[n])]
    /\ UNCHANGED <<hub, profFile, regFile, saveCalls, people>>
RemoveProfile(p) ==
    /\ p \in Ids /\ \A n \in Nicks : regs[n] # p
    /\ profiles' = Without(profiles, p + 1) /\ holes' = TRUE
    /\ member' = [n \in Nicks |->
                    [member[n] EXCEPT !.profile = Below(p, @)]]
    /\ regs' = [n \in Nicks |-> Below(p, regs[n])]
    /\ UNCHANGED <<hub, profFile, regFile, saveCalls, listed>>
RemoveProfileByName ==
    \E name \in Names : Named(name) # {} /\ RemoveProfile(GetProfileIndex(name))

Trade(p, q, x) == CASE x = p -> q [] x = q -> p [] OTHER -> x

Swap(p, q) ==
    /\ profiles' = [profiles EXCEPT ![p + 1] = profiles[q + 1],
                                    ![q + 1] = profiles[p + 1]]
    /\ regs' = [n \in Nicks |-> Trade(p, q, regs[n])]
    /\ member' = [n \in Nicks |->
                    [member[n] EXCEPT !.profile = Trade(p, q, @)]]
    /\ UNCHANGED <<hub, holes, profFile, regFile, saveCalls, listed>>
MoveProfileDown(p) == Swap(p, p + 1)
MoveProfileUp(p) == Swap(p, p - 1)
MoveDown(p) == p \in Ids /\ p < Count - 1 /\ MoveProfileDown(p)
MoveUp(p) == p \in Ids /\ p # 0 /\ MoveProfileUp(p)

OneEdit == profFile = profiles    \* bound: names and permissions are edited once between saves
SetProfileName ==
    OneEdit /\ \E p \in Ids, name \in Names :
       /\ profiles' = [profiles EXCEPT ![p + 1].name = name]
       /\ UNCHANGED <<hub, holes, profFile, store, people>>
SetProfilePermission ==
    OneEdit /\ \E p \in Ids :
       /\ profiles' = [profiles EXCEPT ![p + 1].key = ~@]
       /\ UNCHANGED <<hub, holes, profFile, store, people>>

(* SaveProfiles: the file is emptied, then every place of the table is     *)
(* read before anything is written.                                        *)
DiesSaving == hub' = "dead" /\ profFile' = <<>>
              /\ UNCHANGED <<profiles, holes, store, people>>
SaveProfiles ==
    IF holes THEN DiesSaving
    ELSE profFile' = profiles
         /\ UNCHANGED <<hub, profiles, holes, store, people>>
LuaSaveProfiles == SaveProfiles
-----------------------------------------------------------------------------
(* The process.                                                            *)

Nobody == member' = [n \in Nicks |-> Out] /\ listed' = [n \in Nicks |-> 0]

(* FinalClose: profiles, then registrations.  The users are gone by then.  *)
FinalClose ==
    IF holes THEN DiesSaving
    ELSE /\ hub' = "down" /\ profFile' = profiles /\ SaveNow(regs)
         /\ Nobody /\ UNCHANGED <<profiles, holes, regs>>
Crash == hub' = "down" /\ Nobody /\ UNCHANGED <<table, store>>

(* Load: a number above the last profile becomes the last one.  Without    *)
(* profiles the last number is 65535.                                      *)
Clamped(f, last) == IF last >= 0 /\ f > last THEN last ELSE f
Loaded(file) == [n \in Nicks |-> Clamped(file[n], Len(profFile) - 1)]

Start ==
    /\ hub # "up" /\ hub' = "up"
    /\ profiles' = profFile /\ holes' = FALSE
    /\ regs' = Loaded(regFile) /\ saveCalls' = 0
    /\ Nobody /\ UNCHANGED <<profFile, regFile>>

(* AddRegCmdLine: the setup from the command line, which ends with the     *)
(* saves of FinalClose.                                                    *)
AddRegCmdLine ==
    /\ hub # "up"
    /\ \E n \in Nicks, p \in 0 .. Len(profFile) - 1 :
         /\ regFile[n] = None
         /\ regFile' = [Loaded(regFile) EXCEPT ![n] = p]
    /\ UNCHANGED <<hub, table, regs, saveCalls, people>>

(* LoadXML of the first start, when there is no RegisteredUsers.pxb: the   *)
(* registrations are saved only when a number had to be changed.           *)
LoadXML(xml, last) ==
    /\ regs = [n \in Nicks |-> Clamped(xml[n], last)]
    /\ regFile = regs

RegistryInit ==
    /\ hub = "up" /\ holes = FALSE /\ saveCalls = 0
    /\ \E names \in {s \in [1 .. 2 -> Names] : s[1] # s[2]} :
         profiles = [i \in 1 .. 2 |-> [name |-> names[i], key |-> i = 1]]
    /\ profFile = profiles
    /\ \E xml \in [Nicks -> None .. 2] : LoadXML(xml, 1)
    /\ member = [n \in Nicks |-> Out] /\ listed = [n \in Nicks |-> 0]

Running ==
    \/ \E n \in Nicks :
         \/ Enter(n) \/ MyPass(n) \/ Add2Userlist(n) \/ Leaves(n) \/ Speaks(n)
         \/ KickMessage(n) \/ AddRegUser(n) \/ LuaAddReg(n) \/ RegNewUser(n)
         \/ LuaAskReg(n) \/ LatePassword(n) \/ DelRegUser(n) \/ LuaDelReg(n) \/ LuaChangeReg(n)
         \/ Passwd(n) \/ Op(n) \/ HideUserKey(n) \/ HideUser(n)
    \/ LuaSaveRegs \/ SaveOnTime
    \/ LuaAddProfile \/ RemoveProfileByName \/ SetProfileName
    \/ SetProfilePermission \/ LuaSaveProfiles
    \/ \E p \in Ids : RemoveProfile(p) \/ MoveDown(p) \/ MoveUp(p)
    \/ FinalClose \/ Crash

RegistryNext == (hub = "up" /\ Running) \/ Start \/ AddRegCmdLine

RegistrySpec == RegistryInit /\ [][RegistryNext]_registryVars
-----------------------------------------------------------------------------
(* Properties.                                                             *)

(* Every member that is an operator, and hides neither itself nor its key, *)
(* stands in the list of operators that a client gets at its login.        *)
OperatorsShown ==
    \A n \in Nicks : hub = "up" /\ Shown(member[n]) => listed[n] > 0

(* An entry too many in the list of operators comes only from a promotion  *)
(* before the member is in the lists, or while it is hidden: Add2OpList is *)
(* called then, too, and once more when the member is added to the lists.  *)
(* It stays in the list when the member has left.                          *)
Extra(n) == listed[n] - (IF Shown(member[n]) THEN 1 ELSE 0)
EntriesMatchMembers ==
    [][\A n \in Nicks :
          Extra(n)' > Extra(n) =>
             member[n].st \in {"asked", "login"} \/ member[n].hidden]_registryVars

(* A member has the profile of its registration, and loses it only to the  *)
(* command op, or to a password that comes after somebody else registered  *)
(* the nick.  Moving and removing profiles keeps the two together.         *)
Agrees(n) ==
    /\ member[n].st \in {"login", "in"} /\ Registered(n)
    /\ member[n].profile = regs[n]
MembersFollowRegistrations ==
    [][\A n \in Nicks :
          Agrees(n) /\ ~Agrees(n)' =>
             \/ member'[n].st = "out" \/ ~Registered(n)'
             \/ member'[n].temp /\ member'[n].op /\ ~member[n].op
             \/ member[n].waits # NotAsked /\ member'[n].waits = NotAsked]_registryVars
=============================================================================
