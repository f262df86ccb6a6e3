---------------------------- MODULE UserSession ----------------------------
(***************************************************************************)
(* The life of a connection to the hub: accepted by the service loop, led  *)
(* through the NMDC login by DcCommands, entered in the nick hash, in the  *)
(* user lists and in the hub's counters, and taken out of all of them by   *)
(* User::Close.                                                            *)
(*                                                                         *)
(* One thread runs ServiceLoop::ReceiveLoop and ServiceLoop::SendLoop in   *)
(* turn.  A pass visits every user once; while a user is visited by the    *)
(* receive loop the commands it sent are executed, and a command may close *)
(* or change other users, which the pass has or has not visited yet.       *)
(***************************************************************************)
EXTENDS Integers, FiniteSets

CONSTANTS
    Conns,          \* slots for User objects (m_UserList)
    IPv6Conns,      \* those of them that connect over IPv6
    Listers,        \* those whose clients send $GetNickList
    Hideable,       \* those scripts hide and show
    Nicks,
    Regable,        \* the nicks operators register and delete while the hub runs
    Shares,         \* values of the share field of $MyINFO
    SupportSets,    \* the $Supports a client may send, as sets of Features
    KeyTimeout,     \* 20 ticks in the code
    LoginTimeout,   \* 60
    AddTimeout,     \* 300
    IPv4Timeout,    \* 10
    CloseLoops,     \* 100, m_ui32ToCloseLoops
    CounterRange,   \* 2^32, the range of m_ui32ToCloseLoops
    NoConn,
    NoNick

Features == {"QUICKLIST", "BOTINFO", "IPV4"}

ASSUME ConnsAssumption ==
    /\ IsFiniteSet(Conns)
    /\ IPv6Conns \subseteq Conns /\ Listers \subseteq Conns /\ Hideable \subseteq Conns
    /\ NoConn \notin Conns
ASSUME NicksAssumption == NoNick \notin Nicks /\ Regable \subseteq Nicks
ASSUME SharesAssumption == Shares \subseteq Nat /\ 0 \in Shares
ASSUME SupportsAssumption == SupportSets \subseteq SUBSET Features
ASSUME TimeoutsAssumption ==
    /\ KeyTimeout \in Nat /\ LoginTimeout \in Nat /\ AddTimeout \in Nat
    /\ IPv4Timeout \in Nat
    /\ CloseLoops \in Nat /\ CounterRange \in Nat
    /\ CloseLoops < CounterRange

VARIABLES
    st,         \* m_ui8State, "FREE" when the slot holds no user
    bits,       \* m_ui32BoolBits, m_ui32SupportBits and m_ui32InfoBits
    nick,       \* m_sNick
    share,      \* m_ui64SharedSize
    age,        \* m_ui64ActualTick - m_ui64LogonTick
    v4age,      \* m_ui64ActualTick - m_ui64IPv4CheckTick
    unsent,     \* m_ui32SendBufDataLen # 0, of a user being closed
    toClose,    \* m_ui32ToCloseLoops
    nickTable,  \* HashManager::m_NickTable
    nickList,   \* how often a nick stands in Users::m_NickList
    logged,     \* ServerManager::m_ui32Logged
    totalShare, \* ServerManager::m_ui64TotalShare
    regs,       \* the nicks RegManager knows
    loop,       \* the part of the service loop that runs
    todo        \* the users the running pass has still to visit

conn == <<st, bits, nick, share>>
timers == <<age, v4age>>
closing == <<unsent, toClose>>
hub == <<nickTable, nickList, logged, totalShare>>
sched == <<loop, todo>>
vars == <<conn, timers, closing, hub, regs, sched>>

Bits == {"QUICKLIST", "PINGER", "SUP_IPV4", "WAITING_FOR_PASS", "HASHED",
         "HIDDEN", "SHARECOUNTED", "HAVE_GETNICKLIST", "GETNICKLIST"}

EarlyStates == {"SOCKET_ACCEPTED", "KEY_OR_SUP"}
NickStates == {"VALIDATE", "VERSION_OR_MYPASS", "GETNICKLIST_OR_MYINFO"}
AddStates == {"IPV4_CHECK", "ADDME", "ADDME_1LOOP"}
ListedStates == {"ADDME_2LOOP", "ADDED"}    \* >= STATE_ADDME_2LOOP, not past login
PastLogin == {"CLOSING", "REMME"}           \* User::isPastLogin

OnlineStates == AddStates \cup ListedStates
LoginStates == EarlyStates \cup NickStates \cup AddStates \cup {"ADDME_2LOOP"}
OpenStates == LoginStates \cup {"ADDED"}
States == OpenStates \cup PastLogin \cup {"FREE"}

Open(c) == st[c] \in OpenStates
Listed(c) == st[c] \in ListedStates
Has(c, b) == b \in bits[c]
Visible(c) == ~Has(c, "HIDDEN")

Capped(n, limit) == IF n > limit THEN limit + 1 ELSE n

(***************************************************************************)
(* User::Close.  A step closes at most one user, c, known by the nick n    *)
(* (ValidateUserNick has stored a new nick before it closes).  left says   *)
(* whether data for c waits in its send buffer.                            *)
(***************************************************************************)
StAfterClose(c, left) ==
    [st EXCEPT ![c] = IF left THEN "CLOSING" ELSE "REMME"]

TableAfterCloseOfListed(c, n) ==    \* mutant: forgets users that are still logging in
    IF Has(c, "HASHED") /\ Listed(c) THEN [nickTable EXCEPT ![n] = NoConn] ELSE nickTable

TableAfterClose(c, n) ==
    IF Has(c, "HASHED") THEN [nickTable EXCEPT ![n] = NoConn] ELSE nickTable

DelFromNickList(n) == [nickList EXCEPT ![n] = IF @ > 0 THEN @ - 1 ELSE 0]
Add2NickList(n) == [nickList EXCEPT ![n] = @ + 1]

CloseKeepsBits(c) == bits[c]    \* mutant: the share stays counted

CloseBits(c) == bits[c] \ (IF Listed(c) THEN {"SHARECOUNTED"} ELSE {})

LeaveHubLogged(c) ==    \* mutant: >= where > STATE_ADDME_2LOOP is meant
    /\ nickList' = IF Listed(c) THEN DelFromNickList(nick[c]) ELSE nickList
    /\ totalShare' = IF Listed(c) /\ Has(c, "SHARECOUNTED")
                     THEN totalShare - share[c] ELSE totalShare
    /\ logged' = IF Listed(c) /\ Visible(c) THEN logged - 1 ELSE logged

LeaveHubAdded(c) ==     \* mutant: > where >= STATE_ADDME_2LOOP is meant
    /\ nickList' = IF st[c] = "ADDED" THEN DelFromNickList(nick[c]) ELSE nickList
    /\ totalShare' = IF Listed(c) /\ Has(c, "SHARECOUNTED")
                     THEN totalShare - share[c] ELSE totalShare
    /\ logged' = IF st[c] = "ADDED" /\ Visible(c) THEN logged - 1 ELSE logged

LeaveHub(c) ==
    /\ nickList' = IF Listed(c) THEN DelFromNickList(nick[c]) ELSE nickList
    /\ totalShare' = IF Listed(c) /\ Has(c, "SHARECOUNTED")
                     THEN totalShare - share[c] ELSE totalShare
    /\ logged' = IF st[c] = "ADDED" /\ Visible(c) THEN logged - 1 ELSE logged

SetCloseLoops(c, left) ==
    /\ unsent' = [unsent EXCEPT ![c] = left]
    /\ toClose' = IF left THEN [toClose EXCEPT ![c] = CloseLoops] ELSE toClose

Close(c, n, left) ==
    /\ st' = StAfterClose(c, left)
    /\ bits' = [bits EXCEPT ![c] = CloseBits(c)]
    /\ nickTable' = TableAfterClose(c, n)
    /\ LeaveHub(c)
    /\ SetCloseLoops(c, left)

(***************************************************************************)
(* The start of a pass: accepted sockets become users.                     *)
(***************************************************************************)
Init ==
    /\ st = [c \in Conns |-> "FREE"]
    /\ bits = [c \in Conns |-> {}]
    /\ nick = [c \in Conns |-> NoNick]
    /\ share = [c \in Conns |-> 0]
    /\ age = [c \in Conns |-> 0]
    /\ v4age = [c \in Conns |-> 0]
    /\ unsent = [c \in Conns |-> FALSE]
    /\ toClose = [c \in Conns |-> 0]
    /\ nickTable = [n \in Nicks |-> NoConn]
    /\ nickList = [n \in Nicks |-> 0]
    /\ logged = 0
    /\ totalShare = 0
    /\ regs \in SUBSET Nicks
    /\ loop = "accept"
    /\ todo = {}

AcceptUser(c) ==
    /\ loop = "accept" /\ st[c] = "FREE"
    /\ st' = [st EXCEPT ![c] = "SOCKET_ACCEPTED"]
    /\ age' = [age EXCEPT ![c] = 0]
    /\ UNCHANGED <<bits, nick, share, v4age, closing, hub, regs, sched>>

BeginReceive ==
    /\ loop = "accept"
    /\ loop' = "recv"
    /\ todo' = {c \in Conns : st[c] # "FREE"}
    /\ UNCHANGED <<conn, timers, closing, hub, regs>>

BeginSend ==
    /\ loop = "recv" /\ todo = {}
    /\ loop' = "send"
    /\ todo' = {c \in Conns : st[c] # "FREE"}
    /\ UNCHANGED <<conn, timers, closing, hub, regs>>

\* The next ReceiveLoop begins with OnSecTimer when a second has passed.
EndSend(tick) ==
    /\ loop = "send" /\ todo = {}
    /\ loop' = "accept"
    /\ IF tick
       THEN /\ age' = [c \in Conns |-> IF st[c] \in LoginStates
                           THEN Capped(age[c] + 1, AddTimeout) ELSE age[c]]
            /\ v4age' = [c \in Conns |-> IF st[c] = "IPV4_CHECK"
                           THEN Capped(v4age[c] + 1, IPv4Timeout) ELSE v4age[c]]
       ELSE UNCHANGED timers
    /\ UNCHANGED <<todo, conn, closing, hub, regs>>

(***************************************************************************)
(* Commands, executed while the receive loop visits c.                     *)
(***************************************************************************)
TalksInAnyState(c, states) == loop = "recv" /\ c \in todo    \* mutant: no state check

Talks(c, states) == loop = "recv" /\ c \in todo /\ st[c] \in states

\* A command that the hub answers by closing its sender; recv() or send() that
\* fails (nothing is left to send then, BIT_ERROR); $Close, $Kick, a ban or a
\* script that closes some user.
CloseUser(c, left) ==
    /\ Open(c)
    /\ Close(c, nick[c], left)
    /\ UNCHANGED <<nick, share, timers, regs, sched>>

Supports(c, s) ==
    /\ Talks(c, {"KEY_OR_SUP"})
    /\ st' = [st EXCEPT ![c] = "VALIDATE"]
    /\ bits' = [bits EXCEPT ![c] = @
                  \cup (IF "QUICKLIST" \in s THEN {"QUICKLIST"} ELSE {})
                  \cup (IF "BOTINFO" \in s THEN {"PINGER"} ELSE {})
                  \cup (IF "IPV4" \in s THEN {"SUP_IPV4"} ELSE {})]
    /\ UNCHANGED <<nick, share, timers, closing, hub, regs, sched>>

Key(c) ==
    /\ Talks(c, {"KEY_OR_SUP"})
    /\ st' = [st EXCEPT ![c] = "VALIDATE"]
    /\ UNCHANGED <<bits, nick, share, timers, closing, hub, regs, sched>>

(***************************************************************************)
(* DcCommands::ValidateUserNick: c asks for the nick n, in $ValidateNick   *)
(* or, with QuickList, in its first $MyINFO.  On success the command goes  *)
(* on with the state next and the share sh.                                *)
(***************************************************************************)
\* A reserved or banned nick, a full hub, too many users of one IP, a fast
\* reconnect, a nick of a wrong length, a hub for registered users only.
RefuseNick(c, n, left) ==
    /\ Close(c, n, left)
    /\ nick' = [nick EXCEPT ![c] = n]
    /\ UNCHANGED share

\* The nick is held by a user whose socket is dead: that user is closed, and
\* the command ends.
CloseDeadClone(c, n) ==
    LET other == nickTable[n] IN
    /\ other # NoConn /\ st[other] \notin PastLogin
    /\ Close(other, IF other = c THEN n ELSE nick[other], FALSE)
    /\ nick' = [nick EXCEPT ![c] = n]
    /\ UNCHANGED share

\* It is held by a live user: an unregistered one is turned away ...
DenyNick(c, n, left) ==
    LET other == nickTable[n] IN
    /\ other # NoConn /\ st[other] \notin PastLogin
    /\ n \notin regs
    /\ RefuseNick(c, n, left)

\* ... and a registered one may show the password and take its nick back.
AskGhostPassword(c, n, sh) ==
    LET other == nickTable[n] IN
    /\ other # NoConn /\ st[other] \notin PastLogin
    /\ n \in regs
    /\ st' = [st EXCEPT ![c] = "VERSION_OR_MYPASS"]
    /\ bits' = [bits EXCEPT ![c] = @ \cup {"WAITING_FOR_PASS"}]
    /\ nick' = [nick EXCEPT ![c] = n]
    /\ share' = [share EXCEPT ![c] = sh]
    /\ UNCHANGED <<timers, closing, hub>>

NickIsFreeAnyway(n) == TRUE      \* mutant: a live holder is not noticed

NickIsFree(n) == IF nickTable[n] = NoConn THEN TRUE ELSE st[nickTable[n]] \in PastLogin

\* ValidateUserNickFinally
HashNick(c, n, next, sh) ==
    /\ NickIsFree(n)
    /\ nickTable' = [nickTable EXCEPT ![n] = c]
    /\ st' = [st EXCEPT ![c] = IF n \in regs THEN "VERSION_OR_MYPASS" ELSE next]
    /\ bits' = [bits EXCEPT ![c] = @ \cup {"HASHED"} \cup
                   (IF n \in regs THEN {"WAITING_FOR_PASS"} ELSE {})]
    /\ nick' = [nick EXCEPT ![c] = n]
    /\ share' = [share EXCEPT ![c] = sh]
    /\ v4age' = IF n \notin regs /\ next = "IPV4_CHECK"
                THEN [v4age EXCEPT ![c] = 0] ELSE v4age
    /\ UNCHANGED <<age, closing, nickList, logged, totalShare>>

ValidateUserNick(c, n, next, sh, left) ==
    /\ \/ RefuseNick(c, n, left) /\ UNCHANGED timers
       \/ CloseDeadClone(c, n) /\ UNCHANGED timers
       \/ DenyNick(c, n, left) /\ UNCHANGED timers
       \/ AskGhostPassword(c, n, sh)
       \/ HashNick(c, n, next, sh)
    /\ UNCHANGED <<regs, sched>>

ValidateNick(c, n, left) ==
    /\ Talks(c, {"VALIDATE"}) /\ ~Has(c, "QUICKLIST")
    /\ ValidateUserNick(c, n, "VERSION_OR_MYPASS", share[c], left)

\* User::AddMeOrIPv4Check
AddMeState(c) ==
    IF c \in IPv6Conns /\ Has(c, "SUP_IPV4") THEN "IPV4_CHECK" ELSE "ADDME"

\* The first $MyINFO of a client with QuickList support; a pinger stays in
\* VALIDATE.
QuickMyINFO(c, n, sh, left) ==
    /\ Talks(c, {"VALIDATE"}) /\ Has(c, "QUICKLIST")
    /\ ValidateUserNick(c, n, IF Has(c, "PINGER") THEN "VALIDATE" ELSE AddMeState(c),
                        sh, left)

Version(c) ==
    /\ Talks(c, {"VERSION_OR_MYPASS"})
    /\ st' = [st EXCEPT ![c] = "GETNICKLIST_OR_MYINFO"]
    /\ UNCHANGED <<bits, nick, share, timers, closing, hub, regs, sched>>

GoToAddMe(c) ==
    /\ st' = [st EXCEPT ![c] = AddMeState(c)]
    /\ v4age' = IF AddMeState(c) = "IPV4_CHECK" THEN [v4age EXCEPT ![c] = 0] ELSE v4age

StaysInLogin(c) == Has(c, "WAITING_FOR_PASS") \/ Has(c, "PINGER")

MyINFO(c, sh) ==
    /\ Talks(c, {"VERSION_OR_MYPASS", "GETNICKLIST_OR_MYINFO"})
    /\ share' = [share EXCEPT ![c] = sh]
    /\ IF StaysInLogin(c)
       THEN UNCHANGED <<st, v4age>>
       ELSE GoToAddMe(c)
    /\ UNCHANGED <<bits, nick, age, closing, hub, regs, sched>>

\* A later $MyINFO: UserParseMyInfo keeps the total share up to date.
MyINFORefresh(c, sh) ==
    /\ Talks(c, AddStates \cup ListedStates)
    /\ share' = [share EXCEPT ![c] = sh]
    /\ totalShare' = IF Has(c, "SHARECOUNTED")
                     THEN totalShare - share[c] + sh ELSE totalShare
    /\ UNCHANGED <<st, bits, nick, timers, closing, nickTable, nickList, logged,
                   regs, sched>>

\* $MyPass with the right password; a wrong one, or one nobody asked for, is
\* CloseUser.  The user that still holds the nick is closed.
MyPass(c, left) ==
    LET n == nick[c]
        other == nickTable[n]
        ghost == ~Has(c, "HASHED") /\ other # NoConn
        next == IF Has(c, "QUICKLIST") /\ ~Has(c, "PINGER")
                THEN AddMeState(c) ELSE st[c]
        passed == bits[c] \ {"WAITING_FOR_PASS"}
    IN
    /\ Talks(c, {"VERSION_OR_MYPASS"})
    /\ Has(c, "WAITING_FOR_PASS") /\ n \in regs
    /\ nickTable' = IF Has(c, "HASHED") THEN nickTable
                    ELSE IF ghost /\ Open(other)
                    THEN [TableAfterClose(other, nick[other]) EXCEPT ![n] = c]
                    ELSE [nickTable EXCEPT ![n] = c]
    /\ v4age' = IF next = "IPV4_CHECK" THEN [v4age EXCEPT ![c] = 0] ELSE v4age
    /\ IF ghost /\ Open(other)
       THEN /\ st' = [StAfterClose(other, left) EXCEPT ![c] = next]
            /\ bits' = [bits EXCEPT ![other] = CloseBits(other),
                                    ![c] = passed \cup {"HASHED"}]
            /\ LeaveHub(other)
            /\ SetCloseLoops(other, left)
       ELSE /\ st' = [st EXCEPT ![c] = next]
            /\ bits' = [bits EXCEPT ![c] = passed \cup {"HASHED"}]
            /\ UNCHANGED <<closing, nickList, logged, totalShare>>
    /\ UNCHANGED <<nick, share, age, regs, sched>>

\* A pinger gets the lists at once; others when the send loop sees the bit.
\* A second request of a pinger or of a QuickList client is CloseUser.
GetNickList(c) ==
    /\ Talks(c, NickStates \cup AddStates \cup ListedStates)
    /\ st[c] = "VALIDATE" => Has(c, "QUICKLIST") \/ Has(c, "PINGER")
    /\ Has(c, "QUICKLIST") \/ Has(c, "PINGER") => ~Has(c, "HAVE_GETNICKLIST")
    /\ bits' = [bits EXCEPT ![c] = @ \cup {"HAVE_GETNICKLIST"} \cup
                  (IF Has(c, "QUICKLIST") \/ Has(c, "PINGER")
                   THEN {} ELSE {"GETNICKLIST"})]
    /\ UNCHANGED <<st, nick, share, timers, closing, hub, regs, sched>>

\* c is the second connection, over IPv4, of the user n: it proves the
\* address of that user and is closed.
MyNick(c, n, left) ==
    LET other == nickTable[n] IN
    /\ Talks(c, EarlyStates) /\ c \notin IPv6Conns
    /\ other # NoConn /\ st[other] = "IPV4_CHECK"
    /\ st' = [StAfterClose(c, left) EXCEPT ![other] = "ADDME"]
    /\ SetCloseLoops(c, left)
    /\ UNCHANGED <<bits, nick, share, timers, hub, regs, sched>>

(***************************************************************************)
(* Lua's Core.HideUser, from a callback about c or through the nick hash.  *)
(***************************************************************************)
Hide(c) ==
    /\ Open(c) /\ Visible(c)
    /\ bits' = [bits EXCEPT ![c] = (CloseBits(c) \cup {"HIDDEN"})]
    /\ LeaveHub(c)
    /\ UNCHANGED <<st, nick, share, timers, closing, nickTable, regs, sched>>

Unhide(c) ==
    /\ Open(c) /\ ~Visible(c)
    /\ logged' = IF st[c] = "ADDED" THEN logged + 1 ELSE logged
    /\ nickList' = IF Listed(c) THEN Add2NickList(nick[c]) ELSE nickList
    /\ totalShare' = IF Listed(c) /\ ~Has(c, "SHARECOUNTED")
                     THEN totalShare + share[c] ELSE totalShare
    /\ bits' = [bits EXCEPT ![c] = (@ \ {"HIDDEN"}) \cup
                   (IF Listed(c) THEN {"SHARECOUNTED"} ELSE {})]
    /\ UNCHANGED <<st, nick, share, timers, closing, nickTable, regs, sched>>

\* An operator registers a nick or deletes a registration.
RegChange(n) ==
    /\ regs' = IF n \in regs THEN regs \ {n} ELSE regs \cup {n}
    /\ UNCHANGED <<conn, timers, closing, hub, sched>>

(***************************************************************************)
(* The receive loop's switch over m_ui8State.                              *)
(***************************************************************************)
Visited(c) == todo' = todo \ {c} /\ UNCHANGED <<loop, regs>>
Visits(c, which, states) == loop = which /\ c \in todo /\ st[c] \in states

OverdueOutsideValidate(c) ==    \* mutant: no timeout in STATE_VALIDATE
    \/ st[c] = "KEY_OR_SUP" /\ age[c] > KeyTimeout
    \/ st[c] \in {"VERSION_OR_MYPASS", "GETNICKLIST_OR_MYINFO", "ADDME_2LOOP"}
          /\ age[c] > LoginTimeout
    \/ st[c] = "ADDME_1LOOP" /\ age[c] > AddTimeout

Overdue(c) ==
    \/ st[c] = "KEY_OR_SUP" /\ age[c] > KeyTimeout
    \/ st[c] \in NickStates \cup {"ADDME_2LOOP"} /\ age[c] > LoginTimeout
    \/ st[c] = "ADDME_1LOOP" /\ age[c] > AddTimeout

LoginTimesOut(c, left) ==
    /\ Overdue(c)
    /\ Close(c, nick[c], left)
    /\ UNCHANGED <<nick, share, timers>>

\* Nothing changes before the timeout; MakeLock waits for the next tick, and
\* STATE_ADDME_1LOOP while too many users log in.
LoginWaits(c) ==
    /\ ~Overdue(c)
    /\ \/ st[c] \in NickStates \cup {"KEY_OR_SUP", "ADDME_1LOOP", "ADDME_2LOOP", "ADDED"}
       \/ st[c] = "SOCKET_ACCEPTED" /\ age[c] = 0
       \/ st[c] = "IPV4_CHECK" /\ v4age[c] <= IPv4Timeout
       \/ st[c] = "ADDME" /\ Has(c, "PINGER")
             /\ ~Has(c, "GETNICKLIST") /\ ~Has(c, "QUICKLIST")
    /\ UNCHANGED <<conn, timers, closing, hub>>

Advance(c, from, to) ==
    /\ st[c] = from
    /\ st' = [st EXCEPT ![c] = to]
    /\ UNCHANGED <<bits, nick, share, timers, closing, hub>>

SendsLock(c) == age[c] > 0 /\ Advance(c, "SOCKET_ACCEPTED", "KEY_OR_SUP")
GivesUpIPv4(c) == v4age[c] > IPv4Timeout /\ Advance(c, "IPV4_CHECK", "ADDME")
AddMe(c) ==
    /\ Has(c, "GETNICKLIST") \/ Has(c, "QUICKLIST") \/ ~Has(c, "PINGER")
    /\ Advance(c, "ADDME", "ADDME_1LOOP")

EnterLists(c) ==
    /\ st[c] = "ADDME_1LOOP"
    /\ st' = [st EXCEPT ![c] = "ADDME_2LOOP"]
    /\ IF Visible(c)
       THEN /\ nickList' = Add2NickList(nick[c])
            /\ totalShare' = totalShare + share[c]
            /\ bits' = [bits EXCEPT ![c] = @ \cup {"SHARECOUNTED"}]
       ELSE UNCHANGED <<nickList, totalShare, bits>>
    /\ UNCHANGED <<nick, share, timers, closing, nickTable, logged>>

ReceiveVisit(c, left) ==
    /\ Visits(c, "recv", OpenStates)
    /\ \/ LoginTimesOut(c, left)
       \/ LoginWaits(c)
       \/ SendsLock(c)
       \/ GivesUpIPv4(c)
       \/ AddMe(c)
       \/ EnterLists(c)
    /\ Visited(c)

MustFlushUnsent(c) == unsent[c]      \* mutant: the close loops are not counted

MustFlush(c) == unsent[c] /\ (toClose[c] # 0 \/ Has(c, "PINGER"))

\* STATE_CLOSING; sent says whether Try2Send empties the buffer.
\* The counter of a pinger wraps around below 0.
FlushClosingSigned(c, sent) ==      \* mutant: a signed counter
    /\ MustFlush(c)
    /\ unsent' = [unsent EXCEPT ![c] = ~sent]
    /\ toClose' = [toClose EXCEPT ![c] = @ - 1]
    /\ UNCHANGED <<conn, timers, hub>>

FlushClosing(c, sent) ==
    /\ MustFlush(c)
    /\ unsent' = [unsent EXCEPT ![c] = ~sent]
    /\ toClose' = [toClose EXCEPT ![c] = (@ + CounterRange - 1) % CounterRange]
    /\ UNCHANGED <<conn, timers, hub>>

GiveUpClosing(c) ==
    /\ ~MustFlush(c)
    /\ st' = [st EXCEPT ![c] = "REMME"]
    /\ UNCHANGED <<bits, nick, share, timers, closing, hub>>

ClosingVisit(c, sent) ==
    /\ Visits(c, "recv", {"CLOSING"})
    /\ FlushClosing(c, sent) \/ GiveUpClosing(c)
    /\ Visited(c)

RemUser(c) ==
    /\ Visits(c, "recv", {"REMME"})
    /\ st' = [st EXCEPT ![c] = "FREE"]
    /\ bits' = [bits EXCEPT ![c] = {}]
    /\ nick' = [nick EXCEPT ![c] = NoNick]
    /\ share' = [share EXCEPT ![c] = 0]
    /\ age' = [age EXCEPT ![c] = 0]
    /\ v4age' = [v4age EXCEPT ![c] = 0]
    /\ unsent' = [unsent EXCEPT ![c] = FALSE]
    /\ toClose' = [toClose EXCEPT ![c] = 0]
    /\ UNCHANGED hub
    /\ Visited(c)

(***************************************************************************)
(* The send loop: a user of the first pass becomes a full member.          *)
(***************************************************************************)
BecomeAdded(c) ==
    /\ Visits(c, "send", {"ADDME_2LOOP"})
    /\ logged' = IF Visible(c) THEN logged + 1 ELSE logged
    /\ st' = [st EXCEPT ![c] = "ADDED"]
    /\ bits' = [bits EXCEPT ![c] = @ \ {"GETNICKLIST"}]
    /\ age' = [age EXCEPT ![c] = 0]
    /\ v4age' = [v4age EXCEPT ![c] = 0]
    /\ UNCHANGED <<nick, share, closing, nickTable, nickList, totalShare>>
    /\ Visited(c)

SendVisit(c) ==
    /\ Visits(c, "send", States \ {"ADDME_2LOOP", "FREE"})
    /\ bits' = IF st[c] = "ADDED" THEN [bits EXCEPT ![c] = @ \ {"GETNICKLIST"}] ELSE bits
    /\ UNCHANGED <<st, nick, share, timers, closing, hub>>
    /\ Visited(c)

ConnNext(c) ==
    \/ AcceptUser(c)
    \/ \E left \in BOOLEAN : CloseUser(c, left)
    \/ \E s \in SupportSets : Supports(c, s)
    \/ Key(c)
    \/ \E n \in Nicks, left \in BOOLEAN : ValidateNick(c, n, left)
    \/ \E n \in Nicks, sh \in Shares, left \in BOOLEAN : QuickMyINFO(c, n, sh, left)
    \/ Version(c)
    \/ \E sh \in Shares : MyINFO(c, sh)
    \/ \E sh \in Shares : MyINFORefresh(c, sh)
    \/ \E left \in BOOLEAN : MyPass(c, left)
    \/ c \in Listers /\ GetNickList(c)
    \/ \E n \in Nicks, left \in BOOLEAN : MyNick(c, n, left)
    \/ c \in Hideable /\ Hide(c)
    \/ c \in Hideable /\ Unhide(c)
    \/ \E left \in BOOLEAN : ReceiveVisit(c, left)
    \/ \E sent \in BOOLEAN : ClosingVisit(c, sent)
    \/ RemUser(c)
    \/ BecomeAdded(c)
    \/ SendVisit(c)

Next ==
    \/ \E c \in Conns : ConnNext(c)
    \/ BeginReceive
    \/ BeginSend
    \/ \E tick \in BOOLEAN : EndSend(tick)
    \/ \E n \in Regable : RegChange(n)

Spec == Init /\ [][Next]_vars

\* The service loop keeps running, it visits every user of a pass, and
\* the clock advances: a pass that finds a new second comes again and again.
Fairness ==
    /\ WF_vars(BeginReceive) /\ WF_vars(BeginSend)
    /\ SF_vars(EndSend(TRUE)) /\ WF_vars(EndSend(FALSE))
    /\ \A c \in Conns :
         /\ WF_vars(\E left \in BOOLEAN : ReceiveVisit(c, left))
         /\ WF_vars(\E sent \in BOOLEAN : ClosingVisit(c, sent))
         /\ WF_vars(RemUser(c)) /\ WF_vars(BecomeAdded(c)) /\ WF_vars(SendVisit(c))

FairSpec == Spec /\ Fairness
-----------------------------------------------------------------------------
(***************************************************************************)
(* Properties.                                                             *)
(***************************************************************************)
TypeOK ==
    /\ st \in [Conns -> States]
    /\ bits \in [Conns -> SUBSET Bits]
    /\ nick \in [Conns -> Nicks \cup {NoNick}]
    /\ share \in [Conns -> Shares]
    /\ age \in [Conns -> 0 .. AddTimeout + 1]
    /\ v4age \in [Conns -> 0 .. IPv4Timeout + 1]
    /\ unsent \in [Conns -> BOOLEAN]
    /\ toClose \in [Conns -> 0 .. CounterRange - 1]
    /\ nickTable \in [Nicks -> Conns \cup {NoConn}]
    /\ nickList \in [Nicks -> Nat]
    /\ logged \in Int
    /\ totalShare \in Int
    /\ regs \in SUBSET Nicks
    /\ loop \in {"accept", "recv", "send"}
    /\ todo \in SUBSET Conns

\* The nick hash holds no pointer to a user that User::Close has taken out
\* of service or that the service loop has deleted, and finds every user
\* under the nick the user has now (HashManager::Add and Remove, called from
\* ValidateUserNickFinally, MyPass and Close).
TableHoldsOpenUsers ==
    \A n \in Nicks : LET c == nickTable[n] IN
        c # NoConn => Open(c) /\ Has(c, "HASHED") /\ nick[c] = n

\* Whoever is about to enter the user list or is in it owns its nick in the
\* hash: two users are never online under one nick, whatever ghosts, dead
\* clones and pending passwords the logins went through.
OnlineUsersOwnTheirNick ==
    \A c \in Conns : st[c] \in OnlineStates =>
        nick[c] \in Nicks /\ nickTable[nick[c]] = c

\* Nobody comes online while the hub still waits for its password.
OnlineUsersHaveNoPendingPassword ==
    \A c \in Conns : st[c] \in OnlineStates => ~Has(c, "WAITING_FOR_PASS")

\* A client that announced itself as a pinger never gets past the login:
\* every way to STATE_ADDME excludes it.
PingersStayOut == \A c \in Conns : Has(c, "PINGER") => st[c] \notin OnlineStates

\* m_ui32Logged counts the visible users in STATE_ADDED, through closes in
\* any state and through scripts that hide and show users.
LoggedExact == logged = Cardinality({c \in Conns : st[c] = "ADDED" /\ Visible(c)})

\* Who is on the lists, as far as scripts let it be seen.
Shown(c) == Listed(c) /\ Visible(c)
SharedBy(cs) == UNION {{c} \X (1 .. share[c]) : c \in cs}

\* The hub's total share is what the users whose share was counted have
\* between them, and those are the visible users of the lists;
\* m_ui64TotalShare is unsigned and one subtraction too many would wrap it.
TotalShareExact ==
    /\ \A c \in Conns : Has(c, "SHARECOUNTED") <=> Shown(c)
    /\ totalShare = Cardinality(SharedBy({c \in Conns : Shown(c)}))

\* $NickList names every visible listed user once and nobody else.
NickListExact ==
    \A n \in Nicks : nickList[n] =
        IF \E c \in Conns : Listed(c) /\ Visible(c) /\ nick[c] = n THEN 1 ELSE 0

(***************************************************************************)
(* The inductive invariant that the safety properties about nicks follow   *)
(* from.  It holds when no client announces QuickList and BotINFO at once. *)
(***************************************************************************)
NoQuickPingers == \A s \in SupportSets : ~({"QUICKLIST", "BOTINFO"} \subseteq s)

HashedUsersAreInTheTable ==
    \A c \in Conns : Open(c) /\ Has(c, "HASHED") =>
        nick[c] \in Nicks /\ nickTable[nick[c]] = c

FreshUsersAreUnknown == \A c \in Conns :
    /\ st[c] = "FREE" => bits[c] = {}
    /\ st[c] \in EarlyStates => ~Has(c, "QUICKLIST") /\ ~Has(c, "PINGER")
    /\ st[c] \in EarlyStates \cup {"VALIDATE"} =>
          ~Has(c, "HASHED") /\ ~Has(c, "WAITING_FOR_PASS")

NamedUsersAreHashedOrAsked ==
    \A c \in Conns : st[c] \in {"VERSION_OR_MYPASS", "GETNICKLIST_OR_MYINFO"} =>
        nick[c] \in Nicks /\ (Has(c, "HASHED") \/ Has(c, "WAITING_FOR_PASS"))

OnlineUsersAreHashed == \A c \in Conns : st[c] \in OnlineStates =>
    Has(c, "HASHED") /\ ~Has(c, "WAITING_FOR_PASS") /\ ~Has(c, "PINGER")

PingersHaveNoQuickList == \A c \in Conns : ~(Has(c, "QUICKLIST") /\ Has(c, "PINGER"))

\* The nick hash and the progress of the logins belong together: who is known
\* to the hash, who has been asked for a password, who may come online.
NickInvariant ==
    /\ TableHoldsOpenUsers
    /\ HashedUsersAreInTheTable
    /\ FreshUsersAreUnknown
    /\ NamedUsersAreHashedOrAsked
    /\ OnlineUsersAreHashed
    /\ PingersHaveNoQuickList

Rank == [FREE |-> 0, SOCKET_ACCEPTED |-> 1, KEY_OR_SUP |-> 2, VALIDATE |-> 3,
         VERSION_OR_MYPASS |-> 4, GETNICKLIST_OR_MYINFO |-> 5, IPV4_CHECK |-> 6,
         ADDME |-> 7, ADDME_1LOOP |-> 8, ADDME_2LOOP |-> 9, ADDED |-> 10,
         CLOSING |-> 11, REMME |-> 12]

\* A connection only moves on through the login, and a closed user is never
\* taken back into it, whichever user's command or visit makes the step.
OnlyForward ==
    [][\A c \in Conns : st'[c] # "FREE" => Rank[st'[c]] >= Rank[st[c]]]_vars

\* Every login ends: with membership, or with the user closed by a timeout.
LoginResolves == \A c \in Conns : st[c] \in LoginStates ~> st[c] \notin LoginStates

\* A user that is closed is deleted in the end, also when its peer never
\* reads; pingers excepted, whose close counter is not obeyed.
ClosingResolves ==
    \A c \in Conns : (st[c] \in PastLogin /\ ~Has(c, "PINGER")) ~> st[c] = "FREE"
============================================================================
