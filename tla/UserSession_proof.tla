-------------------------- MODULE UserSession_proof --------------------------
(***************************************************************************)
(* Theorems about UserSession, for every value of its constants: every     *)
(* reachable state is well typed; the nick hash is correct, since          *)
(* NickInvariant is inductive when no client announces QuickList and       *)
(* BotINFO at once and the safety properties of the login follow from it;  *)
(* the lists, the member count and the total share agree with the users,   *)
(* whatever closes, hides and shows them; and every step of the sessions   *)
(* is a step of NickOwnership or a stutter.                                *)
(***************************************************************************)
EXTENDS NickRefinement, FiniteSetTheorems, TLAPS

\* The close counter stays in its range: it is set to CloseLoops and counted
\* down modulo CounterRange.
LEMMA CounterInRange ==
    /\ CloseLoops \in 0 .. CounterRange - 1
    /\ \A k \in 0 .. CounterRange - 1 :
         (k + CounterRange - 1) % CounterRange \in 0 .. CounterRange - 1
BY TimeoutsAssumption

\* The parts of a user's state that User::Close rewrites keep their types.
LEMMA CloseType ==
    ASSUME TypeOK, NEW c \in Conns, NEW n, NEW left \in BOOLEAN
    PROVE  /\ StAfterClose(c, left) \in [Conns -> States]
           /\ TableAfterClose(c, n) \in [Nicks -> Conns \cup {NoConn}]
           /\ CloseBits(c) \in SUBSET Bits
           /\ LeaveHub(c) => /\ nickList' \in [Nicks -> Nat]
                             /\ logged' \in Int /\ totalShare' \in Int
           /\ SetCloseLoops(c, left) =>
                 /\ unsent' \in [Conns -> BOOLEAN]
                 /\ toClose' \in [Conns -> 0 .. CounterRange - 1]
<1>1. StAfterClose(c, left) \in [Conns -> States]
  BY DEF TypeOK, StAfterClose, States, PastLogin
<1>2. TableAfterClose(c, n) \in [Nicks -> Conns \cup {NoConn}]
  BY DEF TypeOK, TableAfterClose
<1>3. CloseBits(c) \in SUBSET Bits
  BY DEF TypeOK, CloseBits
<1>4. LeaveHub(c) => /\ nickList' \in [Nicks -> Nat]
                     /\ logged' \in Int /\ totalShare' \in Int
  <2> SUFFICES ASSUME LeaveHub(c)
               PROVE  /\ nickList' \in [Nicks -> Nat]
                      /\ logged' \in Int /\ totalShare' \in Int
    OBVIOUS
  <2>1. \A m : DelFromNickList(m) \in [Nicks -> Nat]
    <3>1. nickList \in [Nicks -> Nat]
      BY DEF TypeOK
    <3>2. \A k \in Nat : (IF k > 0 THEN k - 1 ELSE 0) \in Nat
      OBVIOUS
    <3> QED BY <3>1, <3>2 DEF DelFromNickList
  <2>2. nickList' \in [Nicks -> Nat]
    BY <2>1 DEF LeaveHub, TypeOK
  <2>3. logged' \in Int
    BY DEF LeaveHub, TypeOK
  <2>4. share[c] \in Int
    <3>1. share[c] \in Shares
      BY DEF TypeOK
    <3>2. share[c] \in Nat
      BY <3>1, SharesAssumption
    <3> QED BY <3>2
  <2>5. totalShare' \in Int
    BY <2>4 DEF LeaveHub, TypeOK
  <2> QED BY <2>2, <2>3, <2>5
<1>5. SetCloseLoops(c, left) => /\ unsent' \in [Conns -> BOOLEAN]
                                /\ toClose' \in [Conns -> 0 .. CounterRange - 1]
  BY CounterInRange DEF TypeOK, SetCloseLoops
<1> QED BY <1>1, <1>2, <1>3, <1>4, <1>5

\* User::AddMeOrIPv4Check chooses a state of the login.
LEMMA AddMeStateType == \A c \in Conns : AddMeState(c) \in {"IPV4_CHECK", "ADDME"}
BY DEF AddMeState

\* A whole User::Close keeps the types of what it assigns.
LEMMA CloseStepType ==
    ASSUME TypeOK, NEW c \in Conns, NEW n, NEW left \in BOOLEAN, Close(c, n, left)
    PROVE  /\ st' \in [Conns -> States] /\ bits' \in [Conns -> SUBSET Bits]
           /\ nickTable' \in [Nicks -> Conns \cup {NoConn}]
           /\ nickList' \in [Nicks -> Nat]
           /\ logged' \in Int /\ totalShare' \in Int
           /\ unsent' \in [Conns -> BOOLEAN]
           /\ toClose' \in [Conns -> 0 .. CounterRange - 1]
<1>1. CloseBits(c) \in SUBSET Bits
  BY CloseType
<1>2. bits' \in [Conns -> SUBSET Bits]
  BY <1>1 DEF Close, TypeOK
<1> QED BY <1>2, CloseType DEF Close

\* The three ways ValidateUserNick closes somebody.
LEMMA RefusalType ==
    ASSUME TypeOK, NEW c \in Conns, NEW n \in Nicks, NEW left \in BOOLEAN,
           \/ RefuseNick(c, n, left)
           \/ CloseDeadClone(c, n)
           \/ DenyNick(c, n, left),
           UNCHANGED <<timers, regs, sched>>
    PROVE  TypeOK'
<1>1. nick' \in [Conns -> Nicks \cup {NoNick}] /\ share' = share
  <2>1. nick' = [nick EXCEPT ![c] = n] /\ share' = share
    BY DEF RefuseNick, CloseDeadClone, DenyNick
  <2> QED BY <2>1 DEF TypeOK
<1>2. CASE Close(c, n, left)
  BY <1>1, <1>2, CloseStepType DEF TypeOK, timers, sched
<1>3. CASE CloseDeadClone(c, n)
  <2> DEFINE other == nickTable[n]
  <2>1. other \in Conns
    BY <1>3, NicksAssumption DEF CloseDeadClone, TypeOK
  <2>2. PICK m : Close(other, m, FALSE)
    BY <1>3 DEF CloseDeadClone
  <2> HIDE DEF other
  <2> QED BY <1>1, <2>1, <2>2, CloseStepType DEF TypeOK, timers, sched
<1> QED BY <1>2, <1>3 DEF RefuseNick, DenyNick

\* What the other commands do to a user.
LEMMA CommandType ==
    ASSUME TypeOK, NEW c \in Conns,
           \/ AcceptUser(c)
           \/ \E s \in SupportSets : Supports(c, s)
           \/ Key(c)
           \/ Version(c)
           \/ GetNickList(c)
    PROVE  TypeOK'
<1>1. st' \in [Conns -> States]
  BY DEF TypeOK, AcceptUser, Supports, Key, Version, GetNickList, States,
         OpenStates, LoginStates, EarlyStates, NickStates
<1>2. bits' \in [Conns -> SUBSET Bits]
  BY DEF TypeOK, AcceptUser, Supports, Key, Version, GetNickList, Bits
<1>3. age' \in [Conns -> 0 .. AddTimeout + 1]
  BY TimeoutsAssumption DEF TypeOK, AcceptUser, Supports, Key, Version, GetNickList, timers
<1>4. UNCHANGED <<nick, share, v4age, closing, hub, regs, sched>>
  BY DEF AcceptUser, Supports, Key, Version, GetNickList, timers
<1> QED BY <1>1, <1>2, <1>3, <1>4 DEF TypeOK, closing, hub, sched

LEMMA MyINFOType ==
    ASSUME TypeOK, NEW c \in Conns, NEW sh \in Shares, MyINFO(c, sh)
    PROVE  TypeOK'
<1>1. share' \in [Conns -> Shares]
  BY DEF TypeOK, MyINFO
<1>2. st' \in [Conns -> States] /\ v4age' \in [Conns -> 0 .. IPv4Timeout + 1]
  BY AddMeStateType, TimeoutsAssumption
  DEF TypeOK, MyINFO, GoToAddMe, States, OpenStates, LoginStates, AddStates
<1> QED BY <1>1, <1>2 DEF TypeOK, MyINFO, closing, hub, sched

LEMMA MyINFORefreshType ==
    ASSUME TypeOK, NEW c \in Conns, NEW sh \in Shares, MyINFORefresh(c, sh)
    PROVE  TypeOK'
<1>1. share' \in [Conns -> Shares]
  BY DEF TypeOK, MyINFORefresh
<1>2. share[c] \in Nat /\ sh \in Nat
  BY SharesAssumption DEF TypeOK
<1>3. totalShare' \in Int
  BY <1>2 DEF TypeOK, MyINFORefresh
<1> QED BY <1>1, <1>3 DEF TypeOK, MyINFORefresh, timers, closing, sched

\* ValidateUserNick in all its outcomes.
LEMMA ValidateUserNickType ==
    ASSUME TypeOK, NEW c \in Conns, NEW n \in Nicks, NEW next \in States,
           NEW sh \in Shares, NEW left \in BOOLEAN,
           ValidateUserNick(c, n, next, sh, left)
    PROVE  TypeOK'
<1>1. CASE RefuseNick(c, n, left) /\ UNCHANGED timers
  BY <1>1, RefusalType DEF ValidateUserNick
<1>2. CASE CloseDeadClone(c, n) /\ UNCHANGED timers
  BY <1>2, RefusalType DEF ValidateUserNick
<1>3. CASE DenyNick(c, n, left) /\ UNCHANGED timers
  BY <1>3, RefusalType DEF ValidateUserNick
<1>4. CASE AskGhostPassword(c, n, sh)
  <2>1. st' \in [Conns -> States] /\ bits' \in [Conns -> SUBSET Bits]
    BY <1>4 DEF TypeOK, AskGhostPassword, States, OpenStates, LoginStates, NickStates, Bits
  <2>2. nick' \in [Conns -> Nicks \cup {NoNick}] /\ share' \in [Conns -> Shares]
    BY <1>4 DEF TypeOK, AskGhostPassword
  <2>3. UNCHANGED <<timers, closing, hub, regs, sched>>
    BY <1>4 DEF AskGhostPassword, ValidateUserNick
  <2> QED BY <2>1, <2>2, <2>3 DEF TypeOK, timers, closing, hub, sched
<1>5. CASE HashNick(c, n, next, sh)
  <2>1. st' \in [Conns -> States]
    BY <1>5 DEF TypeOK, HashNick, States, OpenStates, LoginStates, NickStates
  <2>2. bits' \in [Conns -> SUBSET Bits]
    BY <1>5 DEF TypeOK, HashNick, Bits
  <2>3. nick' \in [Conns -> Nicks \cup {NoNick}] /\ share' \in [Conns -> Shares]
    BY <1>5 DEF TypeOK, HashNick
  <2>4. nickTable' \in [Nicks -> Conns \cup {NoConn}]
    BY <1>5 DEF TypeOK, HashNick
  <2>5. v4age' \in [Conns -> 0 .. IPv4Timeout + 1]
    BY <1>5, TimeoutsAssumption DEF TypeOK, HashNick
  <2>6. UNCHANGED <<age, closing, nickList, logged, totalShare, regs, sched>>
    BY <1>5 DEF HashNick, ValidateUserNick
  <2> QED BY <2>1, <2>2, <2>3, <2>4, <2>5, <2>6 DEF TypeOK, closing, sched
<1> QED BY <1>1, <1>2, <1>3, <1>4, <1>5 DEF ValidateUserNick

\* The states a login goes on with after ValidateUserNick.
LEMMA NextStateType ==
    \A c \in Conns : /\ AddMeState(c) \in States
                      /\ "VALIDATE" \in States /\ "VERSION_OR_MYPASS" \in States
BY AddMeStateType DEF States, OpenStates, LoginStates, AddStates, NickStates

LEMMA MyPassType ==
    ASSUME TypeOK, NEW c \in Conns, NEW left \in BOOLEAN, MyPass(c, left)
    PROVE  TypeOK'
<1> DEFINE n == nick[c]
           other == nickTable[n]
           ghost == ~Has(c, "HASHED") /\ other # NoConn
           next == IF Has(c, "QUICKLIST") /\ ~Has(c, "PINGER")
                   THEN AddMeState(c) ELSE st[c]
           passed == (bits[c] \ {"WAITING_FOR_PASS"}) \cup {"HASHED"}
<1>1. n \in Nicks /\ other \in Conns \cup {NoConn}
  BY DEF MyPass, TypeOK
<1>2. next \in States /\ passed \in SUBSET Bits
  BY NextStateType DEF TypeOK, Bits
<1>3. \A m : TableAfterClose(other, m) \in [Nicks -> Conns \cup {NoConn}]
  BY DEF TableAfterClose, TypeOK
<1>4. nickTable' \in [Nicks -> Conns \cup {NoConn}]
  BY <1>1, <1>3 DEF MyPass, TypeOK
<1>5. v4age' \in [Conns -> 0 .. IPv4Timeout + 1]
  BY TimeoutsAssumption DEF MyPass, TypeOK
<1>6. UNCHANGED <<nick, share, age, regs, sched>>
  BY DEF MyPass
<1>7. CASE ghost /\ Open(other)
  <2>1. other \in Conns
    BY <1>1, <1>7
  <2>2. /\ StAfterClose(other, left) \in [Conns -> States]
        /\ CloseBits(other) \in SUBSET Bits
    BY <2>1, CloseType
  <2>3. st' = [StAfterClose(other, left) EXCEPT ![c] = next]
    BY <1>7 DEF MyPass
  <2>4. bits' = [bits EXCEPT ![other] = CloseBits(other), ![c] = passed]
    BY <1>7 DEF MyPass
  <2>5. LeaveHub(other) /\ SetCloseLoops(other, left)
    BY <1>7 DEF MyPass
  <2>6. st' \in [Conns -> States]
    BY <1>2, <2>2, <2>3
  <2>7. bits' \in [Conns -> SUBSET Bits]
    BY <1>2, <2>2, <2>4 DEF TypeOK
  <2> HIDE DEF other, n, next, passed, ghost
  <2> QED BY <2>1, <2>5, <2>6, <2>7, <1>4, <1>5, <1>6, CloseType DEF TypeOK, sched
<1>8. CASE ~(ghost /\ Open(other))
  <2>1. st' = [st EXCEPT ![c] = next] /\ bits' = [bits EXCEPT ![c] = passed]
    BY <1>8 DEF MyPass
  <2>2. st' \in [Conns -> States]
    BY <1>2, <2>1 DEF TypeOK
  <2>3. bits' \in [Conns -> SUBSET Bits]
    BY <1>2, <2>1 DEF TypeOK
  <2>4. UNCHANGED <<closing, nickList, logged, totalShare>>
    BY <1>8 DEF MyPass
  <2> QED BY <2>2, <2>3, <2>4, <1>4, <1>5, <1>6 DEF TypeOK, closing, sched
<1> QED BY <1>7, <1>8

LEMMA MyNickType ==
    ASSUME TypeOK, NEW c \in Conns, NEW n \in Nicks, NEW left \in BOOLEAN,
           MyNick(c, n, left)
    PROVE  TypeOK'
<1>1. StAfterClose(c, left) \in [Conns -> States]
  BY CloseType
<1>2. st' \in [Conns -> States]
  BY <1>1 DEF MyNick, States, OpenStates, LoginStates, AddStates
<1>3. SetCloseLoops(c, left)
  BY DEF MyNick
<1>4. /\ unsent' \in [Conns -> BOOLEAN]
      /\ toClose' \in [Conns -> 0 .. CounterRange - 1]
  BY <1>3, CloseType
<1>5. UNCHANGED <<bits, nick, share, timers, hub, regs, sched>>
  BY DEF MyNick
<1> QED BY <1>2, <1>4, <1>5 DEF TypeOK, timers, hub, sched

LEMMA HideType ==
    ASSUME TypeOK, NEW c \in Conns, Hide(c)
    PROVE  TypeOK'
<1>1. CloseBits(c) \cup {"HIDDEN"} \in SUBSET Bits
  BY CloseType DEF Bits
<1>2. bits' \in [Conns -> SUBSET Bits]
  BY <1>1 DEF Hide, TypeOK
<1>3. LeaveHub(c)
  BY DEF Hide
<1>4. /\ nickList' \in [Nicks -> Nat]
      /\ logged' \in Int /\ totalShare' \in Int
  BY <1>3, CloseType
<1> QED BY <1>2, <1>4 DEF Hide, TypeOK, timers, closing, sched

\* Add2Userlist counts the nick once more.
LEMMA Add2NickListType ==
    ASSUME nickList \in [Nicks -> Nat]
    PROVE  \A n : Add2NickList(n) \in [Nicks -> Nat]
<1>1. \A k \in Nat : k + 1 \in Nat
  OBVIOUS
<1> QED BY <1>1 DEF Add2NickList

LEMMA UnhideType ==
    ASSUME TypeOK, NEW c \in Conns, Unhide(c)
    PROVE  TypeOK'
<1>1. bits' \in [Conns -> SUBSET Bits]
  BY DEF Unhide, TypeOK, Bits
<1>2. nickList' \in [Nicks -> Nat]
  BY Add2NickListType DEF Unhide, TypeOK
<1>3. logged' \in Int
  BY DEF Unhide, TypeOK
<1>4. share[c] \in Nat
  BY SharesAssumption DEF TypeOK
<1>5. totalShare' \in Int
  BY <1>4 DEF Unhide, TypeOK
<1> QED BY <1>1, <1>2, <1>3, <1>5 DEF Unhide, TypeOK, timers, closing, sched

\* A pass of the receive loop over a user that is in service.
LEMMA ReceiveVisitType ==
    ASSUME TypeOK, NEW c \in Conns, NEW left \in BOOLEAN, ReceiveVisit(c, left)
    PROVE  TypeOK'
<1>1. todo' \in SUBSET Conns /\ UNCHANGED <<loop, regs>>
  BY DEF ReceiveVisit, Visited, TypeOK
<1>2. CASE LoginTimesOut(c, left)
  BY <1>1, <1>2, CloseStepType DEF LoginTimesOut, TypeOK, timers
<1>3. CASE LoginWaits(c)
  BY <1>1, <1>3 DEF LoginWaits, TypeOK, conn, timers, closing, hub
<1>4. ASSUME NEW from, NEW to \in States, Advance(c, from, to)
      PROVE  TypeOK'
  <2>1. st' \in [Conns -> States]
    BY <1>4 DEF Advance, TypeOK
  <2> QED BY <1>1, <1>4, <2>1 DEF Advance, TypeOK, timers, closing, hub
<1>5. CASE SendsLock(c) \/ GivesUpIPv4(c) \/ AddMe(c)
  BY <1>4, <1>5 DEF SendsLock, GivesUpIPv4, AddMe, States, OpenStates, LoginStates,
                    EarlyStates, AddStates
<1>6. CASE EnterLists(c)
  <2>1. st' \in [Conns -> States] /\ bits' \in [Conns -> SUBSET Bits]
    BY <1>6 DEF EnterLists, TypeOK, States, OpenStates, LoginStates, Bits
  <2>2. nickList' \in [Nicks -> Nat]
    BY <1>6, Add2NickListType DEF EnterLists, TypeOK
  <2>3. share[c] \in Nat
    BY SharesAssumption DEF TypeOK
  <2>4. totalShare' \in Int
    BY <1>6, <2>3 DEF EnterLists, TypeOK
  <2> QED BY <1>1, <1>6, <2>1, <2>2, <2>4 DEF EnterLists, TypeOK, timers, closing
<1> QED BY <1>2, <1>3, <1>5, <1>6 DEF ReceiveVisit

LEMMA ClosingVisitType ==
    ASSUME TypeOK, NEW c \in Conns, NEW sent \in BOOLEAN, ClosingVisit(c, sent)
    PROVE  TypeOK'
<1>1. todo' \in SUBSET Conns /\ UNCHANGED <<loop, regs>>
  BY DEF ClosingVisit, Visited, TypeOK
<1>2. CASE FlushClosing(c, sent)
  <2>1. toClose' \in [Conns -> 0 .. CounterRange - 1]
    BY <1>2, CounterInRange DEF FlushClosing, TypeOK
  <2>2. unsent' \in [Conns -> BOOLEAN]
    BY <1>2 DEF FlushClosing, TypeOK
  <2> QED BY <1>1, <1>2, <2>1, <2>2 DEF FlushClosing, TypeOK, conn, timers, hub
<1>3. CASE GiveUpClosing(c)
  <2>1. st' \in [Conns -> States]
    BY <1>3 DEF GiveUpClosing, TypeOK, States, PastLogin
  <2> QED BY <1>1, <1>3, <2>1 DEF GiveUpClosing, TypeOK, timers, closing, hub
<1> QED BY <1>2, <1>3 DEF ClosingVisit

\* REMME and the send loop.
LEMMA LastVisitType ==
    ASSUME TypeOK, NEW c \in Conns, RemUser(c) \/ BecomeAdded(c) \/ SendVisit(c)
    PROVE  TypeOK'
<1>1. todo' \in SUBSET Conns /\ UNCHANGED <<loop, regs>>
  BY DEF RemUser, BecomeAdded, SendVisit, Visited, TypeOK
<1>2. CASE RemUser(c)
  <2>1. 0 \in 0 .. AddTimeout + 1 /\ 0 \in 0 .. IPv4Timeout + 1 /\ 0 \in 0 .. CounterRange - 1
    BY TimeoutsAssumption
  <2>2. st' \in [Conns -> States] /\ bits' \in [Conns -> SUBSET Bits]
    BY <1>2 DEF RemUser, TypeOK, States
  <2>3. /\ nick' \in [Conns -> Nicks \cup {NoNick}]
        /\ share' \in [Conns -> Shares]
        /\ unsent' \in [Conns -> BOOLEAN]
    BY <1>2, SharesAssumption DEF RemUser, TypeOK
  <2>4. /\ age' \in [Conns -> 0 .. AddTimeout + 1]
        /\ v4age' \in [Conns -> 0 .. IPv4Timeout + 1]
        /\ toClose' \in [Conns -> 0 .. CounterRange - 1]
    BY <1>2, <2>1 DEF RemUser, TypeOK
  <2> QED BY <1>1, <1>2, <2>2, <2>3, <2>4 DEF RemUser, TypeOK, hub
<1>3. CASE BecomeAdded(c)
  <2>1. 0 \in 0 .. AddTimeout + 1 /\ 0 \in 0 .. IPv4Timeout + 1
    BY TimeoutsAssumption
  <2>2. st' \in [Conns -> States] /\ bits' \in [Conns -> SUBSET Bits]
    BY <1>3 DEF BecomeAdded, TypeOK, States, OpenStates
  <2>3. /\ age' \in [Conns -> 0 .. AddTimeout + 1]
        /\ v4age' \in [Conns -> 0 .. IPv4Timeout + 1]
    BY <1>3, <2>1 DEF BecomeAdded, TypeOK
  <2>4. logged' \in Int
    BY <1>3 DEF BecomeAdded, TypeOK
  <2> QED BY <1>1, <1>3, <2>2, <2>3, <2>4 DEF BecomeAdded, TypeOK, closing
<1>4. CASE SendVisit(c)
  <2>1. bits' \in [Conns -> SUBSET Bits]
    BY <1>4 DEF SendVisit, TypeOK
  <2> QED BY <1>1, <1>4, <2>1 DEF SendVisit, TypeOK, timers, closing, hub
<1> QED BY <1>2, <1>3, <1>4

\* The passes of the service loop begin and end, and the clock ticks.
LEMMA PassType ==
    ASSUME TypeOK, BeginReceive \/ BeginSend \/ \E tick \in BOOLEAN : EndSend(tick)
    PROVE  TypeOK'
<1>1. CASE BeginReceive \/ BeginSend
  BY <1>1 DEF BeginReceive, BeginSend, TypeOK, conn, timers, closing, hub
<1>2. ASSUME NEW tick \in BOOLEAN, EndSend(tick)
      PROVE  TypeOK'
  <2>1. \A k, limit \in Nat : k \in 0 .. limit + 1 => Capped(k + 1, limit) \in 0 .. limit + 1
    BY DEF Capped
  <2>2. age' \in [Conns -> 0 .. AddTimeout + 1]
    <3>1. \A c \in Conns : age[c] \in 0 .. AddTimeout + 1 /\ age[c] \in Nat
      BY TimeoutsAssumption DEF TypeOK
    <3>2. \A c \in Conns : Capped(age[c] + 1, AddTimeout) \in 0 .. AddTimeout + 1
      BY <3>1, <2>1, TimeoutsAssumption
    <3> QED BY <1>2, <3>1, <3>2 DEF EndSend, TypeOK, timers
  <2>3. v4age' \in [Conns -> 0 .. IPv4Timeout + 1]
    <3>1. \A c \in Conns : v4age[c] \in 0 .. IPv4Timeout + 1 /\ v4age[c] \in Nat
      BY TimeoutsAssumption DEF TypeOK
    <3>2. \A c \in Conns : Capped(v4age[c] + 1, IPv4Timeout) \in 0 .. IPv4Timeout + 1
      BY <3>1, <2>1, TimeoutsAssumption
    <3> QED BY <1>2, <3>1, <3>2 DEF EndSend, TypeOK, timers
  <2> QED BY <1>2, <2>2, <2>3 DEF EndSend, TypeOK, conn, closing, hub
<1> QED BY <1>1, <1>2

\* $ValidateNick and the first $MyINFO.
LEMMA NickCommandType ==
    ASSUME TypeOK, NEW c \in Conns, NEW n \in Nicks, NEW left \in BOOLEAN,
           \/ ValidateNick(c, n, left)
           \/ \E sh \in Shares : QuickMyINFO(c, n, sh, left)
    PROVE  TypeOK'
<1>1. CASE ValidateNick(c, n, left)
  <2>1. share[c] \in Shares
    BY DEF TypeOK
  <2> QED BY <1>1, <2>1, ValidateUserNickType, NextStateType DEF ValidateNick
<1>2. ASSUME NEW sh \in Shares, QuickMyINFO(c, n, sh, left)
      PROVE  TypeOK'
  BY <1>2, ValidateUserNickType, NextStateType DEF QuickMyINFO
<1> QED BY <1>1, <1>2

\* The variables keep their types: in particular the close counter of a pinger
\* wraps and the count of a nick in the list never goes below zero.
THEOREM TypeCorrect == Spec => []TypeOK
<1>1. Init => TypeOK
  <2>1. 0 \in 0 .. AddTimeout + 1 /\ 0 \in 0 .. IPv4Timeout + 1 /\ 0 \in 0 .. CounterRange - 1
    BY TimeoutsAssumption
  <2> QED BY <2>1, SharesAssumption DEF Init, TypeOK, States
<1>2. TypeOK /\ [Next]_vars => TypeOK'
  <2> SUFFICES ASSUME TypeOK, [Next]_vars PROVE TypeOK'
    OBVIOUS
  <2>1. ASSUME NEW c \in Conns, ConnNext(c) PROVE TypeOK'
    <3>1. ASSUME NEW left \in BOOLEAN, CloseUser(c, left) PROVE TypeOK'
      BY <3>1, CloseStepType DEF CloseUser, TypeOK, timers, sched
    <3> QED BY <2>1, <3>1, CommandType, NickCommandType, MyINFOType, MyINFORefreshType,
               MyPassType, MyNickType, HideType, UnhideType, ReceiveVisitType,
               ClosingVisitType, LastVisitType
            DEF ConnNext
  <2>2. CASE BeginReceive \/ BeginSend \/ \E tick \in BOOLEAN : EndSend(tick)
    BY <2>2, PassType
  <2>3. ASSUME NEW n \in Regable, RegChange(n) PROVE TypeOK'
    BY <2>3, NicksAssumption DEF RegChange, TypeOK, conn, timers, closing, hub, sched
  <2>4. CASE UNCHANGED vars
    BY <2>4 DEF vars, conn, timers, closing, hub, sched, TypeOK
  <2> QED BY <2>1, <2>2, <2>3, <2>4 DEF Next
<1> QED BY <1>1, <1>2, PTL DEF Spec
-----------------------------------------------------------------------------
\* The nick hash.

\* The conjuncts of NickInvariant about one user alone ...
LoginIsConsistent(c) ==
    /\ st[c] = "FREE" => bits[c] = {}
    /\ st[c] \in EarlyStates => ~Has(c, "QUICKLIST") /\ ~Has(c, "PINGER")
    /\ st[c] \in EarlyStates \cup {"VALIDATE"} =>
          ~Has(c, "HASHED") /\ ~Has(c, "WAITING_FOR_PASS")
    /\ st[c] \in {"VERSION_OR_MYPASS", "GETNICKLIST_OR_MYINFO"} =>
          nick[c] \in Nicks /\ (Has(c, "HASHED") \/ Has(c, "WAITING_FOR_PASS"))
    /\ st[c] \in OnlineStates =>
          Has(c, "HASHED") /\ ~Has(c, "WAITING_FOR_PASS") /\ ~Has(c, "PINGER")
    /\ ~(Has(c, "QUICKLIST") /\ Has(c, "PINGER"))

\* ... and those that tie the users to the hash.
TableIsConsistent == TableHoldsOpenUsers /\ HashedUsersAreInTheTable

\* NickInvariant is the two together.
LEMMA InvariantParts ==
    NickInvariant <=> TableIsConsistent /\ \A c \in Conns : LoginIsConsistent(c)
BY DEF NickInvariant, TableIsConsistent, LoginIsConsistent, FreshUsersAreUnknown,
       NamedUsersAreHashedOrAsked, OnlineUsersAreHashed, PingersHaveNoQuickList

\* The same after a step.
LEMMA InvariantPartsNext ==
    ASSUME TableIsConsistent', \A c \in Conns : LoginIsConsistent(c)'
    PROVE  NickInvariant'
BY DEF NickInvariant, TableIsConsistent, LoginIsConsistent, FreshUsersAreUnknown,
       NamedUsersAreHashedOrAsked, OnlineUsersAreHashed, PingersHaveNoQuickList

\* A step about one user that leaves the hash and the bit BIT_HASHED alone,
\* renames nobody who is hashed and ends nobody's service.
LEMMA UnhashedStep ==
    ASSUME TypeOK, NickInvariant, NEW c \in Conns,
           nickTable' = nickTable,
           \A d \in Conns \ {c} : st'[d] = st[d] /\ bits'[d] = bits[d] /\ nick'[d] = nick[d],
           nick'[c] = nick[c] \/ ~Has(c, "HASHED"),
           "HASHED" \in bits'[c] <=> Has(c, "HASHED"),
           Open(c) <=> Open(c)',
           LoginIsConsistent(c)'
    PROVE  NickInvariant'
<1>1. TableIsConsistent /\ \A d \in Conns : LoginIsConsistent(d)
  BY InvariantParts
<1>2. \A d \in Conns \ {c} : LoginIsConsistent(d)'
  BY <1>1 DEF LoginIsConsistent, Has
<1>3. TableIsConsistent'
  BY <1>1 DEF TableIsConsistent, TableHoldsOpenUsers, HashedUsersAreInTheTable, Open, Has, TypeOK
<1> QED BY <1>2, <1>3, InvariantPartsNext

\* User::Close, of a user known by the nick it is hashed under.
LEMMA CloseStep ==
    ASSUME TypeOK, NickInvariant, NEW c \in Conns, NEW n, NEW left \in BOOLEAN,
           Open(c), Close(c, n, left),
           Has(c, "HASHED") => n = nick[c],
           \A d \in Conns \ {c} : nick'[d] = nick[d] \/ (~Has(d, "HASHED") /\ st[d] = "VALIDATE")
    PROVE  NickInvariant'
<1>1. TableIsConsistent /\ \A d \in Conns : LoginIsConsistent(d)
  BY InvariantParts
<1>2. /\ st'[c] \in PastLogin /\ bits'[c] \subseteq bits[c]
      /\ \A d \in Conns \ {c} : st'[d] = st[d] /\ bits'[d] = bits[d]
  BY DEF Close, StAfterClose, CloseBits, PastLogin, TypeOK
<1>3. ~Open(c)' /\ st'[c] \notin EarlyStates \cup NickStates \cup OnlineStates \cup {"FREE"}
  BY <1>2 DEF Open, PastLogin, OpenStates, LoginStates, EarlyStates, NickStates, AddStates,
              OnlineStates, ListedStates
<1>4. \A d \in Conns : LoginIsConsistent(d)'
  <2>1. LoginIsConsistent(c)'
    BY <1>1, <1>2, <1>3 DEF LoginIsConsistent, Has, NickStates
  <2>2. \A d \in Conns \ {c} : LoginIsConsistent(d)'
    BY <1>1, <1>2 DEF LoginIsConsistent, Has
  <2> QED BY <2>1, <2>2
<1>5. TableIsConsistent'
  <2>1. nickTable' = TableAfterClose(c, n)
    BY DEF Close
  <2>2. \A m \in Nicks : nickTable'[m] # c /\ (nickTable'[m] = nickTable[m] \/ nickTable'[m] = NoConn)
    BY <1>1, <2>1, ConnsAssumption
    DEF TableAfterClose, TableIsConsistent, TableHoldsOpenUsers, HashedUsersAreInTheTable, TypeOK
  <2>3. \A m \in Nicks : nickTable[m] # c => nickTable'[m] = nickTable[m]
    BY <1>1, <2>1 DEF TableAfterClose, TableIsConsistent, HashedUsersAreInTheTable, TypeOK
  <2>4. TableHoldsOpenUsers'
    BY <1>1, <1>2, <2>2 DEF TableIsConsistent, TableHoldsOpenUsers, Open, Has, TypeOK
  <2>5. HashedUsersAreInTheTable'
    BY <1>1, <1>2, <1>3, <2>3 DEF TableIsConsistent, HashedUsersAreInTheTable, Open, Has, TypeOK
  <2> QED BY <2>4, <2>5 DEF TableIsConsistent
<1> QED BY <1>4, <1>5, InvariantPartsNext

\* A step that enters c in the hash under n, a nick nobody holds; a user that
\* held it may have been closed by the same step.
LEMMA HashStep ==
    ASSUME TypeOK, NickInvariant, NEW c \in Conns, NEW n \in Nicks,
           Open(c), ~Has(c, "HASHED"),
           nickTable' = [nickTable EXCEPT ![n] = c],
           nick' \in [Conns -> Nicks \cup {NoNick}], nick'[c] = n,
           \A d \in Conns \ {c} : nick'[d] = nick[d],
           \A d \in Conns \ {c} :
               IF d = nickTable[n]
               THEN st'[d] \in PastLogin /\ bits'[d] \subseteq bits[d]
               ELSE st'[d] = st[d] /\ bits'[d] = bits[d],
           Open(c)', Has(c, "HASHED")', LoginIsConsistent(c)'
    PROVE  NickInvariant'
<1>1. TableIsConsistent /\ \A d \in Conns : LoginIsConsistent(d)
  BY InvariantParts
<1>2. ASSUME NEW d \in Conns, st'[d] \in PastLogin
      PROVE  ~Open(d)' /\ st'[d] \notin EarlyStates \cup NickStates \cup OnlineStates \cup {"FREE"}
  BY <1>2 DEF Open, PastLogin, OpenStates, LoginStates, EarlyStates, NickStates, AddStates,
              OnlineStates, ListedStates
<1>3. ASSUME NEW d \in Conns \ {c} PROVE LoginIsConsistent(d)'
  <2>1. CASE d = nickTable[n]
    BY <1>1, <1>2, <2>1 DEF LoginIsConsistent, Has, NickStates
  <2>2. CASE d # nickTable[n]
    BY <1>1, <2>2 DEF LoginIsConsistent, Has
  <2> QED BY <2>1, <2>2
<1>4. \A m \in Nicks : nickTable'[m] = IF m = n THEN c ELSE nickTable[m]
  BY DEF TypeOK
<1>5. \A m \in Nicks \ {n} : nickTable[m] # NoConn => nickTable[m] # nickTable[n] /\ nickTable[m] # c
  BY <1>1 DEF TableIsConsistent, TableHoldsOpenUsers
<1>6. TableHoldsOpenUsers'
  <2> SUFFICES ASSUME NEW m \in Nicks, nickTable'[m] # NoConn
               PROVE  /\ st'[nickTable'[m]] \in OpenStates
                      /\ "HASHED" \in bits'[nickTable'[m]]
                      /\ nick'[nickTable'[m]] = m
    BY DEF TableHoldsOpenUsers, Open, Has
  <2>1. CASE m = n
    BY <1>4, <2>1 DEF Open, Has
  <2>2. CASE m # n
    <3>1. nickTable'[m] = nickTable[m] /\ nickTable[m] \in Conns \ {c, nickTable[n]}
      BY <1>4, <1>5, <2>2 DEF TypeOK
    <3> QED BY <1>1, <3>1 DEF TableIsConsistent, TableHoldsOpenUsers, Open, Has
  <2> QED BY <2>1, <2>2
<1>7. HashedUsersAreInTheTable'
  <2> SUFFICES ASSUME NEW d \in Conns, Open(d)', Has(d, "HASHED")'
               PROVE  nick'[d] \in Nicks /\ nickTable'[nick'[d]] = d
    BY DEF HashedUsersAreInTheTable, Open, Has
  <2>1. CASE d = c
    BY <1>4, <2>1
  <2>2. CASE d # c
    <3>1. d # nickTable[n]
      BY <1>2, <2>2
    <3>2. Open(d) /\ Has(d, "HASHED") /\ nick'[d] = nick[d]
      BY <2>2, <3>1 DEF Open, Has
    <3>3. nick[d] \in Nicks /\ nickTable[nick[d]] = d
      BY <1>1, <3>2 DEF TableIsConsistent, HashedUsersAreInTheTable
    <3> QED BY <1>4, <3>1, <3>2, <3>3
  <2> QED BY <2>1, <2>2
<1> QED BY <1>3, <1>6, <1>7, InvariantPartsNext DEF TableIsConsistent

\* ValidateUserNick for a user in STATE_VALIDATE.
LEMMA ValidateUserNickStep ==
    ASSUME TypeOK, NickInvariant, NEW c \in Conns, NEW n \in Nicks, NEW next \in States,
           NEW sh \in Shares, NEW left \in BOOLEAN, st[c] = "VALIDATE",
           next \in {"VERSION_OR_MYPASS"} \cup (IF Has(c, "PINGER") THEN {}
                                                ELSE {"IPV4_CHECK", "ADDME"}),
           ValidateUserNick(c, n, next, sh, left)
    PROVE  NickInvariant'
<1>1. TableIsConsistent /\ \A d \in Conns : LoginIsConsistent(d)
  BY InvariantParts
<1>2. Open(c) /\ ~Has(c, "HASHED") /\ ~Has(c, "WAITING_FOR_PASS")
  BY <1>1 DEF LoginIsConsistent, Open, OpenStates, LoginStates, NickStates
<1>3. nick' = [nick EXCEPT ![c] = n]
  BY DEF ValidateUserNick, RefuseNick, CloseDeadClone, DenyNick, AskGhostPassword, HashNick
<1>4. nick'[c] = n /\ \A d \in Conns \ {c} : nick'[d] = nick[d]
  BY <1>3 DEF TypeOK
<1>5. nickTable[n] # NoConn =>
        /\ nickTable[n] \in Conns \ {c} /\ Open(nickTable[n]) /\ nick[nickTable[n]] = n
        /\ st[nickTable[n]] \notin PastLogin
  BY <1>1, <1>2 DEF TableIsConsistent, TableHoldsOpenUsers, TypeOK, Open, PastLogin,
                    OpenStates, LoginStates, EarlyStates, NickStates, AddStates
<1>6. CASE RefuseNick(c, n, left) \/ DenyNick(c, n, left)
  <2>1. Close(c, n, left)
    BY <1>6 DEF RefuseNick, DenyNick
  <2>2. \A d \in Conns \ {c} : nick'[d] = nick[d] \/ (~Has(d, "HASHED") /\ st[d] = "VALIDATE")
    BY <1>4
  <2>3. Has(c, "HASHED") => n = nick[c]
    BY <1>2
  <2> QED BY <1>2, <2>1, <2>2, <2>3, CloseStep
<1>7. CASE CloseDeadClone(c, n)
  <2> DEFINE other == nickTable[n]
  <2>1. other # NoConn
    BY <1>7 DEF CloseDeadClone
  <2>2. Close(other, nick[other], FALSE)
    BY <1>5, <1>7, <2>1 DEF CloseDeadClone
  <2>3. \A d \in Conns \ {other} : nick'[d] = nick[d] \/ (~Has(d, "HASHED") /\ st[d] = "VALIDATE")
    BY <1>2, <1>4
  <2> HIDE DEF other
  <2>4. other \in Conns /\ Open(other)
    BY <1>5, <2>1 DEF other
  <2> QED BY <2>2, <2>3, <2>4, CloseStep
<1>8. CASE AskGhostPassword(c, n, sh)
  <2>1. /\ st'[c] = "VERSION_OR_MYPASS" /\ bits'[c] = bits[c] \cup {"WAITING_FOR_PASS"}
        /\ \A d \in Conns \ {c} : st'[d] = st[d] /\ bits'[d] = bits[d]
        /\ nickTable' = nickTable
    BY <1>8 DEF AskGhostPassword, TypeOK, hub
  <2>2. LoginIsConsistent(c)'
    BY <1>1, <1>4, <2>1 DEF LoginIsConsistent, Has, EarlyStates, OnlineStates, AddStates, ListedStates
  <2>3. Open(c)'
    BY <2>1 DEF Open, OpenStates, LoginStates, NickStates
  <2> QED BY <1>2, <1>4, <2>1, <2>2, <2>3, UnhashedStep DEF Has
<1>9. CASE HashNick(c, n, next, sh)
  <2>1. nickTable[n] = NoConn /\ nickTable' = [nickTable EXCEPT ![n] = c]
    BY <1>5, <1>9 DEF HashNick, NickIsFree
  <2>2. /\ \A d \in Conns \ {c} : st'[d] = st[d] /\ bits'[d] = bits[d]
        /\ st'[c] = IF n \in regs THEN "VERSION_OR_MYPASS" ELSE next
        /\ bits'[c] = bits[c] \cup {"HASHED"} \cup (IF n \in regs THEN {"WAITING_FOR_PASS"} ELSE {})
    BY <1>9 DEF HashNick, TypeOK
  <2>3. LoginIsConsistent(c)'
    BY <1>1, <1>2, <1>4, <2>2
    DEF LoginIsConsistent, Has, EarlyStates, OnlineStates, AddStates, ListedStates
  <2>4. Open(c)' /\ Has(c, "HASHED")'
    BY <2>2 DEF Open, Has, OpenStates, LoginStates, NickStates, AddStates
  <2>5. \A d \in Conns : d # nickTable[n]
    BY <2>1, ConnsAssumption
  <2>6. nick' \in [Conns -> Nicks \cup {NoNick}]
    BY <1>3 DEF TypeOK
  <2> QED BY <1>2, <1>4, <2>1, <2>2, <2>3, <2>4, <2>5, <2>6, HashStep
<1> QED BY <1>6, <1>7, <1>8, <1>9 DEF ValidateUserNick

\* $ValidateNick and the first $MyINFO of a QuickList client.
LEMMA NickCommandStep ==
    ASSUME TypeOK, NickInvariant, NEW c \in Conns, NEW n \in Nicks, NEW left \in BOOLEAN,
           \/ ValidateNick(c, n, left)
           \/ \E sh \in Shares : QuickMyINFO(c, n, sh, left)
    PROVE  NickInvariant'
<1>1. CASE ValidateNick(c, n, left)
  <2>1. share[c] \in Shares /\ st[c] = "VALIDATE"
    BY <1>1 DEF TypeOK, ValidateNick, Talks
  <2> QED BY <1>1, <2>1, ValidateUserNickStep, NextStateType DEF ValidateNick
<1>2. ASSUME NEW sh \in Shares, QuickMyINFO(c, n, sh, left)
      PROVE  NickInvariant'
  <2>1. ~Has(c, "PINGER")
    BY <1>2, InvariantParts DEF LoginIsConsistent, QuickMyINFO
  <2>2. ValidateUserNick(c, n, AddMeState(c), sh, left) /\ st[c] = "VALIDATE"
    BY <1>2, <2>1 DEF QuickMyINFO, Talks
  <2> QED BY <2>1, <2>2, ValidateUserNickStep, NextStateType, AddMeStateType
<1> QED BY <1>1, <1>2

\* The commands that move one user on without touching the hash.
LEMMA CommandStep ==
    ASSUME NoQuickPingers, TypeOK, NickInvariant, NEW c \in Conns,
           \/ AcceptUser(c)
           \/ \E s \in SupportSets : Supports(c, s)
           \/ Key(c)
           \/ Version(c)
           \/ GetNickList(c)
           \/ \E sh \in Shares : MyINFO(c, sh) \/ MyINFORefresh(c, sh)
           \/ Hide(c) \/ Unhide(c)
    PROVE  NickInvariant'
<1> USE DEF EarlyStates, NickStates, AddStates, ListedStates, OnlineStates, LoginStates, OpenStates
<1>1. TableIsConsistent /\ LoginIsConsistent(c)
  BY InvariantParts
<1>2. CASE AcceptUser(c)
  <2>1. /\ st[c] = "FREE" /\ bits[c] = {} /\ st' = [st EXCEPT ![c] = "SOCKET_ACCEPTED"]
        /\ UNCHANGED <<bits, nick, nickTable>>
    BY <1>1, <1>2 DEF AcceptUser, LoginIsConsistent, hub
  <2>2. st'[c] = "SOCKET_ACCEPTED" /\ \A d \in Conns \ {c} : st'[d] = st[d]
    BY <2>1 DEF TypeOK
  <2>3. \A d \in Conns \ {c} : LoginIsConsistent(d)'
    BY <2>1, <2>2, InvariantParts DEF LoginIsConsistent, Has
  <2>4. LoginIsConsistent(c)'
    BY <2>1, <2>2 DEF LoginIsConsistent, Has
  <2>5. TableIsConsistent'
    BY <1>1, <2>1, <2>2
    DEF TableIsConsistent, TableHoldsOpenUsers, HashedUsersAreInTheTable, Open, Has, TypeOK
  <2> QED BY <2>3, <2>4, <2>5, InvariantPartsNext
<1>3. CASE ~AcceptUser(c)
  <2>1. /\ UNCHANGED <<nick, nickTable>>
        /\ \A d \in Conns \ {c} : st'[d] = st[d] /\ bits'[d] = bits[d]
    BY <1>3 DEF Supports, Key, Version, GetNickList, MyINFO, MyINFORefresh, GoToAddMe,
                Hide, Unhide, TypeOK, hub
  <2> DEFINE StaysConsistent == /\ Open(c) /\ Open(c)' /\ LoginIsConsistent(c)'
                                /\ "HASHED" \in bits'[c] <=> Has(c, "HASHED")
  <2>2. StaysConsistent
    <3>1. ASSUME NEW s \in SupportSets, Supports(c, s)
          PROVE  StaysConsistent
      BY <3>1, <1>1, <2>1 DEF Supports, Talks, NoQuickPingers, TypeOK, LoginIsConsistent, Has, Open
    <3>2. CASE Key(c)
      BY <3>2, <1>1, <2>1 DEF Key, Talks, TypeOK, LoginIsConsistent, Has, Open
    <3>3. CASE Version(c)
      BY <3>3, <1>1, <2>1 DEF Version, Talks, TypeOK, LoginIsConsistent, Has, Open
    <3>4. CASE GetNickList(c)
      BY <3>4, <1>1, <2>1 DEF GetNickList, Talks, TypeOK, LoginIsConsistent, Has, Open
    <3>5. ASSUME NEW sh \in Shares, MyINFO(c, sh)
          PROVE  StaysConsistent
      BY <3>5, <1>1, <2>1, AddMeStateType
      DEF MyINFO, StaysInLogin, GoToAddMe, Talks, TypeOK, LoginIsConsistent, Has, Open
    <3>6. ASSUME NEW sh \in Shares, MyINFORefresh(c, sh)
          PROVE  StaysConsistent
      BY <3>6, <1>1, <2>1 DEF MyINFORefresh, Talks, TypeOK, LoginIsConsistent, Has, Open
    <3>7. CASE Hide(c)
      BY <3>7, <1>1, <2>1 DEF Hide, CloseBits, TypeOK, LoginIsConsistent, Has, Open
    <3>8. CASE Unhide(c)
      BY <3>8, <1>1, <2>1 DEF Unhide, TypeOK, LoginIsConsistent, Has, Open
    <3> QED BY <1>3, <3>1, <3>2, <3>3, <3>4, <3>5, <3>6, <3>7, <3>8
  <2> QED BY <2>1, <2>2, UnhashedStep
<1> QED BY <1>2, <1>3

\* $MyPass with the right password: the ghost is closed and the nick passes on.
LEMMA MyPassStep ==
    ASSUME TypeOK, NickInvariant, NEW c \in Conns, NEW left \in BOOLEAN, MyPass(c, left)
    PROVE  NickInvariant'
<1> USE DEF EarlyStates, NickStates, AddStates, ListedStates, OnlineStates, LoginStates, OpenStates
<1> DEFINE n == nick[c]
           other == nickTable[n]
           next == IF Has(c, "QUICKLIST") /\ ~Has(c, "PINGER")
                   THEN AddMeState(c) ELSE st[c]
<1>1. TableIsConsistent /\ \A d \in Conns : LoginIsConsistent(d)
  BY InvariantParts
<1>2. st[c] = "VERSION_OR_MYPASS" /\ Open(c) /\ n \in Nicks /\ nick' = nick
  BY <1>1 DEF MyPass, Talks, LoginIsConsistent, Open
<1>3. next \in {"VERSION_OR_MYPASS"} \cup (IF Has(c, "PINGER") THEN {} ELSE {"IPV4_CHECK", "ADDME"})
  BY <1>2, AddMeStateType
<1>4. ASSUME st'[c] = next,
             bits'[c] = (bits[c] \ {"WAITING_FOR_PASS"}) \cup {"HASHED"}
      PROVE  LoginIsConsistent(c)' /\ Open(c)' /\ Has(c, "HASHED")'
  BY <1>1, <1>2, <1>3, <1>4 DEF LoginIsConsistent, Has, Open
<1>5. CASE Has(c, "HASHED")
  <2>1. nickTable' = nickTable
    BY <1>5 DEF MyPass
  <2>2. /\ st' = [st EXCEPT ![c] = next]
        /\ bits' = [bits EXCEPT ![c] = (bits[c] \ {"WAITING_FOR_PASS"}) \cup {"HASHED"}]
    BY <1>5 DEF MyPass
  <2>3. /\ st'[c] = next
        /\ bits'[c] = (bits[c] \ {"WAITING_FOR_PASS"}) \cup {"HASHED"}
        /\ \A d \in Conns \ {c} : st'[d] = st[d] /\ bits'[d] = bits[d]
    BY <2>2 DEF TypeOK
  <2>4. "HASHED" \in bits'[c] <=> Has(c, "HASHED")
    BY <1>5, <2>3
  <2> HIDE DEF next
  <2> QED BY <1>2, <1>4, <2>1, <2>3, <2>4, UnhashedStep
<1>6. CASE ~Has(c, "HASHED")
  <2>1. other # NoConn => other \in Conns \ {c} /\ Open(other) /\ nick[other] = n
    BY <1>1, <1>2, <1>6 DEF TableIsConsistent, TableHoldsOpenUsers, TypeOK
  <2>2. nickTable' = [nickTable EXCEPT ![n] = c]
    <3>1. CASE other # NoConn
      <4>1. nickTable' = [TableAfterClose(other, n) EXCEPT ![n] = c]
        BY <1>6, <2>1, <3>1 DEF MyPass
      <4> QED BY <1>2, <4>1 DEF TableAfterClose, TypeOK
    <3>2. CASE other = NoConn
      BY <1>6, <3>2 DEF MyPass
    <3> QED BY <3>1, <3>2
  <2>3. /\ st'[c] = next
        /\ bits'[c] = (bits[c] \ {"WAITING_FOR_PASS"}) \cup {"HASHED"}
        /\ \A d \in Conns \ {c} :
              IF d = other
              THEN st'[d] \in PastLogin /\ bits'[d] \subseteq bits[d]
              ELSE st'[d] = st[d] /\ bits'[d] = bits[d]
    <3>1. CASE other # NoConn
      <4>1. /\ st' = [StAfterClose(other, left) EXCEPT ![c] = next]
            /\ bits' = [bits EXCEPT ![other] = CloseBits(other),
                                    ![c] = (bits[c] \ {"WAITING_FOR_PASS"}) \cup {"HASHED"}]
        BY <1>6, <2>1, <3>1 DEF MyPass
      <4> HIDE DEF next
      <4> QED BY <2>1, <3>1, <4>1 DEF StAfterClose, CloseBits, PastLogin, TypeOK
    <3>2. CASE other = NoConn
      <4>1. /\ st' = [st EXCEPT ![c] = next]
            /\ bits' = [bits EXCEPT ![c] = (bits[c] \ {"WAITING_FOR_PASS"}) \cup {"HASHED"}]
        BY <3>2 DEF MyPass
      <4> HIDE DEF next
      <4> QED BY <3>2, <4>1, ConnsAssumption DEF TypeOK
    <3> QED BY <3>1, <3>2
  <2>4. nick' \in [Conns -> Nicks \cup {NoNick}] /\ nick'[c] = n
    BY <1>2 DEF TypeOK
  <2> HIDE DEF next
  <2>5. LoginIsConsistent(c)' /\ Open(c)' /\ Has(c, "HASHED")'
    BY <1>4, <2>3
  <2> HIDE DEF n
  <2> QED BY <1>2, <1>6, <2>2, <2>3, <2>4, <2>5, HashStep
<1> QED BY <1>5, <1>6

\* The second connection of a user that proves its IPv4 address.
LEMMA MyNickStep ==
    ASSUME TypeOK, NickInvariant, NEW c \in Conns, NEW n \in Nicks, NEW left \in BOOLEAN,
           MyNick(c, n, left)
    PROVE  NickInvariant'
<1> USE DEF EarlyStates, NickStates, AddStates, ListedStates, OnlineStates, LoginStates, OpenStates
<1> DEFINE other == nickTable[n]
<1>1. TableIsConsistent /\ \A d \in Conns : LoginIsConsistent(d)
  BY InvariantParts
<1>2. other \in Conns /\ st[other] = "IPV4_CHECK" /\ st[c] \in EarlyStates /\ other # c
  BY DEF MyNick, Talks, TypeOK
<1>3. UNCHANGED <<bits, nick, nickTable>>
  BY DEF MyNick, hub
<1>4. /\ st'[other] = "ADDME" /\ st'[c] \in PastLogin
      /\ \A d \in Conns \ {c, other} : st'[d] = st[d]
  BY <1>2 DEF MyNick, StAfterClose, PastLogin, TypeOK
<1> HIDE DEF other
<1>5. \A d \in Conns : LoginIsConsistent(d)'
  BY <1>1, <1>2, <1>3, <1>4 DEF LoginIsConsistent, Has, PastLogin
<1>6. ~Has(c, "HASHED")
  BY <1>1, <1>2 DEF LoginIsConsistent
<1>7. TableIsConsistent'
  BY <1>1, <1>2, <1>3, <1>4, <1>6
  DEF TableIsConsistent, TableHoldsOpenUsers, HashedUsersAreInTheTable, Open, Has, PastLogin, TypeOK
<1> QED BY <1>5, <1>7, InvariantPartsNext

\* NickInvariant is about the users, the hash and nothing else.
LEMMA NoNickStep ==
    ASSUME NickInvariant, UNCHANGED <<st, bits, nick, nickTable>>
    PROVE  NickInvariant'
BY DEF NickInvariant, TableHoldsOpenUsers, HashedUsersAreInTheTable, FreshUsersAreUnknown,
       NamedUsersAreHashedOrAsked, OnlineUsersAreHashed, PingersHaveNoQuickList, Open, Has

\* The visits of the receive loop and of the send loop.
LEMMA VisitStep ==
    ASSUME TypeOK, NickInvariant, NEW c \in Conns,
           \/ \E left \in BOOLEAN : ReceiveVisit(c, left)
           \/ \E sent \in BOOLEAN : ClosingVisit(c, sent)
           \/ BecomeAdded(c)
           \/ SendVisit(c)
    PROVE  NickInvariant'
<1> USE DEF EarlyStates, NickStates, AddStates, ListedStates, OnlineStates, LoginStates, OpenStates
<1>1. LoginIsConsistent(c)
  BY InvariantParts
<1>2. ASSUME NEW left \in BOOLEAN, ReceiveVisit(c, left), LoginTimesOut(c, left)
      PROVE  NickInvariant'
  <2>1. Open(c) /\ Close(c, nick[c], left) /\ nick' = nick
    BY <1>2 DEF ReceiveVisit, Visits, LoginTimesOut, Open
  <2> QED BY <2>1, CloseStep
<1>3. CASE LoginWaits(c) \/ \E sent \in BOOLEAN : FlushClosing(c, sent)
  BY <1>3, NoNickStep DEF LoginWaits, FlushClosing, conn, hub
<1>4. ASSUME UNCHANGED <<nick, nickTable>>,
             \/ SendsLock(c) \/ GivesUpIPv4(c) \/ AddMe(c) \/ EnterLists(c)
             \/ st[c] = "CLOSING" /\ GiveUpClosing(c)
             \/ BecomeAdded(c) \/ SendVisit(c)
      PROVE  NickInvariant'
  <2>1. \A d \in Conns \ {c} : st'[d] = st[d] /\ bits'[d] = bits[d]
    BY <1>4 DEF SendsLock, GivesUpIPv4, AddMe, Advance, EnterLists, GiveUpClosing,
                BecomeAdded, SendVisit, TypeOK
  <2> DEFINE StaysConsistent == /\ Open(c) <=> Open(c)'
                                /\ LoginIsConsistent(c)'
                                /\ "HASHED" \in bits'[c] <=> Has(c, "HASHED")
  <2>2. CASE SendsLock(c) \/ GivesUpIPv4(c) \/ AddMe(c)
    <3>1. StaysConsistent
      BY <1>1, <1>4, <2>2
      DEF SendsLock, GivesUpIPv4, AddMe, Advance, TypeOK, LoginIsConsistent, Has, Open
    <3> QED BY <1>4, <2>1, <3>1, UnhashedStep
  <2>3. CASE EnterLists(c)
    <3>1. StaysConsistent
      BY <1>1, <1>4, <2>3 DEF EnterLists, TypeOK, LoginIsConsistent, Has, Open
    <3> QED BY <1>4, <2>1, <3>1, UnhashedStep
  <2>4. CASE st[c] = "CLOSING" /\ GiveUpClosing(c)
    <3>1. StaysConsistent
      BY <1>1, <1>4, <2>4 DEF GiveUpClosing, TypeOK, LoginIsConsistent, Has, Open
    <3> QED BY <1>4, <2>1, <3>1, UnhashedStep
  <2>5. CASE BecomeAdded(c) \/ SendVisit(c)
    <3>1. StaysConsistent
      BY <1>1, <1>4, <2>5 DEF BecomeAdded, SendVisit, Visits, TypeOK, LoginIsConsistent, Has, Open
    <3> QED BY <1>4, <2>1, <3>1, UnhashedStep
  <2> QED BY <1>4, <2>2, <2>3, <2>4, <2>5
<1>5. ASSUME NEW left \in BOOLEAN, ReceiveVisit(c, left)
      PROVE  NickInvariant'
  BY <1>2, <1>3, <1>4, <1>5 DEF ReceiveVisit, SendsLock, GivesUpIPv4, AddMe, Advance, EnterLists, hub
<1>6. ASSUME NEW sent \in BOOLEAN, ClosingVisit(c, sent)
      PROVE  NickInvariant'
  BY <1>3, <1>4, <1>6 DEF ClosingVisit, Visits, GiveUpClosing, hub
<1>7. CASE BecomeAdded(c) \/ SendVisit(c)
  BY <1>4, <1>7 DEF BecomeAdded, SendVisit, hub
<1> QED BY <1>5, <1>6, <1>7

\* A deleted user is neither in the hash nor remembered.
LEMMA RemUserStep ==
    ASSUME TypeOK, NickInvariant, NEW c \in Conns, RemUser(c)
    PROVE  NickInvariant'
<1> USE DEF EarlyStates, NickStates, AddStates, ListedStates, OnlineStates, LoginStates, OpenStates
<1>1. TableIsConsistent /\ \A d \in Conns : LoginIsConsistent(d)
  BY InvariantParts
<1>2. /\ st[c] = "REMME" /\ st'[c] = "FREE" /\ bits'[c] = {} /\ nickTable' = nickTable
      /\ \A d \in Conns \ {c} : st'[d] = st[d] /\ bits'[d] = bits[d] /\ nick'[d] = nick[d]
  BY DEF RemUser, Visits, TypeOK, hub
<1>3. \A d \in Conns : LoginIsConsistent(d)'
  BY <1>1, <1>2 DEF LoginIsConsistent, Has
<1>4. TableIsConsistent'
  BY <1>1, <1>2 DEF TableIsConsistent, TableHoldsOpenUsers, HashedUsersAreInTheTable, Open, Has, TypeOK
<1> QED BY <1>3, <1>4, InvariantPartsNext

\* The nick hash and the logins stay consistent, in whatever order users log
\* in, close, time out and take back their nicks.
THEOREM NicksCorrect == NoQuickPingers => (Spec => []NickInvariant)
<1> SUFFICES ASSUME NoQuickPingers PROVE Spec => []NickInvariant
  OBVIOUS
<1>1. Init => NickInvariant
  BY DEF Init, NickInvariant, TableHoldsOpenUsers, HashedUsersAreInTheTable,
         FreshUsersAreUnknown, NamedUsersAreHashedOrAsked, OnlineUsersAreHashed,
         PingersHaveNoQuickList, Open, Has, EarlyStates, NickStates, AddStates, ListedStates,
         OnlineStates, LoginStates, OpenStates
<1>2. TypeOK /\ NickInvariant /\ [Next]_vars => NickInvariant'
  <2> SUFFICES ASSUME TypeOK, NickInvariant, [Next]_vars PROVE NickInvariant'
    OBVIOUS
  <2>1. ASSUME NEW c \in Conns, ConnNext(c) PROVE NickInvariant'
    <3>1. ASSUME NEW left \in BOOLEAN, CloseUser(c, left) PROVE NickInvariant'
      BY <3>1, CloseStep DEF CloseUser
    <3> QED BY <2>1, <3>1, CommandStep, NickCommandStep, MyPassStep, MyNickStep, VisitStep,
               RemUserStep
            DEF ConnNext
  <2>2. CASE BeginReceive \/ BeginSend \/ \E tick \in BOOLEAN : EndSend(tick)
    BY <2>2, NoNickStep DEF BeginReceive, BeginSend, EndSend, conn, hub
  <2>3. ASSUME NEW n \in Regable, RegChange(n) PROVE NickInvariant'
    BY <2>3, NoNickStep DEF RegChange, conn, hub
  <2>4. CASE UNCHANGED vars
    BY <2>4, NoNickStep DEF vars, conn, hub
  <2> QED BY <2>1, <2>2, <2>3, <2>4 DEF Next
<1> QED BY <1>1, <1>2, TypeCorrect, PTL DEF Spec

\* The properties of the login that the runs check.
THEOREM LoginCorrect ==
    NoQuickPingers =>
      (Spec => [](/\ TableHoldsOpenUsers
                  /\ OnlineUsersOwnTheirNick
                  /\ OnlineUsersHaveNoPendingPassword
                  /\ PingersStayOut))
<1> SUFFICES ASSUME NoQuickPingers
             PROVE  Spec => [](/\ TableHoldsOpenUsers
                               /\ OnlineUsersOwnTheirNick
                               /\ OnlineUsersHaveNoPendingPassword
                               /\ PingersStayOut)
  OBVIOUS
<1>1. NickInvariant => /\ TableHoldsOpenUsers
                       /\ OnlineUsersOwnTheirNick
                       /\ OnlineUsersHaveNoPendingPassword
                       /\ PingersStayOut
  <2>1. \A c \in Conns : st[c] \in OnlineStates => Open(c)
    BY DEF Open, OpenStates, LoginStates, OnlineStates, ListedStates
  <2> QED BY <2>1 DEF NickInvariant, OnlineUsersOwnTheirNick, OnlineUsersHaveNoPendingPassword,
                      PingersStayOut, HashedUsersAreInTheTable, OnlineUsersAreHashed
<1> QED BY <1>1, NicksCorrect, PTL
-----------------------------------------------------------------------------
\* The lists.

\* Whom m_ui32Logged counts.
Member(c) == st[c] = "ADDED" /\ Visible(c)

\* LoggedExact speaks of the set of these.
LEMMA LoggedCounts == LoggedExact <=> logged = Cardinality({c \in Conns : Member(c)})
BY DEF LoggedExact, Member

\* A step that changes the membership of one user, by as much as it changes
\* the counter.
LEMMA LoggedStep ==
    ASSUME LoggedExact, NEW c \in Conns,
           \A d \in Conns \ {c} : Member(d)' <=> Member(d),
           logged' = logged + (IF Member(c)' THEN 1 ELSE 0) - (IF Member(c) THEN 1 ELSE 0)
    PROVE  LoggedExact'
<1> DEFINE S == {d \in Conns : Member(d)}
           T == {d \in Conns : Member(d)'}
<1>1. IsFiniteSet(S) /\ logged = Cardinality(S) /\ Cardinality(S) \in Nat
  BY LoggedCounts, ConnsAssumption, FS_Subset, FS_CardinalityType
<1>2. LoggedExact' <=> logged' = Cardinality(T)
  BY DEF LoggedExact, Member, Visible, Has
<1>3. CASE Member(c)' <=> Member(c)
  <2>1. S = T
    BY <1>3
  <2>2. logged' = logged
    BY <1>1, <1>3
  <2> QED BY <1>1, <1>2, <2>1, <2>2
<1>4. CASE Member(c)' /\ ~Member(c)
  <2>1. T = S \cup {c} /\ c \notin S
    BY <1>4
  <2>2. Cardinality(T) = Cardinality(S) + 1
    BY <1>1, <2>1, FS_AddElement
  <2>3. logged' = logged + 1
    BY <1>1, <1>4
  <2> QED BY <1>1, <1>2, <2>2, <2>3
<1>5. CASE ~Member(c)' /\ Member(c)
  <2>1. T = S \ {c} /\ c \in S
    BY <1>5
  <2>2. Cardinality(T) = Cardinality(S) - 1
    BY <1>1, <2>1, FS_RemoveElement
  <2>3. logged' = logged - 1
    BY <1>1, <1>5
  <2> QED BY <1>1, <1>2, <2>2, <2>3
<1> QED BY <1>3, <1>4, <1>5

\* A step that neither counts nor changes who is a member.
LEMMA LoggedFrame ==
    ASSUME LoggedExact, logged' = logged, \A d \in Conns : Member(d)' <=> Member(d)
    PROVE  LoggedExact'
<1>1. {d \in Conns : Member(d)'} = {d \in Conns : Member(d)}
  OBVIOUS
<1> QED BY <1>1 DEF LoggedExact, Member, Visible, Has

\* User::Close counts a member out.
LEMMA LoggedClose ==
    ASSUME TypeOK, LoggedExact, NEW c \in Conns, NEW n, NEW left \in BOOLEAN, Close(c, n, left)
    PROVE  LoggedExact'
<1>1. \A d \in Conns \ {c} : Member(d)' <=> Member(d)
  BY DEF Close, StAfterClose, Member, Visible, Has, TypeOK
<1>2. ~Member(c)'
  BY DEF Close, StAfterClose, Member, TypeOK
<1>3. logged' = logged - (IF Member(c) THEN 1 ELSE 0)
  BY DEF Close, LeaveHub, Member, TypeOK
<1>4. logged' = logged + (IF Member(c)' THEN 1 ELSE 0) - (IF Member(c) THEN 1 ELSE 0)
  BY <1>2, <1>3 DEF TypeOK
<1> QED BY <1>1, <1>4, LoggedStep

\* The outcomes of ValidateUserNick.
LEMMA LoggedValidate ==
    ASSUME TypeOK, LoggedExact, NEW c \in Conns, NEW n \in Nicks, NEW next \in States,
           NEW sh \in Shares, NEW left \in BOOLEAN, st[c] = "VALIDATE", next # "ADDED",
           ValidateUserNick(c, n, next, sh, left)
    PROVE  LoggedExact'
<1>1. CASE RefuseNick(c, n, left) \/ DenyNick(c, n, left)
  BY <1>1, LoggedClose DEF RefuseNick, DenyNick
<1>2. CASE CloseDeadClone(c, n)
  <2>1. nickTable[n] \in Conns
    BY <1>2 DEF CloseDeadClone, TypeOK
  <2>2. PICK m : Close(nickTable[n], m, FALSE)
    BY <1>2 DEF CloseDeadClone
  <2> QED BY <2>1, <2>2, LoggedClose
<1>3. CASE AskGhostPassword(c, n, sh) \/ HashNick(c, n, next, sh)
  <2>1. logged' = logged
    BY <1>3 DEF AskGhostPassword, HashNick, hub
  <2>2. \A d \in Conns : Member(d)' <=> Member(d)
    BY <1>3 DEF AskGhostPassword, HashNick, Member, Visible, Has, TypeOK
  <2> QED BY <2>1, <2>2, LoggedFrame
<1> QED BY <1>1, <1>2, <1>3 DEF ValidateUserNick

\* $MyPass counts out the ghost, whatever its state.
LEMMA LoggedMyPass ==
    ASSUME TypeOK, LoggedExact, NEW c \in Conns, NEW left \in BOOLEAN, MyPass(c, left)
    PROVE  LoggedExact'
<1> DEFINE other == nickTable[nick[c]]
           ghost == ~Has(c, "HASHED") /\ other # NoConn
           next == IF Has(c, "QUICKLIST") /\ ~Has(c, "PINGER")
                   THEN AddMeState(c) ELSE st[c]
<1>1. st[c] = "VERSION_OR_MYPASS" /\ next # "ADDED" /\ nick[c] \in Nicks
  BY AddMeStateType DEF MyPass, Talks, TypeOK
<1>2. CASE ghost /\ Open(other)
  <2>1. PICK o \in Conns : o = other
    BY <1>1, <1>2 DEF TypeOK
  <2>2. st' = [StAfterClose(o, left) EXCEPT ![c] = next] /\ LeaveHub(o)
    BY <1>2, <2>1 DEF MyPass
  <2>3. bits' = [bits EXCEPT ![o] = CloseBits(o),
                             ![c] = (bits[c] \ {"WAITING_FOR_PASS"}) \cup {"HASHED"}]
    BY <1>2, <2>1 DEF MyPass
  <2> HIDE DEF other, next
  <2>4. ~Member(o)' /\ ~Member(c)' /\ ~Member(c)
    BY <1>1, <2>2 DEF StAfterClose, Member, TypeOK
  <2>5. \A d \in Conns \ {o, c} : Member(d)' <=> Member(d)
    BY <2>2, <2>3 DEF StAfterClose, Member, Visible, Has, TypeOK
  <2>6. logged' = logged + (IF Member(o)' THEN 1 ELSE 0) - (IF Member(o) THEN 1 ELSE 0)
    BY <2>2, <2>4 DEF LeaveHub, Member, TypeOK
  <2> QED BY <2>4, <2>5, <2>6, LoggedStep
<1>3. CASE ~(ghost /\ Open(other))
  <2>1. logged' = logged /\ st' = [st EXCEPT ![c] = next]
    BY <1>3 DEF MyPass
  <2>2. bits' = [bits EXCEPT ![c] = (bits[c] \ {"WAITING_FOR_PASS"}) \cup {"HASHED"}]
    BY <1>3 DEF MyPass
  <2>3. \A d \in Conns : Member(d)' <=> Member(d)
    BY <1>1, <2>1, <2>2 DEF Member, Visible, Has, TypeOK
  <2> QED BY <2>1, <2>3, LoggedFrame
<1> QED BY <1>2, <1>3

\* Scripts hide and show members, the send loop makes them.
LEMMA LoggedMove ==
    ASSUME TypeOK, LoggedExact, NEW c \in Conns, Hide(c) \/ Unhide(c) \/ BecomeAdded(c)
    PROVE  LoggedExact'
<1>1. \A d \in Conns \ {c} : Member(d)' <=> Member(d)
  BY DEF Hide, Unhide, BecomeAdded, Member, Visible, Has, TypeOK
<1>2. logged' = logged + (IF Member(c)' THEN 1 ELSE 0) - (IF Member(c) THEN 1 ELSE 0)
  <2>1. CASE Hide(c)
    <3>1. ~Member(c)' /\ logged' = IF Member(c) THEN logged - 1 ELSE logged
      BY <2>1 DEF Hide, LeaveHub, Member, Visible, Has, TypeOK
    <3> QED BY <3>1 DEF TypeOK
  <2>2. CASE Unhide(c)
    <3>1. ~Member(c) /\ (Member(c)' <=> st[c] = "ADDED")
      BY <2>2 DEF Unhide, Member, Visible, Has, TypeOK
    <3>2. logged' = IF st[c] = "ADDED" THEN logged + 1 ELSE logged
      BY <2>2 DEF Unhide
    <3> QED BY <3>1, <3>2 DEF TypeOK
  <2>3. CASE BecomeAdded(c)
    <3>1. ~Member(c) /\ (Member(c)' <=> Visible(c))
      BY <2>3 DEF BecomeAdded, Visits, Member, Visible, Has, TypeOK
    <3>2. logged' = IF Visible(c) THEN logged + 1 ELSE logged
      BY <2>3 DEF BecomeAdded
    <3> QED BY <3>1, <3>2 DEF TypeOK
  <2> QED BY <2>1, <2>2, <2>3
<1> QED BY <1>1, <1>2, LoggedStep

\* The steps that leave the count alone.
LEMMA LoggedUnmoved ==
    ASSUME TypeOK, LoggedExact, NEW c \in Conns,
           \/ AcceptUser(c) \/ Key(c) \/ Version(c) \/ GetNickList(c)
           \/ \E s \in SupportSets : Supports(c, s)
           \/ \E sh \in Shares : MyINFO(c, sh) \/ MyINFORefresh(c, sh)
           \/ \E n \in Nicks, left \in BOOLEAN : MyNick(c, n, left)
           \/ \E sent \in BOOLEAN : ClosingVisit(c, sent)
           \/ RemUser(c) \/ SendVisit(c)
    PROVE  LoggedExact'
<1>1. logged' = logged
  BY DEF AcceptUser, Key, Version, GetNickList, Supports, MyINFO, MyINFORefresh, MyNick,
         ClosingVisit, FlushClosing, GiveUpClosing, RemUser, SendVisit, hub
<1>2. CASE \E n \in Nicks, left \in BOOLEAN : MyNick(c, n, left)
  <2>1. PICK n \in Nicks, left \in BOOLEAN : MyNick(c, n, left)
    BY <1>2
  <2>2. \A d \in Conns : Member(d)' <=> Member(d)
    BY <2>1 DEF MyNick, Talks, EarlyStates, StAfterClose, Member, Visible, Has, TypeOK
  <2> QED BY <1>1, <2>2, LoggedFrame
<1>3. CASE ~ \E n \in Nicks, left \in BOOLEAN : MyNick(c, n, left)
  <2>1. /\ \A d \in Conns \ {c} : st'[d] = st[d] /\ bits'[d] = bits[d]
        /\ st'[c] = "ADDED" <=> st[c] = "ADDED"
        /\ st[c] = "ADDED" => ("HIDDEN" \in bits'[c] <=> "HIDDEN" \in bits[c])
    <3>1. CASE AcceptUser(c) \/ Key(c) \/ Version(c) \/ \E s \in SupportSets : Supports(c, s)
      BY <3>1 DEF AcceptUser, Key, Version, Supports, Talks, TypeOK
    <3>2. CASE GetNickList(c)
      BY <3>2 DEF GetNickList, TypeOK
    <3>3. CASE \E sh \in Shares : MyINFO(c, sh) \/ MyINFORefresh(c, sh)
      BY <3>3, AddMeStateType DEF MyINFO, MyINFORefresh, GoToAddMe, Talks, TypeOK
    <3>4. CASE \E sent \in BOOLEAN : ClosingVisit(c, sent)
      BY <3>4 DEF ClosingVisit, Visits, FlushClosing, GiveUpClosing, conn, TypeOK
    <3>5. CASE RemUser(c) \/ SendVisit(c)
      BY <3>5 DEF RemUser, SendVisit, Visits, TypeOK
    <3> QED BY <1>3, <3>1, <3>2, <3>3, <3>4, <3>5
  <2>2. \A d \in Conns : Member(d)' <=> Member(d)
    BY <2>1 DEF Member, Visible, Has
  <2> QED BY <1>1, <2>2, LoggedFrame
<1> QED BY <1>2, <1>3

\* The receive loop's visits.
LEMMA LoggedReceive ==
    ASSUME TypeOK, LoggedExact, NEW c \in Conns, NEW left \in BOOLEAN, ReceiveVisit(c, left)
    PROVE  LoggedExact'
<1>1. CASE LoginTimesOut(c, left)
  BY <1>1, LoggedClose DEF LoginTimesOut
<1>2. CASE ~LoginTimesOut(c, left)
  <2>1. logged' = logged
    BY <1>2 DEF ReceiveVisit, LoginWaits, SendsLock, GivesUpIPv4, AddMe, Advance, EnterLists, hub
  <2>2. \A d \in Conns : Member(d)' <=> Member(d)
    <3>1. CASE LoginWaits(c)
      BY <3>1 DEF LoginWaits, conn, Member, Visible, Has
    <3>2. CASE SendsLock(c) \/ GivesUpIPv4(c) \/ AddMe(c) \/ EnterLists(c)
      BY <3>2 DEF SendsLock, GivesUpIPv4, AddMe, Advance, EnterLists, Member, Visible, Has, TypeOK
    <3> QED BY <1>2, <3>1, <3>2 DEF ReceiveVisit
  <2> QED BY <2>1, <2>2, LoggedFrame
<1> QED BY <1>1, <1>2

\* m_ui32Logged always counts the visible members, through closes in any
\* state, taken-over nicks and scripts that hide and show users.
THEOREM LoggedCorrect == Spec => []LoggedExact
<1>1. Init => LoggedExact
  <2> SUFFICES ASSUME Init PROVE LoggedExact
    OBVIOUS
  <2>1. {c \in Conns : Member(c)} = {}
    BY DEF Init, Member
  <2> QED BY <2>1, LoggedCounts, FS_EmptySet DEF Init
<1>2. TypeOK /\ LoggedExact /\ [Next]_vars => LoggedExact'
  <2> SUFFICES ASSUME TypeOK, LoggedExact, [Next]_vars PROVE LoggedExact'
    OBVIOUS
  <2>1. ASSUME NEW c \in Conns, ConnNext(c) PROVE LoggedExact'
    <3>1. ASSUME NEW left \in BOOLEAN, CloseUser(c, left) PROVE LoggedExact'
      BY <3>1, LoggedClose DEF CloseUser
    <3>2. ASSUME NEW n \in Nicks, NEW left \in BOOLEAN, ValidateNick(c, n, left)
          PROVE  LoggedExact'
      <4>1. share[c] \in Shares
        BY DEF TypeOK
      <4> QED BY <3>2, <4>1, LoggedValidate, NextStateType DEF ValidateNick, Talks
    <3>3. ASSUME NEW n \in Nicks, NEW sh \in Shares, NEW left \in BOOLEAN,
                 QuickMyINFO(c, n, sh, left)
          PROVE  LoggedExact'
      <4> DEFINE next == IF Has(c, "PINGER") THEN "VALIDATE" ELSE AddMeState(c)
      <4>1. next \in States /\ next # "ADDED"
        BY NextStateType, AddMeStateType
      <4>2. st[c] = "VALIDATE" /\ ValidateUserNick(c, n, next, sh, left)
        BY <3>3 DEF QuickMyINFO, Talks
      <4> HIDE DEF next
      <4> QED BY <4>1, <4>2, LoggedValidate
    <3> QED BY <2>1, <3>1, <3>2, <3>3, LoggedMyPass, LoggedMove, LoggedUnmoved, LoggedReceive
            DEF ConnNext
  <2>2. CASE BeginReceive \/ BeginSend \/ \E tick \in BOOLEAN : EndSend(tick)
    BY <2>2, LoggedFrame DEF BeginReceive, BeginSend, EndSend, conn, hub, Member, Visible, Has
  <2>3. ASSUME NEW n \in Regable, RegChange(n) PROVE LoggedExact'
    BY <2>3, LoggedFrame DEF RegChange, conn, hub, Member, Visible, Has
  <2>4. CASE UNCHANGED vars
    BY <2>4, LoggedFrame DEF vars, conn, hub, Member, Visible, Has
  <2> QED BY <2>1, <2>2, <2>3, <2>4 DEF Next
<1> QED BY <1>1, <1>2, TypeCorrect, PTL DEF Spec
-----------------------------------------------------------------------------
\* Ownership of nicks.

\* Who is in the lists owns the nick it is listed under.
LEMMA ListedOwnsNick ==
    ASSUME TypeOK, NickInvariant, NEW c \in Conns, Listed(c)
    PROVE  Open(c) /\ Has(c, "HASHED") /\ nick[c] \in Nicks /\ nickTable[nick[c]] = c
BY DEF NickInvariant, OnlineUsersAreHashed, HashedUsersAreInTheTable, Listed, Open, OnlineStates,
       OpenStates, LoginStates, ListedStates

\* Who is not hashed owns nothing.
LEMMA UnhashedOwnsNothing ==
    ASSUME NickInvariant, NEW c \in Conns, ~Has(c, "HASHED")
    PROVE  Owners!OwnsNothing(c)
BY ConnsAssumption DEF NickInvariant, TableHoldsOpenUsers, Owners!OwnsNothing

\* Steps that move neither a nick nor a listed user.
Unmoved ==
    /\ nickTable' = nickTable
    /\ \A d \in Conns : (Listed(d)' <=> Listed(d)) /\ (Listed(d) => nick'[d] = nick[d])

\* They are stutters of NickOwnership.
LEMMA OwnershipStutter ==
    ASSUME Unmoved PROVE UNCHANGED <<nickTable, onlineNick>>
BY DEF Unmoved, onlineNick, Listed

\* User::Close gives the nick up with the place in the lists.
LEMMA OwnershipClose ==
    ASSUME TypeOK, NickInvariant, NEW c \in Conns, NEW n, NEW left \in BOOLEAN,
           Close(c, n, left), Has(c, "HASHED") => n = nick[c], Open(c),
           \A d \in Conns \ {c} : Listed(d) => nick'[d] = nick[d]
    PROVE  [Owners!Next]_<<nickTable, onlineNick>>
<1>1. /\ ~Listed(c)'
      /\ \A d \in Conns \ {c} : Listed(d)' <=> Listed(d)
  BY DEF Close, StAfterClose, Listed, ListedStates, TypeOK
<1>2. CASE Has(c, "HASHED")
  <2>1. nick[c] \in Nicks /\ nickTable[nick[c]] = c
    BY <1>2 DEF NickInvariant, HashedUsersAreInTheTable
  <2>2. nickTable' = [nickTable EXCEPT ![nick[c]] = NoConn]
    BY <1>2 DEF Close, TableAfterClose
  <2>3. onlineNick' = [onlineNick EXCEPT ![c] = NoNick]
    BY <1>1 DEF onlineNick, Listed
  <2>4. Owners!Leave(c, nick[c])
    BY <2>1, <2>2, <2>3 DEF Owners!Leave
  <2> QED BY <2>1, <2>4 DEF Owners!Next
<1>3. CASE ~Has(c, "HASHED")
  <2>1. nickTable' = nickTable
    BY <1>3 DEF Close, TableAfterClose
  <2>2. ~Listed(c)
    BY <1>3, ListedOwnsNick
  <2> QED BY <1>1, <2>1, <2>2, OwnershipStutter DEF Unmoved
<1> QED BY <1>2, <1>3

\* A user that enters the hash claims its nick.
LEMMA OwnershipClaim ==
    ASSUME TypeOK, NickInvariant, NEW c \in Conns, NEW n \in Nicks,
           ~Has(c, "HASHED"), nickTable[n] = NoConn,
           nickTable' = [nickTable EXCEPT ![n] = c],
           \A d \in Conns : Listed(d)' <=> Listed(d),
           \A d \in Conns \ {c} : nick'[d] = nick[d]
    PROVE  Owners!Next
<1>1. ~Listed(c)
  BY ListedOwnsNick
<1>2. onlineNick' = onlineNick
  BY <1>1 DEF onlineNick, Listed
<1>3. Owners!Claim(c, n)
  BY <1>2, UnhashedOwnsNothing DEF Owners!Claim
<1> QED BY <1>3 DEF Owners!Next

\* The outcomes of ValidateUserNick.
LEMMA OwnershipValidate ==
    ASSUME TypeOK, NickInvariant, NEW c \in Conns, NEW n \in Nicks, NEW next \in States,
           NEW sh \in Shares, NEW left \in BOOLEAN, st[c] = "VALIDATE", next \notin ListedStates,
           ValidateUserNick(c, n, next, sh, left)
    PROVE  [Owners!Next]_<<nickTable, onlineNick>>
<1>1. Open(c) /\ ~Has(c, "HASHED") /\ ~Listed(c)
  BY DEF NickInvariant, FreshUsersAreUnknown, Open, Listed, OpenStates, LoginStates, NickStates,
         ListedStates
<1>2. \A d \in Conns \ {c} : nick'[d] = nick[d]
  BY DEF ValidateUserNick, RefuseNick, CloseDeadClone, DenyNick, AskGhostPassword, HashNick, TypeOK
<1>3. nickTable[n] # NoConn =>
        /\ nickTable[n] \in Conns \ {c} /\ Open(nickTable[n]) /\ nick[nickTable[n]] = n
        /\ st[nickTable[n]] \notin PastLogin
  BY <1>1 DEF NickInvariant, TableHoldsOpenUsers, TypeOK, Open, PastLogin,
              OpenStates, LoginStates, EarlyStates, NickStates, AddStates, ListedStates
<1>4. CASE RefuseNick(c, n, left) \/ DenyNick(c, n, left)
  <2>1. Close(c, n, left)
    BY <1>4 DEF RefuseNick, DenyNick
  <2> QED BY <1>1, <1>2, <2>1, OwnershipClose
<1>5. CASE CloseDeadClone(c, n)
  <2>1. PICK other \in Conns : other = nickTable[n] /\ other # NoConn
    BY <1>3, <1>5 DEF CloseDeadClone
  <2>2. Close(other, nick[other], FALSE)
    BY <1>3, <1>5, <2>1 DEF CloseDeadClone
  <2>3. \A d \in Conns \ {other} : Listed(d) => nick'[d] = nick[d]
    BY <1>1, <1>2
  <2>4. Open(other)
    BY <1>3, <2>1
  <2> QED BY <2>2, <2>3, <2>4, OwnershipClose
<1>6. CASE AskGhostPassword(c, n, sh)
  <2>1. nickTable' = nickTable /\ \A d \in Conns : Listed(d)' <=> Listed(d)
    BY <1>1, <1>6 DEF AskGhostPassword, hub, Listed, ListedStates, TypeOK
  <2> QED BY <1>1, <1>2, <2>1, OwnershipStutter DEF Unmoved
<1>7. CASE HashNick(c, n, next, sh)
  <2>1. nickTable[n] = NoConn /\ nickTable' = [nickTable EXCEPT ![n] = c]
    BY <1>3, <1>7 DEF HashNick, NickIsFree
  <2>2. \A d \in Conns : Listed(d)' <=> Listed(d)
    BY <1>1, <1>7 DEF HashNick, Listed, ListedStates, TypeOK
  <2> QED BY <1>1, <1>2, <2>1, <2>2, OwnershipClaim
<1> QED BY <1>4, <1>5, <1>6, <1>7 DEF ValidateUserNick

\* $MyPass: the user that still holds the nick leaves, its new owner is not
\* listed yet.
LEMMA OwnershipMyPass ==
    ASSUME TypeOK, NickInvariant, NEW c \in Conns, NEW left \in BOOLEAN, MyPass(c, left)
    PROVE  [Owners!Next]_<<nickTable, onlineNick>>
<1> USE DEF NickStates, AddStates, ListedStates
<1>1. PICK n \in Nicks : n = nick[c]
  BY DEF MyPass, Talks, NickInvariant, NamedUsersAreHashedOrAsked
<1>2. PICK next \in States : next = IF Has(c, "QUICKLIST") /\ ~Has(c, "PINGER")
                                    THEN AddMeState(c) ELSE st[c]
  BY AddMeStateType DEF States, OpenStates, LoginStates, TypeOK
<1>3. st[c] = "VERSION_OR_MYPASS" /\ ~Listed(c) /\ next \notin ListedStates /\ nick' = nick
  BY <1>2, AddMeStateType DEF MyPass, Talks, Listed
<1>4. CASE Has(c, "HASHED")
  <2>1. nickTable' = nickTable /\ st' = [st EXCEPT ![c] = next]
    BY <1>2, <1>4 DEF MyPass
  <2>2. \A d \in Conns : Listed(d)' <=> Listed(d)
    BY <1>3, <2>1 DEF Listed, TypeOK
  <2> QED BY <1>3, <2>1, <2>2, OwnershipStutter DEF Unmoved
<1>5. CASE ~Has(c, "HASHED") /\ nickTable[n] = NoConn
  <2>1. nickTable' = [nickTable EXCEPT ![n] = c] /\ st' = [st EXCEPT ![c] = next]
    BY <1>1, <1>2, <1>5 DEF MyPass
  <2>2. \A d \in Conns : Listed(d)' <=> Listed(d)
    BY <1>3, <2>1 DEF Listed, TypeOK
  <2> QED BY <1>3, <1>5, <2>1, <2>2, OwnershipClaim
<1>6. CASE ~Has(c, "HASHED") /\ nickTable[n] # NoConn
  <2>1. PICK other \in Conns : other = nickTable[n]
    BY <1>6 DEF TypeOK
  <2>2. other # c /\ Open(other) /\ nick[other] = n
    BY <1>6, <2>1 DEF NickInvariant, TableHoldsOpenUsers
  <2>3. /\ nickTable' = [TableAfterClose(other, n) EXCEPT ![n] = c]
        /\ st' = [StAfterClose(other, left) EXCEPT ![c] = next]
    BY <1>1, <1>2, <1>6, <2>1, <2>2 DEF MyPass
  <2>4. nickTable' = [nickTable EXCEPT ![n] = c]
    BY <2>3 DEF TableAfterClose, TypeOK
  <2>5. ~Listed(other)' /\ \A d \in Conns \ {other} : Listed(d)' <=> Listed(d)
    BY <1>3, <2>2, <2>3 DEF StAfterClose, Listed, TypeOK
  <2>6. onlineNick' = [onlineNick EXCEPT ![other] = NoNick]
    BY <1>3, <2>5 DEF onlineNick, Listed
  <2>7. Owners!TakeOver(c, n)
    BY <1>6, <2>1, <2>4, <2>6, UnhashedOwnsNothing DEF Owners!TakeOver
  <2> QED BY <2>7 DEF Owners!Next
<1> QED BY <1>4, <1>5, <1>6

\* EnterLists is the step that brings a user online, under the nick it owns.
LEMMA OwnershipEnter ==
    ASSUME TypeOK, NickInvariant, NEW c \in Conns, EnterLists(c)
    PROVE  Owners!Next
<1> USE DEF ListedStates, AddStates, OnlineStates
<1>1. st[c] = "ADDME_1LOOP" /\ st' = [st EXCEPT ![c] = "ADDME_2LOOP"]
      /\ nick' = nick /\ nickTable' = nickTable
  BY DEF EnterLists
<1>2. nick[c] \in Nicks /\ nickTable[nick[c]] = c
  BY <1>1 DEF NickInvariant, OnlineUsersAreHashed, HashedUsersAreInTheTable, Open, OpenStates,
              LoginStates
<1>3. onlineNick[c] = NoNick
  BY <1>1 DEF onlineNick, Listed
<1>4. onlineNick' = [onlineNick EXCEPT ![c] = nick[c]]
  BY <1>1 DEF onlineNick, Listed, TypeOK
<1>5. Owners!Enter(c, nick[c])
  BY <1>1, <1>2, <1>3, <1>4 DEF Owners!Enter
<1> QED BY <1>2, <1>5 DEF Owners!Next

\* All other steps of one user move no nick and change nobody's being listed.
LEMMA OwnershipOther ==
    ASSUME TypeOK, NickInvariant, NEW c \in Conns,
           \/ AcceptUser(c)
           \/ \E s \in SupportSets : Supports(c, s)
           \/ Key(c) \/ Version(c) \/ GetNickList(c)
           \/ \E sh \in Shares : MyINFO(c, sh) \/ MyINFORefresh(c, sh)
           \/ \E n \in Nicks, left \in BOOLEAN : MyNick(c, n, left)
           \/ Hide(c) \/ Unhide(c)
           \/ LoginWaits(c) \/ SendsLock(c) \/ GivesUpIPv4(c) \/ AddMe(c)
           \/ \E sent \in BOOLEAN : ClosingVisit(c, sent)
           \/ RemUser(c) \/ BecomeAdded(c) \/ SendVisit(c)
    PROVE  UNCHANGED <<nickTable, onlineNick>>
<1>1. ASSUME \/ AcceptUser(c)
             \/ \E s \in SupportSets : Supports(c, s)
             \/ Key(c) \/ Version(c) \/ GetNickList(c)
      PROVE  Unmoved
  BY <1>1 DEF Unmoved, AcceptUser, Supports, Key, Version, GetNickList, Talks,
              ListedStates, NickStates, EarlyStates, Listed, TypeOK, hub
<1>2. ASSUME \E sh \in Shares : MyINFO(c, sh) \/ MyINFORefresh(c, sh)
      PROVE  Unmoved
  BY <1>2, AddMeStateType DEF Unmoved, MyINFO, MyINFORefresh, GoToAddMe, Talks, ListedStates, Listed,
                              TypeOK, hub
<1>3. ASSUME \E n \in Nicks, left \in BOOLEAN : MyNick(c, n, left)
      PROVE  Unmoved
  BY <1>3 DEF Unmoved, MyNick, Talks, StAfterClose, ListedStates, EarlyStates, Listed, TypeOK, hub
<1>4. ASSUME Hide(c) \/ Unhide(c) \/ LoginWaits(c)
      PROVE  Unmoved
  BY <1>4 DEF Unmoved, Hide, Unhide, LoginWaits, conn, Listed, hub
<1>5. ASSUME SendsLock(c) \/ GivesUpIPv4(c) \/ AddMe(c)
      PROVE  Unmoved
  BY <1>5 DEF Unmoved, SendsLock, GivesUpIPv4, AddMe, Advance, ListedStates, Listed, TypeOK, hub
<1>6. ASSUME \E sent \in BOOLEAN : ClosingVisit(c, sent)
      PROVE  Unmoved
  BY <1>6 DEF Unmoved, ClosingVisit, Visits, FlushClosing, GiveUpClosing, conn, ListedStates, Listed,
              TypeOK, hub
<1>7. ASSUME RemUser(c) \/ BecomeAdded(c) \/ SendVisit(c)
      PROVE  Unmoved
  BY <1>7 DEF Unmoved, RemUser, BecomeAdded, SendVisit, Visits, ListedStates, Listed, TypeOK, hub
<1>8. Unmoved
  BY <1>1, <1>2, <1>3, <1>4, <1>5, <1>6, <1>7
<1> QED BY <1>8, OwnershipStutter

\* The receive loop's visits of users that are logging in.
LEMMA OwnershipReceive ==
    ASSUME TypeOK, NickInvariant, NEW c \in Conns, NEW left \in BOOLEAN, ReceiveVisit(c, left)
    PROVE  [Owners!Next]_<<nickTable, onlineNick>>
<1>1. CASE LoginTimesOut(c, left)
  <2>1. Open(c) /\ Close(c, nick[c], left) /\ nick' = nick
    BY <1>1 DEF LoginTimesOut, ReceiveVisit, Visits, Open
  <2> QED BY <2>1, OwnershipClose
<1>2. CASE EnterLists(c)
  BY <1>2, OwnershipEnter
<1> QED BY <1>1, <1>2, OwnershipOther DEF ReceiveVisit

\* The hub keeps the promise of NickOwnership for any number of connections
\* and nicks: logins, ghosts, dead clones, timeouts and closes change owners
\* and lists only together.
THEOREM OwnershipImplemented == NoQuickPingers => (Spec => ImplementsNickOwnership)
<1> SUFFICES ASSUME NoQuickPingers PROVE Spec => Owners!Spec
  BY DEF ImplementsNickOwnership
<1>1. Init => Owners!Init
  BY DEF Init, Owners!Init, onlineNick, Listed, ListedStates
<1>2. TypeOK /\ NickInvariant /\ [Next]_vars => [Owners!Next]_<<nickTable, onlineNick>>
  <2> SUFFICES ASSUME TypeOK, NickInvariant, [Next]_vars
               PROVE  [Owners!Next]_<<nickTable, onlineNick>>
    OBVIOUS
  <2>1. ASSUME NEW c \in Conns, ConnNext(c)
        PROVE  [Owners!Next]_<<nickTable, onlineNick>>
    <3>1. ASSUME NEW left \in BOOLEAN, CloseUser(c, left)
          PROVE  [Owners!Next]_<<nickTable, onlineNick>>
      BY <3>1, OwnershipClose DEF CloseUser
    <3>2. ASSUME NEW n \in Nicks, NEW left \in BOOLEAN, ValidateNick(c, n, left)
          PROVE  [Owners!Next]_<<nickTable, onlineNick>>
      <4>1. st[c] = "VALIDATE" /\ share[c] \in Shares
        BY <3>2 DEF ValidateNick, Talks, TypeOK
      <4>2. "VERSION_OR_MYPASS" \in States \ ListedStates
        BY DEF States, OpenStates, LoginStates, NickStates, ListedStates
      <4> QED BY <3>2, <4>1, <4>2, OwnershipValidate DEF ValidateNick
    <3>3. ASSUME NEW n \in Nicks, NEW sh \in Shares, NEW left \in BOOLEAN,
                 QuickMyINFO(c, n, sh, left)
          PROVE  [Owners!Next]_<<nickTable, onlineNick>>
      <4>1. PICK next : next = IF Has(c, "PINGER") THEN "VALIDATE" ELSE AddMeState(c)
        OBVIOUS
      <4>2. next \in States \ ListedStates
        BY <4>1, AddMeStateType DEF States, OpenStates, LoginStates, NickStates, AddStates,
                                    ListedStates
      <4>3. st[c] = "VALIDATE" /\ ValidateUserNick(c, n, next, sh, left)
        BY <3>3, <4>1 DEF QuickMyINFO, Talks
      <4> QED BY <4>2, <4>3, OwnershipValidate
    <3>4. ASSUME NEW left \in BOOLEAN, MyPass(c, left)
          PROVE  [Owners!Next]_<<nickTable, onlineNick>>
      BY <3>4, OwnershipMyPass
    <3>5. ASSUME NEW left \in BOOLEAN, ReceiveVisit(c, left)
          PROVE  [Owners!Next]_<<nickTable, onlineNick>>
      BY <3>5, OwnershipReceive
    <3> QED BY <2>1, <3>1, <3>2, <3>3, <3>4, <3>5, OwnershipOther DEF ConnNext
  <2>2. CASE \/ BeginReceive \/ BeginSend
             \/ \E tick \in BOOLEAN : EndSend(tick)
             \/ \E n \in Regable : RegChange(n)
             \/ UNCHANGED vars
    BY <2>2, OwnershipStutter
    DEF Unmoved, BeginReceive, BeginSend, EndSend, RegChange, vars, conn, hub, Listed
  <2> QED BY <2>1, <2>2 DEF Next
<1> QED BY <1>1, <1>2, TypeCorrect, NicksCorrect, PTL DEF Spec, Owners!Spec
-----------------------------------------------------------------------------
\* The nick list.

\* Whom $NickList names.
Named(c) == Listed(c) /\ Visible(c)

\* A nick is listed under one user at most.
LEMMA ListedOnce ==
    ASSUME TypeOK, NickInvariant, NEW c \in Conns, NEW d \in Conns,
           Listed(c), Listed(d), nick[c] = nick[d]
    PROVE  c = d
BY ListedOwnsNick

\* The same after a step.
LEMMA ListedOnceNext ==
    ASSUME TypeOK', NickInvariant', NEW c \in Conns, Listed(c)'
    PROVE  /\ nick'[c] \in Nicks
           /\ \A d \in Conns : Listed(d)' /\ nick'[d] = nick'[c] => d = c
<1>1. ASSUME NEW d \in Conns, Listed(d)'
      PROVE  nick'[d] \in Nicks /\ nickTable'[nick'[d]] = d
  <2>1. Open(d)' /\ Has(d, "HASHED")'
    BY <1>1 DEF NickInvariant, OnlineUsersAreHashed, Listed, Open, OnlineStates,
                OpenStates, LoginStates, ListedStates, Has
  <2> QED BY <2>1 DEF NickInvariant, HashedUsersAreInTheTable, Open, Has
<1> QED BY <1>1

\* A step takes one user on the list or off it, and leaves the others.
OthersKeepTheirPlace(c) ==
    \A d \in Conns \ {c} : (Named(d)' <=> Named(d)) /\ (Named(d) => nick'[d] = nick[d])
GetsOn(c) == ~Named(c) /\ Named(c)' /\ nickList' = [nickList EXCEPT ![nick'[c]] = @ + 1]
GetsOff(c) == Listed(c) /\ ~Named(c)' /\ nickList' = DelFromNickList(nick[c])
StaysPut(c) ==
    (Named(c)' <=> Named(c)) /\ (Named(c) => nick'[c] = nick[c]) /\ nickList' = nickList

LEMMA ListStep ==
    ASSUME TypeOK, NickInvariant, TypeOK', NickInvariant', NickListExact,
           NEW c \in Conns, OthersKeepTheirPlace(c),
           GetsOn(c) \/ GetsOff(c) \/ StaysPut(c)
    PROVE  NickListExact'
<1> DEFINE On(n) == \E d \in Conns : Named(d) /\ nick[d] = n
           OnNext(n) == \E d \in Conns : Named(d)' /\ nick'[d] = n
<1>1. \A n \in Nicks : nickList[n] = IF On(n) THEN 1 ELSE 0
  BY DEF NickListExact, Named
<1>2. NickListExact' <=> \A n \in Nicks : nickList'[n] = IF OnNext(n) THEN 1 ELSE 0
  BY DEF NickListExact, Named, Listed, Visible, Has
<1>3. DOMAIN nickList = Nicks
  BY DEF TypeOK
<1>4. \A d \in Conns \ {c} :
        (Named(d)' <=> Named(d)) /\ (Named(d) => nick'[d] = nick[d])
  BY DEF OthersKeepTheirPlace
<1>5. \A d \in Conns : (Named(d) => Listed(d)) /\ (Named(d)' => Listed(d)')
  BY DEF Named
<1>6. CASE StaysPut(c)
  <2>1. \A n \in Nicks : OnNext(n) <=> On(n)
    BY <1>4, <1>6 DEF StaysPut
  <2> QED BY <1>1, <1>2, <1>6, <2>1 DEF StaysPut
<1>7. CASE GetsOn(c)
  <2>1. PICK m \in Nicks : m = nick'[c]
    BY <1>5, <1>7, ListedOnceNext DEF GetsOn
  <2>2. \A d \in Conns \ {c} : ~(Named(d)' /\ nick'[d] = m)
    BY <1>5, <1>7, <2>1, ListedOnceNext DEF GetsOn
  <2>3. OnNext(m) /\ ~On(m) /\ \A n \in Nicks \ {m} : OnNext(n) <=> On(n)
    BY <1>4, <1>7, <2>1, <2>2 DEF GetsOn
  <2>4. nickList' = [nickList EXCEPT ![m] = @ + 1]
    BY <1>7, <2>1 DEF GetsOn
  <2> HIDE DEF On, OnNext
  <2> QED BY <1>1, <1>2, <1>3, <2>3, <2>4
<1>8. CASE GetsOff(c)
  <2>1. PICK m \in Nicks : m = nick[c]
    BY <1>8, ListedOwnsNick DEF GetsOff
  <2>2. \A d \in Conns \ {c} : ~(Named(d) /\ nick[d] = m)
    BY <1>5, <1>8, <2>1, ListedOnce DEF GetsOff
  <2>3. ~OnNext(m) /\ \A n \in Nicks \ {m} : OnNext(n) <=> On(n)
    BY <1>4, <1>8, <2>1, <2>2 DEF GetsOff
  <2>4. nickList' = [nickList EXCEPT ![m] = IF @ > 0 THEN @ - 1 ELSE 0]
    BY <1>8, <2>1 DEF GetsOff, DelFromNickList
  <2> HIDE DEF On, OnNext
  <2> QED BY <1>1, <1>2, <1>3, <2>3, <2>4
<1> QED BY <1>6, <1>7, <1>8

\* A step that changes nobody's place.
LEMMA ListFrame ==
    ASSUME NickListExact, nickList' = nickList,
           \A d \in Conns : (Named(d)' <=> Named(d)) /\ (Named(d) => nick'[d] = nick[d])
    PROVE  NickListExact'
BY DEF NickListExact, Named, Listed, Visible, Has

\* User::Close takes a listed user off, also one that a script has hidden.
LEMMA ListClose ==
    ASSUME TypeOK, NickInvariant, TypeOK', NickInvariant', NickListExact,
           NEW c \in Conns, NEW n, NEW left \in BOOLEAN, Close(c, n, left),
           \A d \in Conns \ {c} : Listed(d) => nick'[d] = nick[d]
    PROVE  NickListExact'
<1>1. ~Named(c)'
  BY DEF Close, StAfterClose, Named, Listed, ListedStates, TypeOK
<1>2. \A d \in Conns \ {c} : Named(d)' <=> Named(d)
  BY DEF Close, StAfterClose, Named, Listed, ListedStates, Visible, Has, TypeOK
<1>3. OthersKeepTheirPlace(c)
  BY <1>2 DEF OthersKeepTheirPlace, Named
<1>4. GetsOff(c) \/ StaysPut(c)
  BY <1>1 DEF Close, LeaveHub, GetsOff, StaysPut, Named
<1> QED BY <1>3, <1>4, ListStep

\* The outcomes of ValidateUserNick: who asks for a nick is not listed.
LEMMA ListValidate ==
    ASSUME TypeOK, NickInvariant, TypeOK', NickInvariant', NickListExact,
           NEW c \in Conns, NEW n \in Nicks, NEW next \in States, NEW sh \in Shares,
           NEW left \in BOOLEAN, st[c] = "VALIDATE", next \notin ListedStates,
           ValidateUserNick(c, n, next, sh, left)
    PROVE  NickListExact'
<1>1. ~Listed(c)
  BY DEF Listed, ListedStates
<1>2. \A d \in Conns : Listed(d) => nick'[d] = nick[d]
  BY <1>1
  DEF ValidateUserNick, RefuseNick, CloseDeadClone, DenyNick, AskGhostPassword, HashNick, TypeOK
<1>3. CASE RefuseNick(c, n, left) \/ DenyNick(c, n, left)
  BY <1>2, <1>3, ListClose DEF RefuseNick, DenyNick
<1>4. CASE CloseDeadClone(c, n)
  <2>1. PICK other \in Conns : other = nickTable[n]
    BY <1>4 DEF CloseDeadClone, TypeOK
  <2>2. PICK m : Close(other, m, FALSE)
    BY <1>4, <2>1 DEF CloseDeadClone
  <2> QED BY <1>2, <2>2, ListClose
<1>5. CASE AskGhostPassword(c, n, sh) \/ HashNick(c, n, next, sh)
  <2>1. nickList' = nickList
    BY <1>5 DEF AskGhostPassword, HashNick, hub
  <2>2. \A d \in Conns : Named(d)' <=> Named(d)
    BY <1>1, <1>5
    DEF AskGhostPassword, HashNick, Named, Listed, ListedStates, Visible, Has, TypeOK
  <2> QED BY <1>2, <2>1, <2>2, ListFrame DEF Named
<1> QED BY <1>3, <1>4, <1>5 DEF ValidateUserNick

\* $MyPass takes the ghost off; its owner is not listed yet.
LEMMA ListMyPass ==
    ASSUME TypeOK, NickInvariant, TypeOK', NickInvariant', NickListExact,
           NEW c \in Conns, NEW left \in BOOLEAN, MyPass(c, left)
    PROVE  NickListExact'
<1> DEFINE other == nickTable[nick[c]]
           ghost == ~Has(c, "HASHED") /\ other # NoConn
           next == IF Has(c, "QUICKLIST") /\ ~Has(c, "PINGER")
                   THEN AddMeState(c) ELSE st[c]
<1>1. /\ ~Listed(c) /\ next \notin ListedStates /\ nick[c] \in Nicks
      /\ nick' = nick
  BY AddMeStateType DEF MyPass, Talks, Listed, ListedStates, NickInvariant,
                        NamedUsersAreHashedOrAsked
<1>2. CASE ghost /\ Open(other)
  <2>1. PICK o \in Conns : o = other
    BY <1>1, <1>2 DEF TypeOK
  <2>2. st' = [StAfterClose(o, left) EXCEPT ![c] = next] /\ LeaveHub(o)
    BY <1>2, <2>1 DEF MyPass
  <2>3. bits' = [bits EXCEPT ![o] = CloseBits(o),
                             ![c] = (bits[c] \ {"WAITING_FOR_PASS"}) \cup {"HASHED"}]
    BY <1>2, <2>1 DEF MyPass
  <2> HIDE DEF other, next
  <2>4. ~Named(o)' /\ ~Named(c)' /\ ~Named(c)
    BY <1>1, <2>2 DEF StAfterClose, Named, Listed, ListedStates, TypeOK
  <2>5. \A d \in Conns \ {o, c} : Named(d)' <=> Named(d)
    BY <2>2, <2>3 DEF StAfterClose, Named, Listed, ListedStates, Visible, Has, TypeOK
  <2>6. OthersKeepTheirPlace(o)
    BY <1>1, <2>4, <2>5 DEF OthersKeepTheirPlace
  <2>7. GetsOff(o) \/ StaysPut(o)
    BY <2>2, <2>4 DEF LeaveHub, GetsOff, StaysPut, Named
  <2> QED BY <2>6, <2>7, ListStep
<1>3. CASE ~(ghost /\ Open(other))
  <2>1. nickList' = nickList /\ st' = [st EXCEPT ![c] = next]
    BY <1>3 DEF MyPass
  <2>2. bits' = [bits EXCEPT ![c] = (bits[c] \ {"WAITING_FOR_PASS"}) \cup {"HASHED"}]
    BY <1>3 DEF MyPass
  <2> HIDE DEF next
  <2>3. \A d \in Conns : Named(d)' <=> Named(d)
    BY <1>1, <2>1, <2>2 DEF Named, Listed, Visible, Has, TypeOK
  <2> QED BY <1>1, <2>1, <2>3, ListFrame
<1> QED BY <1>2, <1>3

\* Scripts take users off the list and put them back, the receive loop enters
\* them.
LEMMA ListMove ==
    ASSUME TypeOK, NickInvariant, TypeOK', NickInvariant', NickListExact,
           NEW c \in Conns, Hide(c) \/ Unhide(c) \/ EnterLists(c)
    PROVE  NickListExact'
<1>1. nick' = nick
  BY DEF Hide, Unhide, EnterLists
<1>2. OthersKeepTheirPlace(c)
  BY <1>1 DEF Hide, Unhide, EnterLists, OthersKeepTheirPlace, Named, Listed, Visible, Has, TypeOK
<1>3. CASE Hide(c)
  <2>1. ~Named(c)'
    BY <1>3 DEF Hide, Named, Visible, Has, TypeOK
  <2>2. GetsOff(c) \/ StaysPut(c)
    BY <1>3, <2>1 DEF Hide, LeaveHub, GetsOff, StaysPut, Named
  <2> QED BY <1>2, <2>2, ListStep
<1>4. CASE Unhide(c)
  <2>1. ~Named(c) /\ (Named(c)' <=> Listed(c))
    BY <1>4 DEF Unhide, Named, Listed, Visible, Has, TypeOK
  <2>2. GetsOn(c) \/ StaysPut(c)
    BY <1>1, <1>4, <2>1 DEF Unhide, Add2NickList, GetsOn, StaysPut
  <2> QED BY <1>2, <2>2, ListStep
<1>5. CASE EnterLists(c)
  <2>1. ~Named(c) /\ (Named(c)' <=> Visible(c))
    BY <1>5 DEF EnterLists, Named, Listed, ListedStates, Visible, Has, TypeOK
  <2>2. GetsOn(c) \/ StaysPut(c)
    BY <1>1, <1>5, <2>1 DEF EnterLists, Add2NickList, GetsOn, StaysPut
  <2> QED BY <1>2, <2>2, ListStep
<1> QED BY <1>3, <1>4, <1>5

\* The steps of one user that leave the list alone.
LEMMA ListUnmoved ==
    ASSUME TypeOK, NickListExact, NEW c \in Conns,
           \/ AcceptUser(c) \/ Key(c) \/ Version(c) \/ GetNickList(c)
           \/ \E s \in SupportSets : Supports(c, s)
           \/ \E sh \in Shares : MyINFO(c, sh) \/ MyINFORefresh(c, sh)
           \/ \E n \in Nicks, left \in BOOLEAN : MyNick(c, n, left)
           \/ LoginWaits(c) \/ SendsLock(c) \/ GivesUpIPv4(c) \/ AddMe(c)
           \/ \E sent \in BOOLEAN : ClosingVisit(c, sent)
           \/ RemUser(c) \/ BecomeAdded(c) \/ SendVisit(c)
    PROVE  NickListExact'
<1>1. nickList' = nickList
  BY DEF AcceptUser, Key, Version, GetNickList, Supports, MyINFO, MyINFORefresh, MyNick,
         LoginWaits, SendsLock, GivesUpIPv4, AddMe, Advance, ClosingVisit, FlushClosing,
         GiveUpClosing, RemUser, BecomeAdded, SendVisit, hub
<1> DEFINE Kept == \A d \in Conns : (Named(d)' <=> Named(d)) /\ (Named(d) => nick'[d] = nick[d])
<1> USE DEF Named, Listed, ListedStates, Visible, Has, TypeOK
<1>2. CASE AcceptUser(c) \/ Key(c) \/ Version(c) \/ \E s \in SupportSets : Supports(c, s)
  <2>1. Kept
    BY <1>2 DEF AcceptUser, Key, Version, Supports, Talks
  <2> QED BY <1>1, <2>1, ListFrame
<1>3. CASE GetNickList(c) \/ SendVisit(c)
  <2>1. Kept
    BY <1>3 DEF GetNickList, SendVisit
  <2> QED BY <1>1, <2>1, ListFrame
<1>4. CASE \E sh \in Shares : MyINFO(c, sh) \/ MyINFORefresh(c, sh)
  <2>1. Kept
    BY <1>4, AddMeStateType DEF MyINFO, MyINFORefresh, GoToAddMe, Talks
  <2> QED BY <1>1, <2>1, ListFrame
<1>5. CASE \E n \in Nicks, left \in BOOLEAN : MyNick(c, n, left)
  <2>1. Kept
    BY <1>5 DEF MyNick, Talks, EarlyStates, StAfterClose
  <2> QED BY <1>1, <2>1, ListFrame
<1>6. CASE LoginWaits(c) \/ SendsLock(c) \/ GivesUpIPv4(c) \/ AddMe(c)
  <2>1. Kept
    BY <1>6 DEF LoginWaits, SendsLock, GivesUpIPv4, AddMe, Advance, conn
  <2> QED BY <1>1, <2>1, ListFrame
<1>7. CASE \E sent \in BOOLEAN : ClosingVisit(c, sent)
  <2>1. Kept
    BY <1>7 DEF ClosingVisit, Visits, FlushClosing, GiveUpClosing, conn
  <2> QED BY <1>1, <2>1, ListFrame
<1>8. CASE RemUser(c) \/ BecomeAdded(c)
  <2>1. Kept
    BY <1>8 DEF RemUser, BecomeAdded, Visits
  <2> QED BY <1>1, <2>1, ListFrame
<1> QED BY <1>2, <1>3, <1>4, <1>5, <1>6, <1>7, <1>8

\* The receive loop's visits.
LEMMA ListReceive ==
    ASSUME TypeOK, NickInvariant, TypeOK', NickInvariant', NickListExact,
           NEW c \in Conns, NEW left \in BOOLEAN, ReceiveVisit(c, left)
    PROVE  NickListExact'
<1>1. CASE LoginTimesOut(c, left)
  BY <1>1, ListClose DEF LoginTimesOut
<1> QED BY <1>1, ListMove, ListUnmoved DEF ReceiveVisit

\* $NickList names every visible listed user once and nobody else, whatever
\* ghosts and dead clones gave their nick up and scripts hid and showed.
THEOREM NickListCorrect == NoQuickPingers => (Spec => []NickListExact)
<1> SUFFICES ASSUME NoQuickPingers PROVE Spec => []NickListExact
  OBVIOUS
<1>1. Init => NickListExact
  BY DEF Init, NickListExact, Listed, ListedStates
<1>2. TypeOK /\ NickInvariant /\ TypeOK' /\ NickInvariant' /\ NickListExact /\ [Next]_vars
        => NickListExact'
  <2> SUFFICES ASSUME TypeOK, NickInvariant, TypeOK', NickInvariant', NickListExact, [Next]_vars
               PROVE  NickListExact'
    OBVIOUS
  <2>1. ASSUME NEW c \in Conns, ConnNext(c) PROVE NickListExact'
    <3>1. ASSUME NEW left \in BOOLEAN, CloseUser(c, left) PROVE NickListExact'
      BY <3>1, ListClose DEF CloseUser
    <3>2. ASSUME NEW n \in Nicks, NEW left \in BOOLEAN, ValidateNick(c, n, left)
          PROVE  NickListExact'
      <4>1. share[c] \in Shares
        BY DEF TypeOK
      <4>2. "VERSION_OR_MYPASS" \in States \ ListedStates
        BY NextStateType DEF ListedStates
      <4> QED BY <3>2, <4>1, <4>2, ListValidate DEF ValidateNick, Talks
    <3>3. ASSUME NEW n \in Nicks, NEW sh \in Shares, NEW left \in BOOLEAN,
                 QuickMyINFO(c, n, sh, left)
          PROVE  NickListExact'
      <4> DEFINE next == IF Has(c, "PINGER") THEN "VALIDATE" ELSE AddMeState(c)
      <4>1. next \in States \ ListedStates
        BY NextStateType, AddMeStateType DEF ListedStates
      <4>2. st[c] = "VALIDATE" /\ ValidateUserNick(c, n, next, sh, left)
        BY <3>3 DEF QuickMyINFO, Talks
      <4> HIDE DEF next
      <4> QED BY <4>1, <4>2, ListValidate
    <3> QED BY <2>1, <3>1, <3>2, <3>3, ListMyPass, ListMove, ListUnmoved, ListReceive
            DEF ConnNext
  <2>2. CASE \/ BeginReceive \/ BeginSend
             \/ \E tick \in BOOLEAN : EndSend(tick)
             \/ \E n \in Regable : RegChange(n)
             \/ UNCHANGED vars
    BY <2>2, ListFrame
    DEF BeginReceive, BeginSend, EndSend, RegChange, vars, conn, hub, Named, Listed, Visible, Has
  <2> QED BY <2>1, <2>2 DEF Next
<1> QED BY <1>1, <1>2, TypeCorrect, NicksCorrect, PTL DEF Spec
-----------------------------------------------------------------------------
\* The way of a login.

LEMMA Ranks ==
    /\ Rank["FREE"] = 0
    /\ \A s \in States : Rank[s] \in 0 .. 12
    /\ \A s \in OpenStates : Rank[s] <= 10
    /\ Rank["CLOSING"] = 11 /\ Rank["REMME"] = 12
    /\ \A s \in EarlyStates : Rank[s] <= 2
    /\ Rank["SOCKET_ACCEPTED"] = 1 /\ Rank["KEY_OR_SUP"] = 2 /\ Rank["VALIDATE"] = 3
    /\ Rank["VERSION_OR_MYPASS"] = 4 /\ Rank["GETNICKLIST_OR_MYINFO"] = 5
    /\ Rank["IPV4_CHECK"] = 6 /\ Rank["ADDME"] = 7 /\ Rank["ADDME_1LOOP"] = 8
    /\ Rank["ADDME_2LOOP"] = 9 /\ Rank["ADDED"] = 10
BY DEF Rank, States, OpenStates, LoginStates, EarlyStates, NickStates, AddStates, PastLogin

\* What a step may do to the state of one user.
Onward(d) == st'[d] = "FREE" \/ Rank[st'[d]] >= Rank[st[d]]
AllOnward == \A d \in Conns : Onward(d)

LEMMA OnwardAlone ==
    ASSUME TypeOK, NEW c \in Conns, NEW s, st' = [st EXCEPT ![c] = s],
           s = "FREE" \/ Rank[s] >= Rank[st[c]]
    PROVE  AllOnward
BY Ranks DEF AllOnward, Onward, TypeOK

LEMMA OnwardNowhere ==
    ASSUME TypeOK, st' = st
    PROVE  AllOnward
<1> SUFFICES ASSUME NEW d \in Conns PROVE Rank[st'[d]] >= Rank[st[d]]
  BY DEF AllOnward, Onward
<1>1. PICK s \in States : s = st[d]
  BY DEF TypeOK
<1>2. PICK k \in 0 .. 12 : k = Rank[s]
  BY Ranks
<1> QED BY <1>1, <1>2

LEMMA OnwardClose ==
    ASSUME TypeOK, NEW c \in Conns, st[c] # "REMME", st[c] # "CLOSING",
           NEW n, NEW left \in BOOLEAN, Close(c, n, left)
    PROVE  AllOnward
<1>1. st[c] \in OpenStates \cup {"FREE"}
  BY DEF TypeOK, States, PastLogin
<1>2. PICK s \in {"CLOSING", "REMME"} : st' = [st EXCEPT ![c] = s]
  BY DEF Close, StAfterClose
<1>3. Rank[st[c]] \in 0 .. 12 /\ Rank[st[c]] <= 10 /\ Rank[s] >= 11 /\ Rank[s] \in 0 .. 12
  BY <1>1, Ranks DEF TypeOK
<1>4. Rank[s] >= Rank[st[c]]
  BY <1>3
<1> QED BY <1>2, <1>4, OnwardAlone

LEMMA OnwardValidate ==
    ASSUME TypeOK, NEW c \in Conns, NEW n \in Nicks, NEW next \in States, NEW sh \in Shares,
           NEW left \in BOOLEAN, st[c] = "VALIDATE", Rank[next] >= 3,
           ValidateUserNick(c, n, next, sh, left)
    PROVE  AllOnward
<1>1. CASE RefuseNick(c, n, left) \/ DenyNick(c, n, left)
  BY <1>1, OnwardClose DEF RefuseNick, DenyNick
<1>2. CASE CloseDeadClone(c, n)
  <2>1. PICK other \in Conns : other = nickTable[n] /\ st[other] \notin PastLogin
    BY <1>2 DEF CloseDeadClone, TypeOK
  <2>2. PICK m : Close(other, m, FALSE)
    BY <1>2, <2>1 DEF CloseDeadClone
  <2> QED BY <2>1, <2>2, OnwardClose DEF PastLogin
<1>3. CASE AskGhostPassword(c, n, sh)
  <2>1. PICK s : s = "VERSION_OR_MYPASS" /\ st' = [st EXCEPT ![c] = s]
    BY <1>3 DEF AskGhostPassword
  <2>2. Rank[s] = 4 /\ Rank[st[c]] = 3
    BY <2>1, Ranks
  <2>3. Rank[s] >= Rank[st[c]]
    BY <2>2
  <2> QED BY <2>1, <2>3, OnwardAlone
<1>4. CASE HashNick(c, n, next, sh)
  <2>1. PICK s \in {"VERSION_OR_MYPASS", next} : st' = [st EXCEPT ![c] = s]
    BY <1>4 DEF HashNick
  <2>2. Rank[s] >= 3 /\ Rank[st[c]] = 3
    BY <2>1, Ranks
  <2>3. Rank[s] >= Rank[st[c]]
    BY <2>2
  <2> QED BY <2>1, <2>3, OnwardAlone
<1> QED BY <1>1, <1>2, <1>3, <1>4 DEF ValidateUserNick

LEMMA OnwardMyPass ==
    ASSUME TypeOK, NEW c \in Conns, NEW left \in BOOLEAN, MyPass(c, left)
    PROVE  AllOnward
<1> DEFINE other == nickTable[nick[c]]
           ghost == ~Has(c, "HASHED") /\ other # NoConn
           next == IF Has(c, "QUICKLIST") /\ ~Has(c, "PINGER")
                   THEN AddMeState(c) ELSE st[c]
<1>1. st[c] = "VERSION_OR_MYPASS" /\ Rank[next] >= 4 /\ nick[c] \in Nicks \cup {NoNick}
  BY AddMeStateType, Ranks DEF MyPass, Talks, TypeOK
<1>2. CASE ghost /\ Open(other)
  <2>1. st' = [StAfterClose(other, left) EXCEPT ![c] = next]
    BY <1>2 DEF MyPass
  <2> HIDE DEF next
  <2>2. \A d \in Conns : st'[d] = IF d = c THEN next
                                  ELSE IF d # other THEN st[d]
                                  ELSE IF left THEN "CLOSING" ELSE "REMME"
    BY <2>1 DEF StAfterClose, TypeOK
  <2>3. \A d \in Conns : d = other => Rank[st[d]] <= 10
    BY <1>2, Ranks DEF Open
  <2> QED BY <1>1, <2>2, <2>3, Ranks DEF AllOnward, Onward, TypeOK
<1>3. CASE ~(ghost /\ Open(other))
  <2>1. st' = [st EXCEPT ![c] = next]
    BY <1>3 DEF MyPass
  <2> HIDE DEF next
  <2> QED BY <1>1, <2>1, OnwardAlone, Ranks
<1> QED BY <1>2, <1>3

LEMMA OnwardMyNick ==
    ASSUME TypeOK, NEW c \in Conns, NEW n \in Nicks, NEW left \in BOOLEAN, MyNick(c, n, left)
    PROVE  AllOnward
<1>1. PICK other : /\ st[c] \in EarlyStates /\ st[other] = "IPV4_CHECK"
                   /\ st' = [StAfterClose(c, left) EXCEPT ![other] = "ADDME"]
  BY DEF MyNick, Talks
<1>2. \A d \in Conns : st'[d] = IF d = other THEN "ADDME"
                                ELSE IF d # c THEN st[d]
                                ELSE IF left THEN "CLOSING" ELSE "REMME"
  BY <1>1 DEF StAfterClose, TypeOK
<1> QED BY <1>1, <1>2, Ranks DEF AllOnward, Onward, TypeOK

LEMMA OnwardOther ==
    ASSUME TypeOK, NEW c \in Conns,
           \/ AcceptUser(c) \/ Key(c) \/ Version(c) \/ GetNickList(c)
           \/ \E s \in SupportSets : Supports(c, s)
           \/ \E sh \in Shares : MyINFO(c, sh) \/ MyINFORefresh(c, sh)
           \/ Hide(c) \/ Unhide(c)
           \/ LoginWaits(c) \/ SendsLock(c) \/ GivesUpIPv4(c) \/ AddMe(c) \/ EnterLists(c)
           \/ \E sent \in BOOLEAN : ClosingVisit(c, sent)
           \/ RemUser(c) \/ BecomeAdded(c) \/ SendVisit(c)
    PROVE  AllOnward
<1>1. CASE AcceptUser(c) \/ Key(c) \/ Version(c) \/ \E s \in SupportSets : Supports(c, s)
  BY <1>1, OnwardAlone, Ranks DEF AcceptUser, Key, Version, Supports, Talks
<1>3. CASE GetNickList(c) \/ Hide(c) \/ Unhide(c) \/ LoginWaits(c) \/ SendVisit(c)
  BY <1>3, OnwardNowhere DEF GetNickList, Hide, Unhide, LoginWaits, SendVisit, conn
<1>4. CASE \E sh \in Shares : MyINFO(c, sh) \/ MyINFORefresh(c, sh)
  <2>1. st' = st \/ /\ st[c] \in {"VERSION_OR_MYPASS", "GETNICKLIST_OR_MYINFO"}
                    /\ st' = [st EXCEPT ![c] = AddMeState(c)]
    BY <1>4 DEF MyINFO, MyINFORefresh, GoToAddMe, Talks
  <2> QED BY <2>1, AddMeStateType, OnwardAlone, OnwardNowhere, Ranks
<1>5. CASE SendsLock(c) \/ GivesUpIPv4(c) \/ AddMe(c) \/ EnterLists(c)
  BY <1>5, OnwardAlone, Ranks DEF SendsLock, GivesUpIPv4, AddMe, Advance, EnterLists
<1>6. CASE \E sent \in BOOLEAN : ClosingVisit(c, sent)
  <2>1. st' = st \/ (st[c] = "CLOSING" /\ st' = [st EXCEPT ![c] = "REMME"])
    BY <1>6 DEF ClosingVisit, Visits, FlushClosing, GiveUpClosing, conn
  <2> QED BY <2>1, OnwardAlone, OnwardNowhere, Ranks
<1>7. CASE RemUser(c) \/ BecomeAdded(c)
  BY <1>7, OnwardAlone, Ranks DEF RemUser, BecomeAdded, Visits
<1> QED BY <1>1, <1>3, <1>4, <1>5, <1>6, <1>7

\* A connection only moves on through the login, whichever user's command,
\* visit or take-over makes the step, and a closed one is never taken back.
THEOREM LoginsMoveForward == Spec => OnlyForward
<1>1. TypeOK /\ [Next]_vars => AllOnward
  <2> SUFFICES ASSUME TypeOK, [Next]_vars PROVE AllOnward
    OBVIOUS
  <2>1. ASSUME NEW c \in Conns, ConnNext(c) PROVE AllOnward
    <3>1. ASSUME NEW left \in BOOLEAN, CloseUser(c, left) PROVE AllOnward
      <4>1. st[c] # "REMME" /\ st[c] # "CLOSING"
        BY <3>1 DEF CloseUser, Open, OpenStates, LoginStates, EarlyStates, NickStates, AddStates
      <4> QED BY <3>1, <4>1, OnwardClose DEF CloseUser
    <3>2. ASSUME NEW n \in Nicks, NEW left \in BOOLEAN, ValidateNick(c, n, left)
          PROVE  AllOnward
      <4>1. share[c] \in Shares
        BY DEF TypeOK
      <4> QED BY <3>2, <4>1, OnwardValidate, NextStateType, Ranks DEF ValidateNick, Talks
    <3>3. ASSUME NEW n \in Nicks, NEW sh \in Shares, NEW left \in BOOLEAN,
                 QuickMyINFO(c, n, sh, left)
          PROVE  AllOnward
      <4> DEFINE next == IF Has(c, "PINGER") THEN "VALIDATE" ELSE AddMeState(c)
      <4>1. next \in States /\ Rank[next] >= 3
        BY NextStateType, AddMeStateType, Ranks
      <4>2. st[c] = "VALIDATE" /\ ValidateUserNick(c, n, next, sh, left)
        BY <3>3 DEF QuickMyINFO, Talks
      <4> HIDE DEF next
      <4> QED BY <4>1, <4>2, OnwardValidate
    <3>4. ASSUME NEW left \in BOOLEAN, ReceiveVisit(c, left) PROVE AllOnward
      <4>1. CASE LoginTimesOut(c, left)
        <5>1. st[c] # "REMME" /\ st[c] # "CLOSING"
          BY <3>4 DEF ReceiveVisit, Visits, OpenStates, LoginStates, EarlyStates, NickStates,
                      AddStates
        <5> QED BY <4>1, <5>1, OnwardClose DEF LoginTimesOut
      <4> QED BY <3>4, <4>1, OnwardOther DEF ReceiveVisit
    <3> QED BY <2>1, <3>1, <3>2, <3>3, <3>4, OnwardMyPass, OnwardMyNick, OnwardOther
            DEF ConnNext
  <2>2. CASE \/ BeginReceive \/ BeginSend
             \/ \E tick \in BOOLEAN : EndSend(tick)
             \/ \E n \in Regable : RegChange(n)
             \/ UNCHANGED vars
    <3>1. st' = st
      BY <2>2 DEF BeginReceive, BeginSend, EndSend, RegChange, vars, conn
    <3> QED BY <3>1, OnwardNowhere
  <2> QED BY <2>1, <2>2 DEF Next
<1>2. TypeOK /\ [Next]_vars =>
        [\A c \in Conns : st'[c] # "FREE" => Rank[st'[c]] >= Rank[st[c]]]_vars
  BY <1>1 DEF AllOnward, Onward
<1> QED BY <1>2, TypeCorrect, PTL DEF Spec, OnlyForward
-----------------------------------------------------------------------------
\* The total share.

\* What the users cs of a table f of shares have between them.
Units(f, cs) == UNION {{c} \X (1 .. f[c]) : c \in cs}

LEMMA UnitsFinite ==
    ASSUME NEW f \in [Conns -> Nat], NEW cs \in SUBSET Conns
    PROVE  IsFiniteSet(Units(f, cs)) /\ Cardinality(Units(f, cs)) \in Nat
<1> DEFINE own == [c \in cs |-> {c} \X (1 .. f[c])]
           T == {{c} \X (1 .. f[c]) : c \in cs}
<1>1. IsFiniteSet(cs)
  BY ConnsAssumption, FS_Subset
<1>2. own \in Surjection(cs, T)
  BY DEF Surjection
<1>3. IsFiniteSet(T)
  BY <1>1, <1>2, FS_Surjection
<1>4. ASSUME NEW S \in T PROVE IsFiniteSet(S)
  <2>1. PICK c \in cs : S = {c} \X (1 .. f[c])
    OBVIOUS
  <2>2. f[c] \in Int /\ 1 \in Int
    OBVIOUS
  <2>3. IsFiniteSet({c}) /\ IsFiniteSet(1 .. f[c])
    BY <2>2, FS_Singleton, FS_Interval
  <2> QED BY <2>1, <2>3, FS_Product
<1> HIDE DEF T
<1>5. IsFiniteSet(UNION T)
  BY <1>3, <1>4, FS_UNION
<1>6. Units(f, cs) = UNION T
  BY DEF Units, T
<1> QED BY <1>5, <1>6, FS_CardinalityType

\* One user more, or one less, changes them by its share.
LEMMA UnitsOfOne ==
    ASSUME NEW f \in [Conns -> Nat], NEW cs \in SUBSET Conns, NEW c \in Conns
    PROVE  Cardinality(Units(f, cs))
           = Cardinality(Units(f, cs \ {c})) + (IF c \in cs THEN f[c] ELSE 0)
<1>1. CASE c \notin cs
  <2>1. cs \ {c} = cs
    BY <1>1
  <2>2. Cardinality(Units(f, cs)) \in Nat
    BY UnitsFinite
  <2> QED BY <1>1, <2>1, <2>2
<1>2. CASE c \in cs
  <2> DEFINE S == Units(f, cs \ {c})
             T == {c} \X (1 .. f[c])
  <2>1. Units(f, cs) = S \cup T
    BY <1>2 DEF Units
  <2>2. S \cap T = {}
    BY DEF Units
  <2>3. IsFiniteSet(S) /\ Cardinality(S) \in Nat
    BY UnitsFinite
  <2>4. IsFiniteSet(T) /\ Cardinality(T) = f[c]
    <3>1. f[c] \in Int /\ f[c] \in Nat /\ 1 \in Int
      OBVIOUS
    <3>2. IsFiniteSet({c}) /\ Cardinality({c}) = 1
      BY FS_Singleton
    <3>3. IsFiniteSet(1 .. f[c])
      BY <3>1, FS_Interval
    <3>4. Cardinality(1 .. f[c]) = f[c]
      <4>1. Cardinality(1 .. f[c]) = IF 1 > f[c] THEN 0 ELSE f[c] - 1 + 1
        BY <3>1, FS_Interval
      <4> QED BY <3>1, <4>1
    <3>5. IsFiniteSet(T) /\ Cardinality(T) = Cardinality({c}) * Cardinality(1 .. f[c])
      BY <3>2, <3>3, FS_Product
    <3> QED BY <3>1, <3>2, <3>4, <3>5
  <2> HIDE DEF S, T
  <2>5. Cardinality(S \cup T) = Cardinality(S) + Cardinality(T) - Cardinality(S \cap T)
    BY <2>3, <2>4, FS_Union
  <2>6. Cardinality(S \cap T) = 0
    BY <2>2, FS_EmptySet
  <2>7. Cardinality(Units(f, cs)) = Cardinality(S) + f[c]
    BY <2>1, <2>3, <2>4, <2>5, <2>6
  <2> QED BY <1>2, <2>7 DEF S
<1> QED BY <1>1, <1>2

LEMMA SharedUnits ==
    /\ TotalShareExact <=>
          /\ \A c \in Conns : Has(c, "SHARECOUNTED") <=> Shown(c)
          /\ totalShare = Cardinality(Units(share, {c \in Conns : Shown(c)}))
    /\ TotalShareExact' <=>
          /\ \A c \in Conns : Has(c, "SHARECOUNTED")' <=> Shown(c)'
          /\ totalShare' = Cardinality(Units(share', {c \in Conns : Shown(c)'}))
BY DEF TotalShareExact, SharedBy, Units, Shown, Listed, Visible, Has

\* A step that changes the share of one user, or shows or hides it, by as much
\* as it changes the sum.
LEMMA ShareStep ==
    ASSUME TypeOK, TypeOK', TotalShareExact, NEW c \in Conns,
           \A d \in Conns \ {c} : /\ Shown(d)' <=> Shown(d)
                                  /\ Shown(d) => share'[d] = share[d],
           \A d \in Conns : Has(d, "SHARECOUNTED")' <=> Shown(d)',
           totalShare' = totalShare + (IF Shown(c)' THEN share'[c] ELSE 0)
                                    - (IF Shown(c) THEN share[c] ELSE 0)
    PROVE  TotalShareExact'
<1> DEFINE S == {d \in Conns : Shown(d)}
           T == {d \in Conns : Shown(d)'}
<1>1. share \in [Conns -> Nat] /\ share' \in [Conns -> Nat]
  <2>1. share \in [Conns -> Shares] /\ share' \in [Conns -> Shares]
    BY DEF TypeOK
  <2> QED BY <2>1, SharesAssumption
<1>2. S \in SUBSET Conns /\ T \in SUBSET Conns
  OBVIOUS
<1>3. Units(share, S \ {c}) = Units(share', T \ {c})
  <2>1. S \ {c} = T \ {c}
    OBVIOUS
  <2>2. \A d \in S \ {c} : share'[d] = share[d]
    OBVIOUS
  <2> HIDE DEF S, T
  <2> QED BY <2>1, <2>2 DEF Units
<1>4. totalShare = Cardinality(Units(share, S))
  BY SharedUnits
<1>5. (c \in S <=> Shown(c)) /\ (c \in T <=> Shown(c)')
  OBVIOUS
<1> HIDE DEF S, T
<1>6. Cardinality(Units(share, S))
      = Cardinality(Units(share, S \ {c})) + (IF c \in S THEN share[c] ELSE 0)
  BY <1>1, <1>2, UnitsOfOne
<1>7. Cardinality(Units(share', T))
      = Cardinality(Units(share', T \ {c})) + (IF c \in T THEN share'[c] ELSE 0)
  BY <1>1, <1>2, UnitsOfOne
<1>8. Cardinality(Units(share, S \ {c})) \in Nat /\ share[c] \in Nat /\ share'[c] \in Nat
  BY <1>1, <1>2, UnitsFinite
<1>9. totalShare' = Cardinality(Units(share', T))
  BY <1>3, <1>4, <1>5, <1>6, <1>7, <1>8
<1> QED BY <1>9, SharedUnits DEF T

\* A step that neither counts a share nor shows or hides anybody.
LEMMA ShareFrame ==
    ASSUME TypeOK, TypeOK', TotalShareExact, totalShare' = totalShare,
           \A d \in Conns : /\ Shown(d)' <=> Shown(d)
                            /\ Shown(d) => share'[d] = share[d]
                            /\ Has(d, "SHARECOUNTED")' <=> Has(d, "SHARECOUNTED")
    PROVE  TotalShareExact'
<1>1. \A d \in Conns : Has(d, "SHARECOUNTED")' <=> Shown(d)'
  BY DEF TotalShareExact
<1>2. CASE Conns = {}
  <2>1. {d \in Conns : Shown(d)} = {d \in Conns : Shown(d)'}
    BY <1>2
  <2>2. Units(share, {d \in Conns : Shown(d)}) = Units(share', {d \in Conns : Shown(d)'})
    BY <1>2 DEF Units
  <2> QED BY <1>1, <2>2, SharedUnits
<1>3. ASSUME NEW c \in Conns PROVE TotalShareExact'
  <2>1. totalShare \in Int /\ share[c] \in Int
    <3>1. share[c] \in Shares
      BY DEF TypeOK
    <3>2. share[c] \in Nat
      BY <3>1, SharesAssumption
    <3> QED BY <3>2 DEF TypeOK
  <2>2. totalShare' = totalShare + (IF Shown(c)' THEN share'[c] ELSE 0)
                                 - (IF Shown(c) THEN share[c] ELSE 0)
    BY <2>1
  <2> QED BY <1>1, <2>2, ShareStep
<1> QED BY <1>2, <1>3

LEMMA NumbersOfShares ==
    ASSUME TypeOK, NEW c \in Conns
    PROVE  share[c] \in Int /\ totalShare \in Int
<1>1. share[c] \in Shares /\ totalShare \in Int
  BY DEF TypeOK
<1>2. share[c] \in Nat
  BY <1>1, SharesAssumption
<1> QED BY <1>1, <1>2

\* User::Close takes the share of a listed user off the sum.
LEMMA ShareClose ==
    ASSUME TypeOK, TypeOK', TotalShareExact, NEW c \in Conns, NEW n, NEW left \in BOOLEAN,
           Close(c, n, left), \A d \in Conns : Shown(d) => share'[d] = share[d]
    PROVE  TotalShareExact'
<1>1. \A d \in Conns \ {c} : Shown(d)' <=> Shown(d)
  BY DEF Close, StAfterClose, Shown, Listed, Visible, Has, TypeOK
<1>2. ~Shown(c)'
  BY DEF Close, StAfterClose, Shown, Listed, ListedStates, TypeOK
<1>3. Has(c, "SHARECOUNTED") <=> Shown(c)
  BY DEF TotalShareExact
<1>4. totalShare' = totalShare - (IF Shown(c) THEN share[c] ELSE 0)
  BY <1>3 DEF Close, LeaveHub, Shown, TypeOK
<1>5. totalShare' = totalShare + (IF Shown(c)' THEN share'[c] ELSE 0)
                               - (IF Shown(c) THEN share[c] ELSE 0)
  BY <1>2, <1>4, NumbersOfShares
<1>6. \A d \in Conns : Has(d, "SHARECOUNTED")' <=> Shown(d)'
  <2>1. ~Has(c, "SHARECOUNTED")'
    BY <1>3 DEF Close, CloseBits, Shown, Has, TypeOK
  <2>2. \A d \in Conns \ {c} : Has(d, "SHARECOUNTED")' <=> Has(d, "SHARECOUNTED")
    BY DEF Close, Has, TypeOK
  <2> QED BY <1>1, <1>2, <2>1, <2>2 DEF TotalShareExact
<1> QED BY <1>1, <1>5, <1>6, ShareStep

\* The outcomes of ValidateUserNick.
LEMMA ShareValidate ==
    ASSUME TypeOK, TypeOK', TotalShareExact, NEW c \in Conns, NEW n \in Nicks, NEW next \in States,
           NEW sh \in Shares, NEW left \in BOOLEAN, st[c] = "VALIDATE", next \notin ListedStates,
           ValidateUserNick(c, n, next, sh, left)
    PROVE  TotalShareExact'
<1>1. CASE RefuseNick(c, n, left) \/ DenyNick(c, n, left)
  <2>1. Close(c, n, left) /\ share' = share
    BY <1>1 DEF RefuseNick, DenyNick
  <2> QED BY <2>1, ShareClose
<1>2. CASE CloseDeadClone(c, n)
  <2>1. nickTable[n] \in Conns /\ share' = share
    BY <1>2 DEF CloseDeadClone, TypeOK
  <2>2. PICK m : Close(nickTable[n], m, FALSE)
    BY <1>2 DEF CloseDeadClone
  <2> QED BY <2>1, <2>2, ShareClose
<1>3. CASE AskGhostPassword(c, n, sh) \/ HashNick(c, n, next, sh)
  <2>1. totalShare' = totalShare
    BY <1>3 DEF AskGhostPassword, HashNick, hub
  <2>2. /\ \A d \in Conns \ {c} : st'[d] = st[d] /\ bits'[d] = bits[d] /\ share'[d] = share[d]
        /\ st'[c] \notin ListedStates
        /\ Has(c, "SHARECOUNTED")' <=> Has(c, "SHARECOUNTED")
    BY <1>3 DEF AskGhostPassword, HashNick, ListedStates, Has, TypeOK
  <2>3. ~Shown(c) /\ ~Shown(c)'
    BY <2>2 DEF Shown, Listed, ListedStates
  <2>4. \A d \in Conns \ {c} : /\ Shown(d)' <=> Shown(d)
                               /\ Has(d, "SHARECOUNTED")' <=> Has(d, "SHARECOUNTED")
    BY <2>2 DEF Shown, Listed, Visible, Has
  <2> QED BY <2>1, <2>2, <2>3, <2>4, ShareFrame
<1> QED BY <1>1, <1>2, <1>3 DEF ValidateUserNick

\* $MyPass takes the ghost's share off the sum, when the ghost was listed.
LEMMA ShareMyPass ==
    ASSUME TypeOK, TypeOK', TotalShareExact, NEW c \in Conns, NEW left \in BOOLEAN, MyPass(c, left)
    PROVE  TotalShareExact'
<1> DEFINE other == nickTable[nick[c]]
           ghost == ~Has(c, "HASHED") /\ other # NoConn
           next == IF Has(c, "QUICKLIST") /\ ~Has(c, "PINGER")
                   THEN AddMeState(c) ELSE st[c]
<1>1. st[c] = "VERSION_OR_MYPASS" /\ next \notin ListedStates /\ nick[c] \in Nicks
  BY AddMeStateType DEF MyPass, Talks, AddMeState, ListedStates, TypeOK
<1>2. share' = share
  BY DEF MyPass
<1>3. ~Shown(c)
  BY <1>1 DEF Shown, Listed, ListedStates
<1>4. CASE ghost /\ Open(other)
  <2>1. PICK o \in Conns : o = other
    BY <1>1, <1>4 DEF TypeOK
  <2>2. st' = [StAfterClose(o, left) EXCEPT ![c] = next] /\ LeaveHub(o)
    BY <1>4, <2>1 DEF MyPass
  <2>3. bits' = [bits EXCEPT ![o] = CloseBits(o),
                             ![c] = (bits[c] \ {"WAITING_FOR_PASS"}) \cup {"HASHED"}]
    BY <1>4, <2>1 DEF MyPass
  <2> HIDE DEF other, next
  <2>4. ~Shown(o)' /\ ~Shown(c)'
    BY <1>1, <2>2 DEF StAfterClose, Shown, Listed, ListedStates, TypeOK
  <2>5. \A d \in Conns \ {o, c} : st'[d] = st[d] /\ bits'[d] = bits[d]
    BY <2>2, <2>3 DEF StAfterClose, TypeOK
  <2>6. \A d \in Conns \ {o, c} : Shown(d)' <=> Shown(d)
    BY <2>5 DEF Shown, Listed, Visible, Has
  <2>7. Has(o, "SHARECOUNTED") <=> Shown(o)
    BY DEF TotalShareExact
  <2>8. totalShare' = totalShare - (IF Shown(o) THEN share[o] ELSE 0)
    BY <2>2, <2>7, NumbersOfShares DEF LeaveHub, Shown
  <2>9. totalShare' = totalShare + (IF Shown(o)' THEN share'[o] ELSE 0)
                                 - (IF Shown(o) THEN share[o] ELSE 0)
    BY <2>4, <2>8, NumbersOfShares
  <2>10. ~Has(c, "SHARECOUNTED")'
    <3>1. ~Has(c, "SHARECOUNTED")
      BY <1>3 DEF TotalShareExact
    <3>2. bits'[c] = (bits[c] \ {"WAITING_FOR_PASS"}) \cup {"HASHED"}
      BY <2>3 DEF TypeOK
    <3> QED BY <3>1, <3>2 DEF Has
  <2>11. CASE o # c
    <3>1. ~Has(o, "SHARECOUNTED")'
      BY <2>3, <2>7, <2>11 DEF CloseBits, Has, Shown, TypeOK
    <3>2. \A d \in Conns \ {o, c} : Has(d, "SHARECOUNTED")' <=> Has(d, "SHARECOUNTED")
      BY <2>5 DEF Has
    <3>3. \A d \in Conns : Has(d, "SHARECOUNTED")' <=> Shown(d)'
      BY <2>4, <2>6, <2>10, <3>1, <3>2 DEF TotalShareExact
    <3>4. \A d \in Conns \ {o} : Shown(d)' <=> Shown(d)
      BY <1>3, <2>4, <2>6
    <3> QED BY <1>2, <2>9, <3>3, <3>4, ShareStep
  <2>12. CASE o = c
    <3>1. \A d \in Conns \ {c} : Has(d, "SHARECOUNTED")' <=> Has(d, "SHARECOUNTED")
      BY <2>5, <2>12 DEF Has
    <3>2. \A d \in Conns : Has(d, "SHARECOUNTED")' <=> Shown(d)'
      BY <2>4, <2>6, <2>10, <2>12, <3>1 DEF TotalShareExact
    <3> QED BY <1>2, <2>6, <2>9, <2>12, <3>2, ShareStep
  <2> QED BY <2>11, <2>12
<1>5. CASE ~(ghost /\ Open(other))
  <2>1. totalShare' = totalShare /\ st' = [st EXCEPT ![c] = next]
    BY <1>5 DEF MyPass
  <2>2. bits' = [bits EXCEPT ![c] = (bits[c] \ {"WAITING_FOR_PASS"}) \cup {"HASHED"}]
    BY <1>5 DEF MyPass
  <2> HIDE DEF next
  <2>3. ~Shown(c)'
    BY <1>1, <2>1 DEF Shown, Listed, TypeOK
  <2>4. \A d \in Conns \ {c} : Shown(d)' <=> Shown(d)
    BY <2>1, <2>2 DEF Shown, Listed, Visible, Has, TypeOK
  <2>5. \A d \in Conns : Has(d, "SHARECOUNTED")' <=> Has(d, "SHARECOUNTED")
    BY <2>2 DEF Has, TypeOK
  <2> QED BY <1>2, <1>3, <2>1, <2>3, <2>4, <2>5, ShareFrame
<1> QED BY <1>4, <1>5

\* Scripts hide and show users, listed or not.
LEMMA ShareHide ==
    ASSUME TypeOK, TypeOK', TotalShareExact, NEW c \in Conns, Hide(c) \/ Unhide(c)
    PROVE  TotalShareExact'
<1>1. share' = share /\ st' = st /\ \A d \in Conns \ {c} : bits'[d] = bits[d]
  BY DEF Hide, Unhide, TypeOK
<1>2. \A d \in Conns \ {c} : /\ Shown(d)' <=> Shown(d)
                             /\ Has(d, "SHARECOUNTED")' <=> Has(d, "SHARECOUNTED")
  BY <1>1 DEF Shown, Listed, Visible, Has
<1>3. Has(c, "SHARECOUNTED") <=> Shown(c)
  BY DEF TotalShareExact
<1>4. CASE Hide(c)
  <2>1. ~Shown(c)' /\ ~Has(c, "SHARECOUNTED")'
    <3>1. bits'[c] = CloseBits(c) \cup {"HIDDEN"}
      BY <1>4 DEF Hide, TypeOK
    <3>2. "SHARECOUNTED" \notin CloseBits(c)
      BY <1>3 DEF CloseBits, Has, Shown
    <3> QED BY <3>1, <3>2 DEF Shown, Visible, Has
  <2>2. totalShare' = totalShare - (IF Shown(c) THEN share[c] ELSE 0)
    BY <1>3, <1>4, NumbersOfShares DEF Hide, LeaveHub, Shown
  <2>3. totalShare' = totalShare + (IF Shown(c)' THEN share'[c] ELSE 0)
                                 - (IF Shown(c) THEN share[c] ELSE 0)
    BY <2>1, <2>2, NumbersOfShares
  <2>4. \A d \in Conns : Has(d, "SHARECOUNTED")' <=> Shown(d)'
    BY <1>2, <2>1 DEF TotalShareExact
  <2> QED BY <1>1, <1>2, <2>3, <2>4, ShareStep
<1>5. CASE Unhide(c)
  <2>1. ~Shown(c) /\ ~Has(c, "SHARECOUNTED")
    BY <1>3, <1>5 DEF Unhide, Shown
  <2>2. /\ Shown(c)' <=> Listed(c)
        /\ Has(c, "SHARECOUNTED")' <=> Listed(c)
    <3>1. bits'[c] = (bits[c] \ {"HIDDEN"}) \cup (IF Listed(c) THEN {"SHARECOUNTED"} ELSE {})
      BY <1>5 DEF Unhide, TypeOK
    <3>2. Listed(c)' <=> Listed(c)
      BY <1>1 DEF Listed
    <3> QED BY <2>1, <3>1, <3>2 DEF Shown, Visible, Has
  <2>3. totalShare' = totalShare + (IF Listed(c) THEN share[c] ELSE 0)
    BY <1>5, <2>1, NumbersOfShares DEF Unhide
  <2>4. totalShare' = totalShare + (IF Shown(c)' THEN share'[c] ELSE 0)
                                 - (IF Shown(c) THEN share[c] ELSE 0)
    BY <1>1, <2>1, <2>2, <2>3, NumbersOfShares
  <2>5. \A d \in Conns : Has(d, "SHARECOUNTED")' <=> Shown(d)'
    BY <1>2, <2>2 DEF TotalShareExact
  <2> QED BY <1>1, <1>2, <2>4, <2>5, ShareStep
<1> QED BY <1>4, <1>5

\* $MyINFO of a listed user replaces its share in the sum.
LEMMA ShareMyINFO ==
    ASSUME TypeOK, TypeOK', TotalShareExact, NEW c \in Conns, NEW sh \in Shares,
           MyINFO(c, sh) \/ MyINFORefresh(c, sh)
    PROVE  TotalShareExact'
<1>1. /\ \A d \in Conns \ {c} : st'[d] = st[d] /\ share'[d] = share[d]
      /\ share'[c] = sh /\ bits' = bits /\ sh \in Int
  <2>1. /\ \A d \in Conns \ {c} : st'[d] = st[d] /\ share'[d] = share[d]
        /\ share'[c] = sh /\ bits' = bits
    BY DEF MyINFO, MyINFORefresh, GoToAddMe, TypeOK
  <2> QED BY <2>1, SharesAssumption
<1>2. \A d \in Conns \ {c} : Shown(d)' <=> Shown(d)
  BY <1>1 DEF Shown, Listed, Visible, Has
<1>3. \A d \in Conns : Has(d, "SHARECOUNTED")' <=> Has(d, "SHARECOUNTED")
  BY <1>1 DEF Has
<1>4. CASE MyINFO(c, sh)
  <2>1. totalShare' = totalShare
    BY <1>4 DEF MyINFO, hub
  <2>2. ~Shown(c) /\ ~Shown(c)'
    <3>1. st[c] \notin ListedStates
      BY <1>4 DEF MyINFO, Talks, ListedStates
    <3>2. st'[c] = st[c] \/ st'[c] = AddMeState(c)
      BY <1>4 DEF MyINFO, GoToAddMe, TypeOK
    <3>3. AddMeState(c) \notin ListedStates
      BY DEF AddMeState, ListedStates
    <3> QED BY <3>1, <3>2, <3>3 DEF Shown, Listed
  <2> QED BY <1>1, <1>2, <1>3, <2>1, <2>2, ShareFrame
<1>5. CASE MyINFORefresh(c, sh)
  <2>1. Has(c, "SHARECOUNTED") <=> Shown(c)
    BY DEF TotalShareExact
  <2>2. Shown(c)' <=> Shown(c)
    BY <1>1, <1>5 DEF MyINFORefresh, Shown, Listed, Visible, Has
  <2>3. totalShare' = IF Shown(c) THEN totalShare - share[c] + sh ELSE totalShare
    BY <1>5, <2>1 DEF MyINFORefresh
  <2>4. totalShare' = totalShare + (IF Shown(c)' THEN share'[c] ELSE 0)
                                 - (IF Shown(c) THEN share[c] ELSE 0)
    BY <1>1, <2>2, <2>3, NumbersOfShares
  <2>5. \A d \in Conns : Has(d, "SHARECOUNTED")' <=> Shown(d)'
    BY <1>2, <1>3, <2>2 DEF TotalShareExact
  <2> QED BY <1>1, <1>2, <2>4, <2>5, ShareStep
<1> QED BY <1>4, <1>5

\* The steps that leave the sum alone.
LEMMA ShareUnmoved ==
    ASSUME TypeOK, TypeOK', TotalShareExact, NEW c \in Conns,
           \/ AcceptUser(c) \/ Key(c) \/ Version(c) \/ GetNickList(c)
           \/ \E s \in SupportSets : Supports(c, s)
           \/ \E n \in Nicks, left \in BOOLEAN : MyNick(c, n, left)
           \/ \E sent \in BOOLEAN : ClosingVisit(c, sent)
           \/ RemUser(c) \/ SendVisit(c) \/ BecomeAdded(c)
    PROVE  TotalShareExact'
<1>1. totalShare' = totalShare
  BY DEF AcceptUser, Key, Version, GetNickList, Supports, MyNick, ClosingVisit, FlushClosing,
         GiveUpClosing, RemUser, SendVisit, BecomeAdded, hub
<1>2. CASE \E n \in Nicks, left \in BOOLEAN : MyNick(c, n, left)
  <2>1. PICK n \in Nicks, left \in BOOLEAN : MyNick(c, n, left)
    BY <1>2
  <2>2. \A d \in Conns : Listed(d)' <=> Listed(d)
    BY <2>1 DEF MyNick, Talks, EarlyStates, StAfterClose, Listed, ListedStates, TypeOK
  <2>3. bits' = bits /\ share' = share
    BY <2>1 DEF MyNick
  <2> QED BY <1>1, <2>2, <2>3, ShareFrame DEF Shown, Visible, Has
<1>3. CASE ~ \E n \in Nicks, left \in BOOLEAN : MyNick(c, n, left)
  <2>1. /\ \A d \in Conns \ {c} : st'[d] = st[d] /\ bits'[d] = bits[d] /\ share'[d] = share[d]
        /\ st'[c] \in ListedStates <=> st[c] \in ListedStates
        /\ st[c] \in ListedStates => /\ "HIDDEN" \in bits'[c] <=> "HIDDEN" \in bits[c]
                                     /\ share'[c] = share[c]
    <3>1. CASE AcceptUser(c) \/ Key(c) \/ Version(c) \/ \E s \in SupportSets : Supports(c, s)
      BY <3>1 DEF AcceptUser, Key, Version, Supports, Talks, ListedStates, TypeOK
    <3>2. CASE GetNickList(c)
      BY <3>2 DEF GetNickList, TypeOK
    <3>3. CASE \E sent \in BOOLEAN : ClosingVisit(c, sent)
      BY <3>3 DEF ClosingVisit, Visits, FlushClosing, GiveUpClosing, conn, ListedStates, TypeOK
    <3>4. CASE RemUser(c) \/ SendVisit(c) \/ BecomeAdded(c)
      BY <3>4 DEF RemUser, SendVisit, BecomeAdded, Visits, ListedStates, TypeOK
    <3> QED BY <1>3, <3>1, <3>2, <3>3, <3>4
  <2>2. Has(c, "SHARECOUNTED")' <=> Has(c, "SHARECOUNTED")
    <3>1. CASE RemUser(c)
      <4>1. ~Shown(c) /\ bits'[c] = {}
        BY <3>1 DEF RemUser, Visits, Shown, Listed, ListedStates, TypeOK
      <4> QED BY <4>1 DEF TotalShareExact, Has
    <3>2. CASE ~RemUser(c)
      BY <1>3, <3>2 DEF AcceptUser, Key, Version, GetNickList, Supports, ClosingVisit,
         FlushClosing, GiveUpClosing, SendVisit, BecomeAdded, conn, Has, TypeOK
    <3> QED BY <3>1, <3>2
  <2>3. \A d \in Conns : /\ Shown(d)' <=> Shown(d)
                         /\ Shown(d) => share'[d] = share[d]
    BY <2>1 DEF Shown, Listed, Visible, Has
  <2>4. \A d \in Conns : Has(d, "SHARECOUNTED")' <=> Has(d, "SHARECOUNTED")
    BY <2>1, <2>2 DEF Has
  <2> QED BY <1>1, <2>3, <2>4, ShareFrame
<1> QED BY <1>2, <1>3

\* The receive loop's visits: STATE_ADDME_1LOOP adds the share of a visible
\* user, the login timeout takes it off again.
LEMMA ShareReceive ==
    ASSUME TypeOK, TypeOK', TotalShareExact, NEW c \in Conns, NEW left \in BOOLEAN,
           ReceiveVisit(c, left)
    PROVE  TotalShareExact'
<1>1. CASE LoginTimesOut(c, left)
  <2>1. Close(c, nick[c], left) /\ share' = share
    BY <1>1 DEF LoginTimesOut
  <2> QED BY <2>1, ShareClose
<1>2. CASE EnterLists(c)
  <2>1. share' = share /\ ~Shown(c) /\ ~Has(c, "SHARECOUNTED")
    <3>1. share' = share /\ ~Shown(c)
      BY <1>2 DEF EnterLists, Shown, Listed, ListedStates
    <3> QED BY <3>1 DEF TotalShareExact
  <2>2. \A d \in Conns \ {c} : st'[d] = st[d] /\ bits'[d] = bits[d]
    BY <1>2 DEF EnterLists, TypeOK
  <2>3. \A d \in Conns \ {c} : /\ Shown(d)' <=> Shown(d)
                               /\ Has(d, "SHARECOUNTED")' <=> Has(d, "SHARECOUNTED")
    BY <2>2 DEF Shown, Listed, Visible, Has
  <2>4. /\ Shown(c)' <=> Visible(c)
        /\ Has(c, "SHARECOUNTED")' <=> Visible(c)
    BY <1>2, <2>1 DEF EnterLists, Shown, Listed, ListedStates, Visible, Has, TypeOK
  <2>5. totalShare' = totalShare + (IF Visible(c) THEN share[c] ELSE 0)
    BY <1>2, NumbersOfShares DEF EnterLists
  <2>6. totalShare' = totalShare + (IF Shown(c)' THEN share'[c] ELSE 0)
                                 - (IF Shown(c) THEN share[c] ELSE 0)
    BY <2>1, <2>4, <2>5, NumbersOfShares
  <2>7. \A d \in Conns : Has(d, "SHARECOUNTED")' <=> Shown(d)'
    BY <2>3, <2>4 DEF TotalShareExact
  <2> QED BY <2>1, <2>3, <2>6, <2>7, ShareStep
<1>3. CASE LoginWaits(c) \/ SendsLock(c) \/ GivesUpIPv4(c) \/ AddMe(c)
  <2>1. totalShare' = totalShare /\ bits' = bits /\ share' = share
    BY <1>3 DEF LoginWaits, SendsLock, GivesUpIPv4, AddMe, Advance, conn, hub
  <2>2. \A d \in Conns : Listed(d)' <=> Listed(d)
    BY <1>3 DEF LoginWaits, SendsLock, GivesUpIPv4, AddMe, Advance, conn, Listed, ListedStates,
       TypeOK
  <2> QED BY <2>1, <2>2, ShareFrame DEF Shown, Visible, Has
<1> QED BY <1>1, <1>2, <1>3 DEF ReceiveVisit

\* The hub's total share is always what the visible users of the lists have
\* between them, and nobody is counted that is not in them: m_ui64TotalShare
\* is never decremented for a share it does not contain.
THEOREM TotalShareCorrect == Spec => []TotalShareExact
<1>1. Init => TotalShareExact
  <2> SUFFICES ASSUME Init PROVE TotalShareExact
    OBVIOUS
  <2>1. \A c \in Conns : ~Shown(c) /\ ~Has(c, "SHARECOUNTED")
    BY DEF Init, Shown, Listed, ListedStates, Has
  <2>2. Units(share, {c \in Conns : Shown(c)}) = {}
    BY <2>1 DEF Units
  <2> QED BY <2>1, <2>2, SharedUnits, FS_EmptySet DEF Init
<1>2. TypeOK /\ TypeOK' /\ TotalShareExact /\ [Next]_vars => TotalShareExact'
  <2> SUFFICES ASSUME TypeOK, TypeOK', TotalShareExact, [Next]_vars PROVE TotalShareExact'
    OBVIOUS
  <2>1. ASSUME NEW c \in Conns, ConnNext(c) PROVE TotalShareExact'
    <3>1. ASSUME NEW left \in BOOLEAN, CloseUser(c, left) PROVE TotalShareExact'
      <4>1. Close(c, nick[c], left) /\ share' = share
        BY <3>1 DEF CloseUser
      <4> QED BY <4>1, ShareClose
    <3>2. ASSUME NEW n \in Nicks, NEW left \in BOOLEAN, ValidateNick(c, n, left)
          PROVE  TotalShareExact'
      <4>1. share[c] \in Shares
        BY DEF TypeOK
      <4>2. "VERSION_OR_MYPASS" \in States /\ "VERSION_OR_MYPASS" \notin ListedStates
        BY NextStateType DEF ListedStates
      <4> QED BY <3>2, <4>1, <4>2, ShareValidate DEF ValidateNick, Talks
    <3>3. ASSUME NEW n \in Nicks, NEW sh \in Shares, NEW left \in BOOLEAN,
                 QuickMyINFO(c, n, sh, left)
          PROVE  TotalShareExact'
      <4> DEFINE next == IF Has(c, "PINGER") THEN "VALIDATE" ELSE AddMeState(c)
      <4>1. next \in States /\ next \notin ListedStates
        BY NextStateType, AddMeStateType DEF AddMeState, ListedStates
      <4>2. st[c] = "VALIDATE" /\ ValidateUserNick(c, n, next, sh, left)
        BY <3>3 DEF QuickMyINFO, Talks
      <4> HIDE DEF next
      <4> QED BY <4>1, <4>2, ShareValidate
    <3> QED BY <2>1, <3>1, <3>2, <3>3, ShareMyPass, ShareHide, ShareMyINFO, ShareUnmoved,
               ShareReceive DEF ConnNext
  <2>2. CASE \/ BeginReceive \/ BeginSend
             \/ \E tick \in BOOLEAN : EndSend(tick)
             \/ \E n \in Regable : RegChange(n)
             \/ UNCHANGED vars
    <3>1. st' = st /\ bits' = bits /\ share' = share /\ totalShare' = totalShare
      BY <2>2 DEF BeginReceive, BeginSend, EndSend, RegChange, vars, conn, hub
    <3> QED BY <3>1, ShareFrame DEF Shown, Listed, Visible, Has
  <2> QED BY <2>1, <2>2 DEF Next
<1> QED BY <1>1, <1>2, TypeCorrect, PTL DEF Spec
=============================================================================
