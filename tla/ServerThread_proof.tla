------------------------- MODULE ServerThread_proof -------------------------
(***************************************************************************)
(* Proofs about the accept threads.                                        *)
(*                                                                         *)
(* AcceptThread, for any number of clients and any commands: a connection  *)
(* is on its way exactly while the thread handles it; and a stopped port   *)
(* that no script has suspended is free.                                   *)
(*                                                                         *)
(* AntiConFlood, for any accept threads, addresses and limits: how many    *)
(* connections of an address one window lets through, and how far the      *)
(* tables of all threads outgrow the cap that each thread checks before it *)
(* enters an address, while the others go on.                              *)
(***************************************************************************)
EXTENDS AcceptThread, AntiConFlood, FiniteSetTheorems, TLAPS

\* The part of TypeOK the proofs use.
Typed == s \in Clients \cup {NoSocket} /\ place \in [Clients -> Places]

\* A thread that waits in accept() holds no socket yet.
WaitsWithNothing == pc = "Accept" => s = NoSocket

HeldInv == Typed /\ WaitsWithNothing /\ HeldByThread

\* Without suspensions the thread never opens a socket of its own, so what
\* Close closes stays closed.
NeverSuspended ==
    /\ suspendTime = 0
    /\ pc \notin {"Suspend", "Sleep", "Listen", "Bind"}

ClosedByStop ==
    /\ ~orphan
    /\ hub # "running" => ~server
    /\ hub = "stopped" => pc \in {"Done", "None"}

PortInv == ~wasSuspended => NeverSuspended /\ ClosedByStop

-----------------------------------------------------------------------------
\* What the thread does with the socket it holds disturbs no other connection.
LEMMA DropHeld ==
    ASSUME HeldInv, pc \in {"Returned", "Handle"},
           NEW where \in {"closed", "queued", "leaked"}, Drop(where)
    PROVE  /\ place' \in [Clients -> Places]
           /\ \A c \in Clients : place'[c] # "held"
<1>1. CASE s = NoSocket
  <2>1. place' = place
    BY <1>1 DEF Drop
  <2>2. \A c \in Clients : place[c] # "held"
    BY <1>1, AcceptAssumption DEF HeldInv, HeldByThread
  <2> QED BY <2>1, <2>2 DEF HeldInv, Typed
<1>2. CASE s # NoSocket
  <2>1. s \in Clients /\ place' = [place EXCEPT ![s] = where]
    BY <1>2 DEF Drop, HeldInv, Typed
  <2>2. \A c \in Clients : c # s => place[c] # "held"
    BY DEF HeldInv, HeldByThread
  <2> QED BY <2>1, <2>2 DEF HeldInv, Typed, Places
<1> QED BY <1>1, <1>2

LEMMA HeldInit == Init => HeldInv
BY AcceptAssumption DEF Init, HeldInv, Typed, WaitsWithNothing, HeldByThread, Places

LEMMA HeldStep == HeldInv /\ [Next]_vars => HeldInv'
<1> SUFFICES ASSUME HeldInv, [Next]_vars PROVE HeldInv'
    OBVIOUS
<1> USE DEF HeldInv, Typed, WaitsWithNothing, HeldByThread, socketVars, commandVars, threadVars
<1>1. CASE Start
  BY <1>1 DEF Start
<1>2. CASE CallAccept
  <2>1. \A c \in Clients : place[c] # "held"
    BY <1>2 DEF CallAccept
  <2> QED BY <1>2, <2>1, AcceptAssumption DEF CallAccept
<1>3. ASSUME NEW c \in Clients, AcceptClient(c) PROVE HeldInv'
  <2>1. /\ pc' = "Returned" /\ s' = c /\ place' = [place EXCEPT ![c] = "held"]
        /\ \A d \in Clients : place[d] # "held"
    BY <1>3 DEF AcceptClient
  <2> QED BY <2>1 DEF Places
<1>4. CASE AcceptFails
  <2>1. s = NoSocket /\ pc' = "Returned" /\ s' = s /\ place' = place
    BY <1>4 DEF AcceptFails
  <2>2. \A c \in Clients : place[c] # "held"
    BY <1>4 DEF AcceptFails
  <2> QED BY <2>1, <2>2, AcceptAssumption
<1>5. CASE NotSuspended
  BY <1>5 DEF NotSuspended
<1>6. CASE EnterSuspend
  <2>1. pc \in {"Returned", "Handle"} /\ Drop("leaked") /\ pc' = "Suspend" /\ s' = s
    BY <1>6 DEF EnterSuspend
  <2>2. place' \in [Clients -> Places] /\ \A c \in Clients : place'[c] # "held"
    BY <2>1, DropHeld
  <2> QED BY <2>1, <2>2
<1>7. CASE Handle
  <2>1. PICK where \in {"closed", "queued", "leaked"} : Drop(where)
    BY <1>7 DEF Handle
  <2>2. pc \in {"Returned", "Handle"} /\ pc' = "Top" /\ s' = NoSocket
    BY <1>7 DEF Handle
  <2>3. place' \in [Clients -> Places] /\ \A c \in Clients : place'[c] # "held"
    BY <2>1, <2>2, DropHeld
  <2> QED BY <2>2, <2>3
<1>8. CASE SleepOneSecond
  BY <1>8 DEF SleepOneSecond
<1>9. CASE WakeUp
  BY <1>9 DEF WakeUp
<1>10. CASE EndSuspend
  BY <1>10 DEF EndSuspend
<1>11. CASE TerminatedInSuspend
  BY <1>11 DEF TerminatedInSuspend
<1>12. CASE OpenSocket
  BY <1>12 DEF OpenSocket
<1>13. CASE BindSocket
  BY <1>13 DEF BindSocket
<1>14. CASE Leave
  BY <1>14 DEF Leave
<1>15. ASSUME NEW t \in SuspendTimes, SuspendSck(t) PROVE HeldInv'
  BY <1>15 DEF SuspendSck
<1>16. CASE ResumeSck
  BY <1>16 DEF ResumeSck
<1>17. CASE Close
  <2>1. s' = s /\ place' = place /\ (pc' = pc \/ (pc = "Accept" /\ pc' = "Returned"))
    BY <1>17 DEF Close
  <2>2. CASE pc' = pc
    BY <2>1, <2>2
  <2>3. CASE pc = "Accept" /\ pc' = "Returned"
    <3>1. s = NoSocket /\ \A c \in Clients : place[c] # "held"
      BY <2>3
    <3> QED BY <2>1, <2>3, <3>1, AcceptAssumption
  <2> QED BY <2>1, <2>2, <2>3
<1>18. CASE WaitFor
  BY <1>18 DEF WaitFor
<1>19. CASE TakeSockets
  <2>1. PICK where \in {"served", "closed"} :
          place' = [c \in Clients |-> IF place[c] = "queued" THEN where ELSE place[c]]
    BY <1>19 DEF TakeSockets
  <2>2. pc' = pc /\ s' = s
    BY <1>19 DEF TakeSockets
  <2>3. place' \in [Clients -> Places]
    BY <2>1 DEF Places
  <2>4. \A c \in Clients : place'[c] = "held" <=> place[c] = "held"
    BY <2>1
  <2> QED BY <2>2, <2>3, <2>4
<1>20. CASE UNCHANGED vars
  BY <1>20 DEF vars
<1> QED
  BY <1>1, <1>2, <1>3, <1>4, <1>5, <1>6, <1>7, <1>8, <1>9, <1>10, <1>11, <1>12, <1>13,
     <1>14, <1>15, <1>16, <1>17, <1>18, <1>19, <1>20
     DEF Next, ThreadStep

\* A connection is on its way from accept() to the accept queue exactly while
\* Run handles it, whatever SuspendAccepts, ResumeAccepts and Close do.
THEOREM HeldCorrect == Spec => []HeldByThread
<1>1. HeldInv => HeldByThread
  BY DEF HeldInv
<1> QED BY HeldInit, HeldStep, <1>1, PTL DEF Spec
-----------------------------------------------------------------------------
LEMMA PortInit == Init => PortInv
BY DEF Init, PortInv, NeverSuspended, ClosedByStop

LEMMA PortStep == PortInv /\ [Next]_vars => PortInv'
<1> SUFFICES ASSUME PortInv, [Next]_vars, ~wasSuspended' PROVE PortInv'
    BY DEF PortInv
<1> USE DEF NeverSuspended, ClosedByStop, socketVars, commandVars, threadVars
<1>1. ~wasSuspended /\ ~\E t \in SuspendTimes : SuspendSck(t)
  <2>1. ASSUME NEW t \in SuspendTimes, SuspendSck(t) PROVE FALSE
    BY <2>1 DEF SuspendSck
  <2>2. UNCHANGED wasSuspended
    BY <2>1 DEF Next, ThreadStep, Start, CallAccept, AcceptClient, AcceptFails, NotSuspended,
       EnterSuspend, Handle, SleepOneSecond, WakeUp, EndSuspend, TerminatedInSuspend,
       OpenSocket, BindSocket, Leave, ResumeSck, Close, WaitFor, TakeSockets, vars
  <2> QED BY <2>1, <2>2
<1>2. NeverSuspended /\ ClosedByStop
  BY <1>1 DEF PortInv
<1> SUFFICES NeverSuspended' /\ ClosedByStop'
  BY DEF PortInv
<1>3. CASE Start \/ CallAccept \/ NotSuspended \/ Handle \/ Leave
  BY <1>2, <1>3 DEF Start, CallAccept, NotSuspended, Handle, Leave
<1>4. ASSUME NEW c \in Clients, AcceptClient(c) PROVE NeverSuspended' /\ ClosedByStop'
  BY <1>2, <1>4 DEF AcceptClient
<1>5. CASE AcceptFails
  BY <1>2, <1>5 DEF AcceptFails
<1>6. ~(EnterSuspend \/ SleepOneSecond \/ WakeUp \/ EndSuspend
          \/ TerminatedInSuspend \/ OpenSocket \/ BindSocket)
  BY <1>2 DEF EnterSuspend, SleepOneSecond, WakeUp, EndSuspend, TerminatedInSuspend,
         OpenSocket, BindSocket
<1>7. CASE ResumeSck
  BY <1>2, <1>7 DEF ResumeSck
<1>8. CASE Close
  BY <1>2, <1>8 DEF Close
<1>9. CASE WaitFor \/ TakeSockets
  BY <1>2, <1>9 DEF WaitFor, TakeSockets
<1>10. CASE UNCHANGED vars
  BY <1>2, <1>10 DEF vars
<1> QED BY <1>1, <1>3, <1>4, <1>5, <1>6, <1>7, <1>8, <1>9, <1>10 DEF Next, ThreadStep

\* A port that no script has suspended and that Close and WaitFor have stopped is
\* free: nothing listens on it and its thread has ended or was never started.
THEOREM PortFree == Spec => []StoppedPortIsFree
<1>1. PortInv => StoppedPortIsFree
  <2> SUFFICES ASSUME PortInv, hub = "stopped", ~wasSuspended PROVE StoppedPortIsFree
    BY DEF StoppedPortIsFree
  <2> QED BY DEF PortInv, ClosedByStop, StoppedPortIsFree
<1> QED BY PortInit, PortStep, <1>1, PTL DEF Spec
-----------------------------------------------------------------------------
\* AntiConFlood.

\* The tables are tables, and the histories speak of their entries.
TablesOK ==
    /\ TablesTypeOK
    /\ table \in [Threads -> [Ips -> Entries \cup {NoEntry}]]
    /\ passed \in [Threads -> [Ips -> Nat]]

\* An entry whose hits have not gone round has let through no more than it has
\* counted.
CountedOK ==
    \A t \in Threads, i \in Ips :
       Known(t, i) => passed[t][i] <= table[t][i].hits \/ <<t, i>> \in wrapped

Entering == {t \in Threads : entering[t] # NoIp}

\* A thread that may still enter an address takes its place in the total.
RoomLeft == Total(table) + Cardinality(Entering) <= Cap + Cardinality(Threads)

FloodInv == TablesOK /\ CountedOK /\ AtMostCount /\ RoomLeft
-----------------------------------------------------------------------------
\* The entries of tables.
InTables(tb) == {e \in Threads \X Ips : tb[e[1]][e[2]] # NoEntry}

LEMMA TablesFinite ==
    ASSUME NEW tb
    PROVE  IsFiniteSet(InTables(tb)) /\ Cardinality(InTables(tb)) \in Nat
           /\ Total(tb) = Cardinality(InTables(tb))
<1>1. IsFiniteSet(Threads \X Ips)
  BY FloodAssumption, FS_Product
<1>2. IsFiniteSet(InTables(tb))
  BY <1>1, FS_Subset DEF InTables
<1> QED BY <1>2, FS_CardinalityType DEF Total, InTables

\* Fewer entries make no greater total.
LEMMA FewerEntries ==
    ASSUME NEW tb, NEW tc, InTables(tc) \subseteq InTables(tb)
    PROVE  Total(tc) <= Total(tb)
BY TablesFinite, FS_Subset

LEMMA EnteringFinite ==
    /\ IsFiniteSet(Entering) /\ Cardinality(Entering) \in Nat
    /\ Cardinality(Threads) \in Nat /\ Cardinality(Entering) <= Cardinality(Threads)
BY FloodAssumption, FS_Subset, FS_CardinalityType DEF Entering

LEMMA FloodInvInit == TablesInit => FloodInv
<1> SUFFICES ASSUME TablesInit PROVE FloodInv
  OBVIOUS
<1>1. TablesOK
  BY FloodAssumption DEF TablesInit, TablesOK, TablesTypeOK, Known
<1>2. CountedOK /\ AtMostCount
  BY FloodAssumption DEF TablesInit, CountedOK, AtMostCount, Known
<1>3. RoomLeft
  <2>1. InTables(table) = {} /\ Entering = {}
    BY DEF TablesInit, InTables, Entering
  <2>2. Total(table) = 0 /\ Cardinality(Entering) = 0
    BY <2>1, TablesFinite, FS_EmptySet
  <2> QED BY <2>2, EnteringFinite, FloodAssumption DEF RoomLeft
<1> QED BY <1>1, <1>2, <1>3 DEF FloodInv

\* The next hit is one more, or the count goes round.
LEMMA NextHitType ==
    ASSUME NEW h \in -HitsLimit .. HitsLimit - 1
    PROVE  /\ NextHit(h) \in -HitsLimit .. HitsLimit - 1
           /\ NextHit(h) = h + 1 \/ NextHit(h) < h
BY FloodAssumption DEF NextHit

LEMMA CountHitStep ==
    ASSUME FloodInv, NEW t \in Threads, NEW i \in Ips, CountHit(t, i)
    PROVE  FloodInv'
<1> DEFINE old == table[t][i].hits
           h == NextHit(old)
           e == [time |-> table[t][i].time, hits |-> h]
<1>1. table[t][i] \in Entries /\ Known(t, i)
  BY DEF CountHit, InWindow, Known, FloodInv, TablesOK
<1>2. old \in -HitsLimit .. HitsLimit - 1 /\ table[t][i].time \in 0 .. tick
  BY <1>1 DEF Entries, FloodInv, TablesOK, TablesTypeOK
<1>3. h \in -HitsLimit .. HitsLimit - 1 /\ (h = old + 1 \/ h < old)
  BY <1>2, NextHitType
<1>4. /\ table' = [table EXCEPT ![t][i] = e]
      /\ UNCHANGED <<tick, entering>>
      /\ wrapped' = IF h < old THEN wrapped \cup {<<t, i>>} ELSE wrapped
      /\ \/ UNCHANGED passed
         \/ ~Floods(h) /\ passed' = [passed EXCEPT ![t][i] = passed[t][i] + 1]
  <2>1. [table[t][i] EXCEPT !.hits = h] = e
    BY <1>1 DEF Entries
  <2>2. table' = [table EXCEPT ![t][i].hits = h]
    BY DEF CountHit
  <2>3. table' = [table EXCEPT ![t][i] = e]
    BY <2>1, <2>2
  <2>4. /\ UNCHANGED <<tick, entering>>
        /\ wrapped' = IF h < old THEN wrapped \cup {<<t, i>>} ELSE wrapped
    BY DEF CountHit
  <2>5. \/ UNCHANGED passed
        \/ ~Floods(h) /\ passed' = [passed EXCEPT ![t][i] = passed[t][i] + 1]
    BY DEF CountHit
  <2> QED BY <2>3, <2>4, <2>5
<1>5. e \in Entries /\ e # NoEntry
  BY <1>2, <1>3, FloodAssumption DEF Entries, FloodInv, TablesOK, TablesTypeOK
<1>6. \A u \in Threads, j \in Ips :
         table'[u][j] = IF u = t /\ j = i THEN e ELSE table[u][j]
  BY <1>4 DEF FloodInv, TablesOK
<1>7. e.time = table[t][i].time /\ e.hits = h
  OBVIOUS
<1> HIDE DEF e, h, old
<1>8. TablesOK'
  <2>1. table' \in [Threads -> [Ips -> Entries \cup {NoEntry}]]
    BY <1>4, <1>5 DEF FloodInv, TablesOK
  <2>4. passed[t][i] \in Nat /\ passed[t][i] + 1 \in Nat
    BY DEF FloodInv, TablesOK
  <2>5. passed \in [Threads -> [Ips -> Nat]]
    BY DEF FloodInv, TablesOK
  <2>6. [passed EXCEPT ![t][i] = passed[t][i] + 1] \in [Threads -> [Ips -> Nat]]
    BY <2>4, <2>5
  <2>2. passed' \in [Threads -> [Ips -> Nat]]
    BY <1>4, <2>5, <2>6
  <2>3. TablesTypeOK'
    BY <1>1, <1>2, <1>3, <1>4, <1>5, <1>6, <1>7 DEF FloodInv, TablesOK, TablesTypeOK, Known
  <2> QED BY <2>1, <2>2, <2>3 DEF TablesOK
<1>9. /\ \A u \in Threads, j \in Ips : u # t \/ j # i =>
            passed'[u][j] = passed[u][j] /\ (<<u, j>> \in wrapped' <=> <<u, j>> \in wrapped)
      /\ <<t, i>> \in wrapped => <<t, i>> \in wrapped'
      /\ h < old => <<t, i>> \in wrapped'
      /\ passed[t][i] \in Nat
      /\ \/ passed'[t][i] = passed[t][i]
         \/ h <= Count /\ passed'[t][i] = passed[t][i] + 1
  BY <1>3, <1>4, FloodAssumption DEF FloodInv, TablesOK, Floods
<1>10. passed[t][i] <= old \/ <<t, i>> \in wrapped
  BY <1>1 DEF FloodInv, CountedOK, old
<1>11. CountedOK'
  BY <1>2, <1>3, <1>6, <1>7, <1>9, <1>10 DEF FloodInv, CountedOK, Known
<1>12. AtMostCount'
  <2>1. passed'[t][i] <= Count \/ <<t, i>> \in wrapped'
    <3>1. passed[t][i] <= Count \/ <<t, i>> \in wrapped
      BY DEF FloodInv, AtMostCount
    <3> QED BY <1>2, <1>3, <1>9, <1>10, <3>1, FloodAssumption
  <2>2. ASSUME NEW u \in Threads, NEW j \in Ips, u # t \/ j # i
        PROVE  passed'[u][j] <= Count \/ <<u, j>> \in wrapped'
    <3>1. passed[u][j] <= Count \/ <<u, j>> \in wrapped
      BY DEF FloodInv, AtMostCount
    <3> QED BY <1>9, <2>2, <3>1
  <2> QED BY <2>1, <2>2 DEF AtMostCount
<1>13. RoomLeft'
  <2>1. InTables(table') \subseteq InTables(table)
    BY <1>1, <1>6 DEF InTables, Known
  <2>2. Total(table') <= Total(table) /\ Entering' = Entering
    BY <1>4, <2>1, FewerEntries DEF Entering
  <2> QED BY <2>2, TablesFinite, EnteringFinite, FloodAssumption DEF FloodInv, RoomLeft
<1> QED BY <1>8, <1>11, <1>12, <1>13 DEF FloodInv

\* An entry that is erased.
LEMMA ForgetStep ==
    ASSUME FloodInv, NEW t \in Threads, NEW i \in Ips, table' = Forget(t, i),
           UNCHANGED <<tick, passed, wrapped>>
    PROVE  /\ table' \in [Threads -> [Ips -> Entries \cup {NoEntry}]]
           /\ \A u \in Threads, j \in Ips : Known(u, j)' =>
                 Known(u, j) /\ table'[u][j] = table[u][j] /\ ~(u = t /\ j = i)
           /\ CountedOK' /\ AtMostCount'
           /\ Total(table') <= Total(table)
<1>1. \A u \in Threads, j \in Ips :
         table'[u][j] = IF u = t /\ j = i THEN NoEntry ELSE table[u][j]
  BY DEF Forget, FloodInv, TablesOK
<1>2. table' \in [Threads -> [Ips -> Entries \cup {NoEntry}]]
  BY DEF Forget, FloodInv, TablesOK
<1>3. InTables(table') \subseteq InTables(table)
  BY <1>1 DEF InTables
<1> QED BY <1>1, <1>2, <1>3, FewerEntries DEF Known, FloodInv, CountedOK, AtMostCount

LEMMA DropStep ==
    ASSUME FloodInv, NEW t \in Threads, NEW i \in Ips, DropAtCap(t, i)
    PROVE  FloodInv'
<1>1. table' = Forget(t, i) /\ UNCHANGED <<tick, entering, passed, wrapped>>
  BY DEF DropAtCap
<1>2. TablesOK'
  BY <1>1, ForgetStep DEF FloodInv, TablesOK, TablesTypeOK
<1>3. RoomLeft'
  <2>1. Total(table') <= Total(table) /\ Entering' = Entering
    BY <1>1, ForgetStep DEF Entering
  <2> QED BY <2>1, TablesFinite, EnteringFinite, FloodAssumption DEF FloodInv, RoomLeft
<1> QED BY <1>1, <1>2, <1>3, ForgetStep DEF FloodInv

\* Whoever is let in found no more than the cap, so that all who are let in at
\* once exceed it by the number of threads.
LEMMA ClearStep ==
    ASSUME FloodInv, NEW t \in Threads, NEW i \in Ips, ClearForEntry(t, i)
    PROVE  FloodInv'
<1>1. /\ table' = Forget(t, i) /\ UNCHANGED <<tick, passed, wrapped>>
      /\ entering' = [entering EXCEPT ![t] = i] /\ ~Full(table')
  BY DEF ClearForEntry
<1>2. TablesOK'
  <2>1. \A u \in Threads : entering'[u] # NoIp =>
           (u = t /\ entering'[u] = i) \/ (u # t /\ entering'[u] = entering[u])
    BY <1>1 DEF FloodInv, TablesOK, TablesTypeOK
  <2>2. ~Known(t, i)'
    BY <1>1, ForgetStep
  <2> QED BY <1>1, <2>1, <2>2, ForgetStep DEF FloodInv, TablesOK, TablesTypeOK
<1>3. RoomLeft'
  <2>1. Total(table') \in Nat /\ Total(table') <= Cap
    BY <1>1, TablesFinite, FloodAssumption DEF Full
  <2>2. Entering' \subseteq Threads
    BY DEF Entering
  <2>3. Cardinality(Entering') \in Nat /\ Cardinality(Entering') <= Cardinality(Threads)
        /\ Cardinality(Threads) \in Nat
    BY <2>2, FloodAssumption, FS_Subset, FS_CardinalityType
  <2> QED BY <2>1, <2>3, FloodAssumption DEF RoomLeft
<1> QED BY <1>1, <1>2, <1>3, ForgetStep DEF FloodInv

LEMMA EnterStep ==
    ASSUME FloodInv, NEW t \in Threads, Enter(t)
    PROVE  FloodInv'
<1> DEFINE e == [time |-> tick, hits |-> 1]
<1>1. PICK i \in Ips : i = entering[t]
  BY DEF Enter, FloodInv, TablesOK, TablesTypeOK
<1>2. /\ table' = [table EXCEPT ![t][i] = e]
      /\ passed' = [passed EXCEPT ![t][i] = 1]
      /\ wrapped' = wrapped \ {<<t, i>>}
      /\ entering' = [entering EXCEPT ![t] = NoIp]
      /\ UNCHANGED tick /\ i # NoIp
  BY <1>1 DEF Enter
<1>3. e \in Entries /\ e # NoEntry /\ tick \in Nat
  BY FloodAssumption DEF Entries, FloodInv, TablesOK, TablesTypeOK
<1>4. e.time = tick /\ e.hits = 1
  OBVIOUS
<1> HIDE DEF e
<1>5. \A u \in Threads, j \in Ips :
         /\ table'[u][j] = IF u = t /\ j = i THEN e ELSE table[u][j]
         /\ passed'[u][j] = IF u = t /\ j = i THEN 1 ELSE passed[u][j]
         /\ ~(u = t /\ j = i) /\ <<u, j>> \in wrapped => <<u, j>> \in wrapped'
  BY <1>2 DEF FloodInv, TablesOK
<1>6. TablesOK'
  <2>1. table' \in [Threads -> [Ips -> Entries \cup {NoEntry}]]
    BY <1>2, <1>3 DEF FloodInv, TablesOK
  <2>2. passed' \in [Threads -> [Ips -> Nat]]
    BY <1>2 DEF FloodInv, TablesOK
  <2>3. \A u \in Threads : entering'[u] = IF u = t THEN NoIp ELSE entering[u]
    BY <1>2 DEF FloodInv, TablesOK, TablesTypeOK
  <2>4. TablesTypeOK'
    <3>1. tick' \in 0 .. MaxTick /\ entering' \in [Threads -> Ips \cup {NoIp}]
      BY <1>2 DEF FloodInv, TablesOK, TablesTypeOK
    <3>2. ASSUME NEW u \in Threads, NEW j \in Ips, Known(u, j)'
          PROVE  /\ table'[u][j].time \in 0 .. tick'
                 /\ table'[u][j].hits \in -HitsLimit .. HitsLimit - 1
      <4>1. CASE u = t /\ j = i
        <5>1. table'[u][j] = e /\ tick' = tick
          BY <1>2, <1>5, <4>1
        <5>2. tick \in 0 .. tick /\ 1 \in -HitsLimit .. HitsLimit - 1
          BY <1>3, FloodAssumption
        <5> QED BY <1>4, <5>1, <5>2
      <4>2. CASE ~(u = t /\ j = i)
        <5>1. table'[u][j] = table[u][j] /\ tick' = tick
          BY <1>2, <1>5, <4>2
        <5>2. Known(u, j)
          BY <3>2, <5>1 DEF Known
        <5>3. /\ table[u][j].time \in 0 .. tick
              /\ table[u][j].hits \in -HitsLimit .. HitsLimit - 1
          BY <5>2 DEF FloodInv, TablesOK, TablesTypeOK
        <5> QED BY <5>1, <5>3
      <4> QED BY <4>1, <4>2
    <3>3. ASSUME NEW u \in Threads, entering'[u] # NoIp
          PROVE  table'[u][entering'[u]] = NoEntry
      <4>1. u # t /\ entering'[u] = entering[u] /\ entering[u] \in Ips
        BY <2>3, <3>3 DEF FloodInv, TablesOK, TablesTypeOK
      <4> QED BY <1>5, <3>3, <4>1, ZenonT(60) DEF FloodInv, TablesOK, TablesTypeOK, Known
    <3> QED BY <3>1, <3>2, <3>3 DEF TablesTypeOK, Known
  <2> QED BY <2>1, <2>2, <2>4 DEF TablesOK
<1>7. CountedOK'
  BY <1>4, <1>5 DEF FloodInv, CountedOK, Known
<1>8. AtMostCount'
  <2> SUFFICES ASSUME NEW u \in Threads, NEW j \in Ips
               PROVE  passed'[u][j] <= Count \/ <<u, j>> \in wrapped'
    BY DEF AtMostCount
  <2>1. passed[u][j] <= Count \/ <<u, j>> \in wrapped
    BY DEF FloodInv, AtMostCount
  <2> QED BY <1>5, <2>1, FloodAssumption
<1>9. RoomLeft'
  <2>1. InTables(table') \subseteq InTables(table) \cup {<<t, i>>}
    BY <1>5 DEF InTables
  <2>2. Total(table') <= Total(table) + 1
    <3>a. IsFiniteSet(InTables(table)) /\ Cardinality(InTables(table)) \in Nat
      BY TablesFinite
    <3> DEFINE more == InTables(table) \cup {<<t, i>>}
    <3>b. IsFiniteSet(more) /\ (Cardinality(more) = Cardinality(InTables(table))
                                 \/ Cardinality(more) = Cardinality(InTables(table)) + 1)
      BY <3>a, FS_AddElement
    <3>1. /\ IsFiniteSet(InTables(table) \cup {<<t, i>>})
          /\ Cardinality(InTables(table) \cup {<<t, i>>}) <= Cardinality(InTables(table)) + 1
      BY <3>a, <3>b
    <3>2. Cardinality(InTables(table')) <= Cardinality(InTables(table) \cup {<<t, i>>})
      BY <2>1, <3>1, FS_Subset
    <3>3. Cardinality(InTables(table) \cup {<<t, i>>}) \in Nat
      BY <3>1, FS_CardinalityType
    <3>4. /\ Total(table') = Cardinality(InTables(table')) /\ Total(table') \in Nat
          /\ Total(table) = Cardinality(InTables(table)) /\ Total(table) \in Nat
      BY TablesFinite
    <3> QED BY <3>1, <3>2, <3>3, <3>4
  <2>3. Entering' = Entering \ {t} /\ t \in Entering
    BY <1>1, <1>2 DEF Entering, FloodInv, TablesOK, TablesTypeOK
  <2>4. Cardinality(Entering') = Cardinality(Entering) - 1
    BY <2>3, EnteringFinite, FS_RemoveElement
  <2>5. Total(table') \in Nat /\ Total(table) \in Nat
    BY TablesFinite
  <2> QED BY <2>2, <2>4, <2>5, EnteringFinite, FloodAssumption DEF FloodInv, RoomLeft
<1> QED BY <1>6, <1>7, <1>8, <1>9 DEF FloodInv

LEMMA FloodInvStep == FloodInv /\ [TablesNext]_tableVars => FloodInv'
<1> SUFFICES ASSUME FloodInv, [TablesNext]_tableVars PROVE FloodInv'
  OBVIOUS
<1>1. CASE Tick
  <2>1. tick' = tick + 1 /\ tick' \in 0 .. MaxTick /\ tick \in 0 .. MaxTick
        /\ UNCHANGED <<table, entering, passed, wrapped>>
    BY <1>1, FloodAssumption DEF Tick, FloodInv, TablesOK, TablesTypeOK
  <2>2. \A n \in 0 .. tick : n \in 0 .. tick'
    BY <2>1
  <2>3. TablesTypeOK'
    BY <2>1, <2>2 DEF FloodInv, TablesOK, TablesTypeOK, Known
  <2> QED BY <2>1, <2>3 DEF FloodInv, TablesOK, CountedOK, AtMostCount, RoomLeft,
                            Entering, Known
<1>2. CASE UNCHANGED tableVars
  BY <1>2 DEF tableVars, FloodInv, TablesOK, TablesTypeOK, CountedOK, AtMostCount, RoomLeft,
              Entering, Known
<1> QED BY <1>1, <1>2, CountHitStep, DropStep, ClearStep, EnterStep DEF TablesNext

LEMMA FloodInvHolds == TablesSpec => []FloodInv
BY FloodInvInit, FloodInvStep, PTL DEF TablesSpec

\* ServerThread::isFlooder lets no more than the limit of connections of an
\* address through in one window, unless the 16-bit count of the entry has gone
\* round.
THEOREM CountCorrect == TablesSpec => []AtMostCount
<1>1. FloodInv => AtMostCount
  BY DEF FloodInv
<1> QED BY <1>1, FloodInvHolds, PTL

\* The cap that isFlooder compares with the sum of all tables is exceeded by one
\* entry per thread at most, however the threads interleave between the check
\* and the entry.
THEOREM CapCorrect == TablesSpec => []TotalCapped
<1>1. FloodInv => TotalCapped
  <2> SUFFICES ASSUME FloodInv PROVE TotalCapped
    OBVIOUS
  <2>1. Total(table) \in Nat
    BY TablesFinite
  <2> QED BY <2>1, EnteringFinite, FloodAssumption DEF FloodInv, RoomLeft, TotalCapped
<1> QED BY <1>1, FloodInvHolds, PTL
=============================================================================
