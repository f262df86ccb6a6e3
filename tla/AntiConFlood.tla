---------------------------- MODULE AntiConFlood ----------------------------
(***************************************************************************)
(* ServerThread::isFlooder: each accept thread counts the connections of   *)
(* an address in a table of its own; the total of the tables is capped.    *)
(* The threads run concurrently and read each other's sizes, so a thread   *)
(* may check the cap and enter the address later.                          *)
(***************************************************************************)
EXTENDS Integers, FiniteSets

CONSTANTS
    Threads, Ips,
    Count, Window,   \* SETSHORT_NEW_CONNECTIONS_COUNT and _TIME
    Cap,             \* 100000
    HitsLimit,       \* 2^15: m_ui16Hits is an int16_t
    MaxTick,         \* bound: seconds
    NoEntry, NoIp

Entries == [time : Nat, hits : -HitsLimit .. HitsLimit - 1]

ASSUME FloodAssumption ==
    /\ Count \in Nat \ {0} /\ Window \in Nat \ {0} /\ Cap \in Nat
    /\ HitsLimit \in Nat /\ HitsLimit > Count
    /\ MaxTick \in Nat
    /\ NoIp \notin Ips /\ NoEntry \notin Entries
    /\ IsFiniteSet(Threads) /\ IsFiniteSet(Ips)

VARIABLES
    tick,       \* ServerManager::m_ui64ActualTick
    table,      \* m_AntiFloodMap of each thread
    entering,   \* the address a thread has cleared for entry, or NoIp
    passed,     \* history: connections an entry has let through, up to Count + 1
    wrapped     \* history: the entries whose hits have gone round

tableVars == <<tick, table, entering, passed, wrapped>>

TablesInit ==
    /\ tick = 0
    /\ table = [t \in Threads |-> [i \in Ips |-> NoEntry]]
    /\ entering = [t \in Threads |-> NoIp]
    /\ passed = [t \in Threads |-> [i \in Ips |-> 0]]
    /\ wrapped = {}

Known(t, i) == table[t][i] # NoEntry
InWindow(t, i) == Known(t, i) /\ table[t][i].time + Window >= tick

\* GetTotalAntiFloodCount
Total(tb) == Cardinality({e \in Threads \X Ips : tb[e[1]][e[2]] # NoEntry})

NextHit(h) == IF h + 1 = HitsLimit THEN -HitsLimit ELSE h + 1

\* mutant: one connection too many
FloodsLate(h) == h > Count + 1

Floods(h) == h > Count

\* The address has an entry whose window is still open.
CountHit(t, i) ==
    /\ entering[t] = NoIp /\ InWindow(t, i)
    /\ LET old == table[t][i].hits  h == NextHit(old) IN
       /\ table' = [table EXCEPT ![t][i].hits = h]
       /\ wrapped' = IF h < old THEN wrapped \cup {<<t, i>>} ELSE wrapped
       /\ IF Floods(h) \/ passed[t][i] > Count
            THEN UNCHANGED passed
            ELSE passed' = [passed EXCEPT ![t][i] = @ + 1]
    /\ UNCHANGED <<tick, entering>>

\* mutant: the cap is not looked at
FullNever(tb) == FALSE

Full(tb) == Total(tb) > Cap

\* An entry whose window is over is erased; then the cap decides whether the
\* address may be entered.
Forget(t, i) == [table EXCEPT ![t][i] = NoEntry]

DropAtCap(t, i) ==
    /\ entering[t] = NoIp /\ ~InWindow(t, i)
    /\ table' = Forget(t, i)
    /\ Full(Forget(t, i))
    /\ UNCHANGED <<tick, entering, passed, wrapped>>

ClearForEntry(t, i) ==
    /\ entering[t] = NoIp /\ ~InWindow(t, i)
    /\ table' = Forget(t, i)
    /\ ~Full(Forget(t, i))
    /\ entering' = [entering EXCEPT ![t] = i]
    /\ UNCHANGED <<tick, passed, wrapped>>

Enter(t) ==
    /\ entering[t] # NoIp
    /\ LET i == entering[t] IN
       /\ table' = [table EXCEPT ![t][i] = [time |-> tick, hits |-> 1]]
       /\ passed' = [passed EXCEPT ![t][i] = 1]
       /\ wrapped' = wrapped \ {<<t, i>>}
    /\ entering' = [entering EXCEPT ![t] = NoIp]
    /\ UNCHANGED tick

Tick ==
    /\ tick < MaxTick
    /\ tick' = tick + 1
    /\ UNCHANGED <<table, entering, passed, wrapped>>

TablesNext ==
    \/ \E t \in Threads, i \in Ips :
        CountHit(t, i) \/ DropAtCap(t, i) \/ ClearForEntry(t, i)
    \/ \E t \in Threads : Enter(t)
    \/ Tick

TablesSpec == TablesInit /\ [][TablesNext]_tableVars
-----------------------------------------------------------------------------
\* The variables have their types, no entry is younger than the clock, and a
\* thread enters an address its own table does not know: emplace would leave
\* an old entry as it is.
TablesTypeOK ==
    /\ tick \in 0 .. MaxTick
    /\ \A t \in Threads, i \in Ips : Known(t, i) =>
        /\ table[t][i].time \in 0 .. tick
        /\ table[t][i].hits \in -HitsLimit .. HitsLimit - 1
    /\ entering \in [Threads -> Ips \cup {NoIp}]
    /\ \A t \in Threads : entering[t] # NoIp => ~Known(t, entering[t])

\* Settings.pxt: the deflood connections count. One window of an entry lets at
\* most that many connections of the address through, unless so many arrive that
\* the 16-bit count goes round.
AtMostCount ==
    \A t \in Threads, i \in Ips : passed[t][i] <= Count \/ <<t, i>> \in wrapped

\* The tables together never outgrow the cap by more than one entry per thread,
\* although the cap is checked and used in different moments.
TotalCapped == Total(table) <= Cap + Cardinality(Threads)
=============================================================================
