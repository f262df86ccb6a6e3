--------------------------- MODULE ScriptManager ---------------------------
(***************************************************************************)
(* The Lua scripts of the hub and the list of the running ones             *)
(* (ScriptManager, ScriptStart, ScriptStop and the library ScriptMan).     *)
(* Everything runs on the main thread, yet Lua code called from a walk     *)
(* over the list starts, stops and moves scripts, and may make the hub     *)
(* walk the list again.                                                    *)
(*                                                                         *)
(* What is left to do on the C++ stack is the sequence work, its head      *)
(* first: a "call" is Lua code that runs, a "round" a walk over a snapshot *)
(* of the running list.  The files of the scripts neither come nor go, so  *)
(* that the table keeps its scripts, and no script enables scripting again *)
(* while it is being stopped.                                              *)
(***************************************************************************)
EXTENDS Integers, Sequences, FiniteSets, SequencesExt

CONSTANTS
    Scripts,    \* the scripts found in the directory
    MaxDepth,   \* bound: Lua calls that may be on the stack at once
    MaxPending, \* bound: Lua calls on the stack, events in the queue and left
                \* in the batch; with an event there no call is made in a call
    GoesOn      \* bound: whether a history goes on after an unruly step

ASSUME ScriptAssumption ==
    /\ IsFiniteSet(Scripts)
    /\ MaxDepth \in Nat \ {0} /\ MaxPending \in Nat
    /\ GoesOn \in BOOLEAN

VARIABLES
    table,      \* m_ppScriptTable
    enabled,    \* the scripts with m_bEnabled
    live,       \* the scripts with a Lua state, m_pLua
    running,    \* m_RunningScriptList
    moved,      \* m_bMoved
    processed,  \* the scripts with m_bProcessed
    scripting,  \* SETBOOL_ENABLE_SCRIPTING
    up,         \* m_bServerRunning
    events,     \* m_NormalEvents
    work,       \* what is left to do, the innermost first
    unruly,     \* history: scripts were managed where the code does not expect it
    broken      \* history: a Lua state was closed while its code was running

listVars == <<table, running>>
roundVars == <<moved, processed>>
scriptVars == <<listVars, roundVars, enabled, live, scripting, up, events,
                work, unruly, broken>>

Whys == {"main", "startup", "exit", "last", "arrival", "connected",
         "disconnected", "timer"}
RoundKinds == {"startup", "exit", "arrival", "connected", "disconnected"}
OnceOnly == {"RESTART", "SHUTDOWN", "RSTSCRIPTS", "STOP_SCRIPTING"}
OfScript == {"RSTSCRIPT", "STOPSCRIPT"}
Events == [id : OnceOnly] \cup [id : OfScript, s : Scripts]

(* Tasks.  Nothing follows once a state in use was closed: what the program *)
(* then does is undefined.                                                 *)
Call(x, why) == [do |-> "call", s |-> x, why |-> why]
StartOf(x, alone) == [do |-> "start", s |-> x, alone |-> alone]
Started(x, alone) == [do |-> "started", s |-> x, alone |-> alone]
StopOf(x) == [do |-> "stop", s |-> x]
StartFrom(i) == [do |-> "startFrom", i |-> i]
StopAll == [do |-> "stopAll"]
Begin(kind, forced) == [do |-> "begin", kind |-> kind, forced |-> forced]
Round(kind, rest, due) ==
    [do |-> "round", kind |-> kind, rest |-> rest, due |-> due]

Ended == broken \/ (unruly /\ ~GoesOn)
At(do) == ~Ended /\ work # <<>> /\ Head(work).do = do
Replace(tasks) == work' = tasks \o Tail(work)
Push(tasks) == work' = tasks \o work

Frames == {i \in DOMAIN work : work[i].do = "call"}
Depth == Cardinality(Frames)
Caller == Head(work).s
Nested == Depth > 1
Batched == IF work # <<>> /\ Last(work).do = "process"
           THEN Len(Last(work).batch) ELSE 0
Pending == Len(events) + Batched
Room == Depth + Pending < MaxPending
MayNest == Depth < MaxDepth /\ Pending = 0
InRound == \E i \in DOMAIN work : work[i].do = "round"
UnderMain == \E i \in Frames : work[i].why = "main"

ScriptInit ==
    /\ table \in SetToSeqs(Scripts)
    /\ enabled \in SUBSET Scripts
    /\ live = {} /\ running = <<>>
    /\ moved = FALSE /\ processed = {}
    /\ scripting \in BOOLEAN /\ up = FALSE
    /\ events = <<>>
    /\ unruly = FALSE /\ broken = FALSE

ScriptTasks ==
    [do : {"call"}, s : Scripts, why : Whys]
    \cup [do : {"start", "started"}, s : Scripts, alone : BOOLEAN]
    \cup [do : {"stop"}, s : Scripts]
    \cup [do : {"startFrom"}, i : 1..(Cardinality(Scripts) + 1)]
    \cup [do : {"stopAll"}]
    \cup [do : {"begin"}, kind : RoundKinds, forced : BOOLEAN]
    \cup [do : {"round"}, kind : RoundKinds, rest : Seq(Scripts),
          due : SUBSET Scripts]
-----------------------------------------------------------------------------
(* The running list.                                                       *)

PlaceIn(tbl, x) == CHOOSE i \in DOMAIN tbl : tbl[i] = x
Place(x) == PlaceIn(table, x)

AddRunningScriptLast(x) == Append(running, x)    \* mutant: in order of starting

(* Inserted before the first running script that is later in the table.    *)
AddRunningScript(x) ==
    LET later == {i \in DOMAIN running : Place(running[i]) > Place(x)}
    IN IF later = {} THEN Append(running, x)
                     ELSE InsertAt(running, Min(later), x)

RemoveRunningScript(x) == RemoveFirst(running, x)

(* RebuildRunningList: those with a Lua state, in the order of the table.  *)
InOrder(list, tbl) ==
    \A i, j \in DOMAIN list : i < j => PlaceIn(tbl, list[i]) < PlaceIn(tbl, list[j])
RunningOf(tbl) == CHOOSE list \in SetToSeqs(live) : InOrder(list, tbl)

AddNormal(e) ==
    IF e.id \in OnceOnly /\ e \in ToSet(events)
    THEN UNCHANGED events
    ELSE Room /\ events' = Append(events, e)

(* The state of x is closed; no walk owes x a call any more.               *)
Forgets(tasks, xs) ==
    [i \in DOMAIN tasks |-> IF tasks[i].do = "round"
                            THEN [tasks[i] EXCEPT !.due = @ \ xs]
                            ELSE tasks[i]]
RunsCodeOf(xs) == \E i \in Frames : work[i].s \in xs
-----------------------------------------------------------------------------
(* Starting and stopping.                                                  *)

ScriptStart ==
    /\ At("start")
    /\ live' = live \cup {Caller}
    /\ Replace(<<Call(Caller, "main"), Started(Caller, Head(work).alone)>>)
    /\ UNCHANGED <<listVars, roundVars, enabled, scripting, up, events,
                   unruly, broken>>

ScriptStarted ==
    /\ At("started")
    /\ running' = AddRunningScript(Caller)
    /\ Replace(IF up /\ Head(work).alone THEN <<Call(Caller, "startup")>>
                                         ELSE <<>>)
    /\ UNCHANGED <<table, roundVars, enabled, live, scripting, up, events,
                   unruly, broken>>

(* luaL_dofile failed: the state is closed and the script disabled.        *)
MainFails ==
    /\ At("call") /\ Head(work).why = "main"
    /\ live' = live \ {Caller} /\ enabled' = enabled \ {Caller}
    /\ work' = Tail(Tail(work))
    /\ UNCHANGED <<listVars, roundVars, scripting, up, events, unruly,
                   broken>>

ScriptStop ==
    /\ At("stop")
    /\ live' = live \ {Caller}
    /\ broken' = (broken \/ RunsCodeOf({Caller}))
    /\ work' = Forgets(Tail(work), {Caller})
    /\ UNCHANGED <<listVars, roundVars, enabled, scripting, up, events,
                   unruly>>

(* ScriptManager::Start, the loop over the table.                          *)
StartNext ==
    /\ At("startFrom")
    /\ LET i == Head(work).i
       IN Replace(IF i > Len(table) THEN <<>>
                  ELSE IF table[i] \in enabled
                       THEN <<StartOf(table[i], FALSE), StartFrom(i + 1)>>
                       ELSE <<StartFrom(i + 1)>>)
    /\ UNCHANGED <<listVars, roundVars, enabled, live, scripting, up, events,
                   unruly, broken>>

(* ScriptManager::Stop.                                                    *)
Stops ==
    /\ live' = live \ ToSet(running)
    /\ broken' = (broken \/ RunsCodeOf(ToSet(running)))
    /\ running' = <<>>
    /\ UNCHANGED table

StopRunning ==
    /\ At("stopAll")
    /\ Stops
    /\ work' = Forgets(Tail(work), ToSet(running))
    /\ UNCHANGED <<roundVars, enabled, scripting, up, events, unruly>>

StopTasks(x) == IF up THEN <<Call(x, "last"), StopOf(x)>> ELSE <<StopOf(x)>>
RestartTasks == <<Begin("exit", FALSE), StopAll, StartFrom(1),
                  Begin("startup", FALSE)>>

(* StopScript, and StartScript after it when it is a restart.              *)
StopScript(x, disable, then) ==
    /\ enabled' = IF disable THEN enabled \ {x} ELSE enabled
    /\ running' = RemoveRunningScript(x)
    /\ Push(StopTasks(x) \o then)
    /\ UNCHANGED <<table, roundVars, live, scripting, up, events, broken>>

StartScript(x) ==
    /\ enabled' = enabled \cup {x}
    /\ Push(<<StartOf(x, TRUE)>>)
    /\ UNCHANGED <<listVars, roundVars, live, scripting, up, events, broken>>
-----------------------------------------------------------------------------
(* Walks over the running list: OnStartup, OnExit, Arrival, UserConnected, *)
(* UserDisconnected.                                                       *)

BeginRound ==
    /\ At("begin")
    /\ IF scripting \/ Head(work).forced
       THEN /\ moved' = FALSE
            /\ Replace(<<Round(Head(work).kind, running,
                               ToSet(running) \cap live)>>)
            /\ unruly' = (unruly \/ (moved /\ InRound))
       ELSE UNCHANGED <<moved, unruly>> /\ Replace(<<>>)
    /\ UNCHANGED <<listVars, processed, enabled, live, scripting, up, events,
                   broken>>

IsCalled(x) == x \in live /\ (~moved \/ x \notin processed)

NextScript ==
    /\ At("round")
    /\ LET r == Head(work)
           x == Head(r.rest)
           others == Tail(r.rest)
       IN IF r.rest = <<>> THEN UNCHANGED processed /\ Replace(<<>>)
          ELSE IF IsCalled(x)
          THEN /\ processed' = processed \cup {x}
               /\ Replace(<<Call(x, r.kind),
                            Round(r.kind, others, r.due \ {x})>>)
          ELSE /\ UNCHANGED processed
               /\ Replace(<<Round(r.kind, others, r.due)>>)
    /\ UNCHANGED <<listVars, moved, enabled, live, scripting, up, events,
                   unruly, broken>>
-----------------------------------------------------------------------------
(* What the Lua code that runs may do.                                     *)

Returns ==
    /\ At("call")
    /\ work' = Tail(work)
    /\ UNCHANGED <<listVars, roundVars, enabled, live, scripting, up, events,
                   unruly, broken>>

(* TRUE ends the walk; of a connected user the scripts are then told that  *)
(* it has gone.                                                            *)
ReturnsTrue ==
    /\ At("call") /\ Head(work).why \in {"arrival", "connected"}
    /\ work' = (IF Head(work).why = "connected"
                THEN <<Begin("disconnected", FALSE)>> ELSE <<>>)
               \o Tail(Tail(work))
    /\ UNCHANGED <<listVars, roundVars, enabled, live, scripting, up, events,
                   unruly, broken>>

(* An error in a callback, with STOP_SCRIPT_ON_ERROR or a failed OnError.  *)
CallbackFails ==
    /\ At("call") /\ Head(work).why # "main"
    /\ AddNormal([id |-> "STOPSCRIPT", s |-> Caller])
    /\ work' = Tail(work)
    /\ UNCHANGED <<listVars, roundVars, enabled, live, scripting, up, unruly,
                   broken>>

(* Core.Restart, Core.Shutdown, os.exit, ScriptMan.Restart, SetMan.SetBool. *)
AsksHub ==
    /\ At("call")
    /\ \E id \in OnceOnly : AddNormal([id |-> id])
    /\ UNCHANGED <<listVars, roundVars, enabled, live, scripting, up, work,
                   unruly, broken>>

(* A user is disconnected: the scripts are told at once.                   *)
DisconnectsUser ==
    /\ At("call") /\ up /\ MayNest
    /\ Push(<<Begin("disconnected", FALSE)>>)
    /\ UNCHANGED <<listVars, roundVars, enabled, live, scripting, up, events,
                   unruly, broken>>

(* A caller is known by its Lua state.  A coroutine has one of its own: the *)
(* call comes from the m_pLua of its script, own, or from no script's.     *)
PassedAll(own) == Len(running)    \* mutant: bBefore is never reset

Passed(own) ==
    LET callers == {i \in DOMAIN running : own /\ running[i] = Caller}
    IN IF callers = {} THEN Len(running) ELSE Min(callers)

(* Those the walk has passed, the caller included, are marked; all of them *)
(* if the caller is not found.                                             *)
PrepareMove(own) ==
    IF moved THEN UNCHANGED roundVars
    ELSE /\ moved' = TRUE
         /\ processed' = (processed \cup {running[i] : i \in 1..Passed(own)})
                         \ {running[i] : i \in (Passed(own) + 1)..Len(running)}

Swapped(i) == [table EXCEPT ![i] = table[i + 1], ![i + 1] = table[i]]

LuaMove ==
    /\ At("call")
    /\ \E i \in 1..(Len(table) - 1) : table' = Swapped(i)
    /\ \E own \in BOOLEAN :
          /\ PrepareMove(own)
          /\ unruly' = (unruly \/ Nested \/ Head(work).why \in {"main", "last"}
                               \/ (~own /\ InRound /\ ~moved))
    /\ running' = RunningOf(table')
    /\ UNCHANGED <<enabled, live, scripting, up, events, work, broken>>

LuaStartScript ==
    /\ At("call") /\ MayNest
    /\ \E x \in Scripts \ live : StartScript(x)
    /\ unruly' = (unruly \/ UnderMain)

DeferredNever(x, own) == FALSE    \* mutant: m_pLua == pLua is not tested

(* A script that stops or restarts itself does so later, by an event; but  *)
(* at once when it asks from a coroutine.                                  *)
Deferred(x, own) == own /\ x = Caller

LuaStopScript ==
    /\ At("call")
    /\ \E x \in live, id \in OfScript, own \in BOOLEAN :
          IF Deferred(x, own)
          THEN /\ AddNormal([id |-> id, s |-> x])
               /\ UNCHANGED <<listVars, roundVars, enabled, live, scripting,
                              up, work, unruly, broken>>
          ELSE /\ Depth <= MaxDepth /\ Pending = 0
               /\ StopScript(x, id = "STOPSCRIPT",
                             IF id = "STOPSCRIPT" THEN <<>>
                                                  ELSE <<StartOf(x, TRUE)>>)
               /\ unruly' = (unruly \/ Nested \/ (~own /\ x = Caller))
-----------------------------------------------------------------------------
ScriptStep ==
    \/ ScriptStart \/ ScriptStarted \/ MainFails \/ ScriptStop
    \/ StartNext \/ StopRunning \/ BeginRound \/ NextScript
    \/ Returns \/ ReturnsTrue \/ CallbackFails \/ AsksHub
    \/ DisconnectsUser \/ LuaMove \/ LuaStartScript \/ LuaStopScript
=============================================================================
