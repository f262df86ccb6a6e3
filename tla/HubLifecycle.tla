---------------------------- MODULE HubLifecycle ----------------------------
(***************************************************************************)
(* The life of the hub as its scripts see it: ServerManager::Start, Stop   *)
(* and FinalStop, the event queue through which a restart, a shutdown or   *)
(* the stop of a script is asked for, the commands of the operators that   *)
(* manage scripts, and the signal that ends the program.                   *)
(***************************************************************************)
EXTENDS ScriptManager

VARIABLES
    hub,         \* serving, closed (everything saved) or exited
    isRestart,   \* m_bIsRestart
    isClose,     \* m_bIsClose
    terminated,  \* m_bServerTerminated
    both         \* history: one restart and one shutdown in the same batch

hubVars == <<hub, isRestart, isClose, terminated, both>>
vars == <<scriptVars, hubVars>>

Serve == [do |-> "serve"]
Process(batch) == [do |-> "process", batch |-> batch]
Final == [do |-> "final"]

StartTasks == IF scripting THEN <<StartFrom(1), Serve>> ELSE <<Serve>>
EndTasks == <<Begin("exit", FALSE), Final>>

HubInit ==
    /\ ScriptInit /\ work = StartTasks
    /\ hub = "serving"
    /\ isRestart = FALSE /\ isClose = FALSE /\ terminated = FALSE
    /\ both = FALSE

Idle == ~Ended /\ work = <<>> /\ hub = "serving"
-----------------------------------------------------------------------------
(* What comes from outside, between two steps of the loop.                 *)

Outside(tasks) ==
    /\ Idle
    /\ work' = tasks
    /\ UNCHANGED <<listVars, roundVars, enabled, live, scripting, up, events,
                   unruly, broken, hubVars>>

UserActs ==
    \E kind \in {"arrival", "connected", "disconnected"} :
        Outside(<<Begin(kind, FALSE)>>)

TimerFires == \E x \in live : Outside(<<Call(x, "timer")>>)

(* !restartscripts, !restartscript, !stopscript, !startscript.             *)
MayManage == Idle /\ scripting

OperatorRestarts == MayManage /\ Outside(RestartTasks)

OperatorStops ==
    /\ MayManage
    /\ \E x \in live \cap enabled, disable \in BOOLEAN :
          StopScript(x, disable,
                     IF disable THEN <<>> ELSE <<StartOf(x, TRUE)>>)
    /\ UNCHANGED <<unruly, hubVars>>

OperatorStarts ==
    /\ MayManage
    /\ \E x \in Scripts : x \notin live \cap enabled /\ StartScript(x)
    /\ UNCHANGED <<unruly, hubVars>>

(* !restart.                                                               *)
OperatorRestartsHub ==
    /\ Idle
    /\ AddNormal([id |-> "RESTART"])
    /\ UNCHANGED <<listVars, roundVars, enabled, live, scripting, up, work,
                   unruly, broken, hubVars>>
-----------------------------------------------------------------------------
(* EventQueue::ProcessEvents and the end of ServiceLoop::Looper.           *)

ProcessEvents ==
    /\ Idle /\ events # <<>>
    /\ work' = <<Process(events)>> /\ events' = <<>>
    /\ UNCHANGED <<listVars, roundVars, enabled, live, scripting, up, unruly,
                   broken, hubVars>>

Event == Head(Head(work).batch)
AtEvent(id) ==
    /\ At("process") /\ Head(work).batch # <<>>
    /\ Event.id = id
Then == Process(Tail(Head(work).batch))

Restart ==
    /\ AtEvent("RESTART")
    /\ isRestart' = TRUE /\ terminated' = TRUE
    /\ both' = (both \/ isClose)
    /\ Replace(<<Then>>)
    /\ UNCHANGED <<listVars, roundVars, enabled, live, scripting, up, events,
                   unruly, broken, hub, isClose>>

Shutdown ==
    /\ AtEvent("SHUTDOWN")
    /\ Replace(<<Then>>)
    /\ IF isClose THEN UNCHANGED <<isClose, terminated, both>>
       ELSE /\ isClose' = TRUE /\ terminated' = TRUE
            /\ both' = (both \/ isRestart)
    /\ UNCHANGED <<listVars, roundVars, enabled, live, scripting, up, events,
                   unruly, broken, hub, isRestart>>

StopScripting ==
    /\ AtEvent("STOP_SCRIPTING")
    /\ scripting' = FALSE
    /\ Replace((IF scripting THEN <<Begin("exit", TRUE), StopAll>> ELSE <<>>)
               \o <<Then>>)
    /\ UNCHANGED <<listVars, roundVars, enabled, live, up, events, unruly,
                   broken, hubVars>>

RestartScripts ==
    /\ AtEvent("RSTSCRIPTS")
    /\ Replace(RestartTasks \o <<Then>>)
    /\ UNCHANGED <<listVars, roundVars, enabled, live, scripting, up, events,
                   unruly, broken, hub, isRestart, isClose, terminated, both>>

StopOrRestartScript ==
    /\ \/ AtEvent("RSTSCRIPT")
       \/ AtEvent("STOPSCRIPT")
    /\ LET x == Event.s
           disable == Event.id = "STOPSCRIPT"
       IN IF x \in live \cap enabled
          THEN /\ enabled' = IF disable THEN enabled \ {x} ELSE enabled
               /\ running' = RemoveRunningScript(x)
               /\ Replace(StopTasks(x)
                          \o (IF disable THEN <<>> ELSE <<StartOf(x, TRUE)>>)
                          \o <<Then>>)
          ELSE UNCHANGED <<enabled, running>> /\ Replace(<<Then>>)
    /\ UNCHANGED <<table, roundVars, live, scripting, up, events, unruly,
                   broken, hubVars>>

AfterRestart == IF isRestart THEN EndTasks ELSE <<>>    \* mutant: the wrong flag
AfterBatch == IF terminated THEN EndTasks ELSE <<>>

BatchDone ==
    /\ At("process") /\ Head(work).batch = <<>>
    /\ Replace(AfterBatch)
    /\ UNCHANGED <<listVars, roundVars, enabled, live, scripting, up, events,
                   unruly, broken, hubVars>>
-----------------------------------------------------------------------------
(* Start and FinalStop.                                                    *)

StartServing ==
    /\ At("serve")
    /\ up' = TRUE /\ terminated' = FALSE
    /\ Replace(<<Begin("startup", FALSE)>>)
    /\ UNCHANGED <<listVars, roundVars, enabled, live, scripting, events,
                   unruly, broken, hub, isRestart, isClose, both>>

(* The event queue is destroyed with what it holds.  Start may find no     *)
(* port to listen on.                                                      *)
FinalStop ==
    /\ At("final")
    /\ IF scripting THEN Stops ELSE UNCHANGED <<live, broken, listVars>>
    /\ up' = FALSE /\ events' = <<>>
    /\ isRestart' = FALSE
    /\ \/ /\ isRestart
          /\ work' = StartTasks /\ UNCHANGED hub
       \/ /\ isRestart
          /\ work' = <<>> /\ hub' = "exited"
       \/ /\ ~isRestart
          /\ work' = <<>> /\ hub' = "closed"
    /\ UNCHANGED <<roundVars, enabled, scripting, unruly, isClose,
                   terminated, both>>

(* The signal is looked at after a step of the loop.  A hub that is        *)
(* closing already is left as it is.                                       *)
Signal ==
    /\ Idle
    /\ IF isClose
       THEN hub' = "exited" /\ UNCHANGED <<isClose, terminated, work>>
       ELSE /\ isClose' = TRUE /\ terminated' = TRUE
            /\ work' = EndTasks /\ UNCHANGED hub
    /\ UNCHANGED <<listVars, roundVars, enabled, live, scripting, up, events,
                   unruly, broken, isRestart, both>>
-----------------------------------------------------------------------------
HubStep ==
    \/ UserActs \/ TimerFires \/ OperatorRestarts \/ OperatorStops
    \/ OperatorStarts \/ OperatorRestartsHub \/ ProcessEvents \/ Restart
    \/ Shutdown \/ StopScripting \/ RestartScripts \/ StopOrRestartScript
    \/ BatchDone \/ StartServing \/ FinalStop \/ Signal

Next == HubStep \/ (ScriptStep /\ UNCHANGED hubVars)

Spec == HubInit /\ [][Next]_vars
-----------------------------------------------------------------------------
(* Properties.                                                             *)

(* Every variable has a value the code can give it: the table is an        *)
(* ordering of the scripts whatever moves are made in it.                  *)
TypeOK ==
    /\ table \in SetToSeqs(Scripts)
    /\ enabled \subseteq Scripts /\ live \subseteq Scripts
    /\ running \in Seq(Scripts) /\ processed \subseteq Scripts
    /\ moved \in BOOLEAN /\ scripting \in BOOLEAN /\ up \in BOOLEAN
    /\ events \in Seq(Events)
    /\ work \in Seq(ScriptTasks \cup {Serve, Final}
                     \cup [do : {"process"}, batch : Seq(Events)])
    /\ unruly \in BOOLEAN /\ broken \in BOOLEAN
    /\ hub \in {"serving", "closed", "exited"}
    /\ isRestart \in BOOLEAN /\ isClose \in BOOLEAN
    /\ terminated \in BOOLEAN /\ both \in BOOLEAN

(* m_RunningScriptList is the table without the scripts that have no Lua   *)
(* state, and these are all enabled, whenever no Lua code runs: through    *)
(* starts, stops, failures and moves, asked for by callbacks, operators    *)
(* and events.  (The command !startscript takes a script that is not       *)
(* enabled for one that does not run.)                                     *)
ListExact ==
    work = <<>> /\ ~unruly =>
        /\ ToSet(running) = live /\ InOrder(running, table)
        /\ live \subseteq enabled

(* A walk over the running list calls each script of its snapshot that     *)
(* keeps its Lua state: the marks of PrepareMove never make it pass over   *)
(* one, though callbacks start, stop and move scripts meanwhile.  (Those   *)
(* of a move from a coroutine do, since no script has its Lua state.)      *)
RoundsExact ==
    ~unruly => \A i \in DOMAIN work :
        work[i].do = "round" => work[i].due \subseteq ToSet(work[i].rest)

(* lua_close is not called on a state whose code is on the stack: who asks *)
(* for its own end is deferred to an event, all others are not running.    *)
(* (From a coroutine a script is not known to be the caller, and the state *)
(* is closed under it.)                                                    *)
StatesOutliveCalls == ~unruly => ~broken

(* A hub that was told to shut down does not go on serving, which it would *)
(* do for good: later shutdowns are ignored and a signal then exits        *)
(* without saving.  (It does if it was told to restart as well.)           *)
RunsUnlessClosing == Idle /\ isClose => both
=============================================================================
