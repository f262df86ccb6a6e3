---------------------------- MODULE AcceptThread ----------------------------
(***************************************************************************)
(* The listening side of one port: the accept thread (ServerThread::Run),  *)
(* the commands the main thread gives it (Core.SuspendAccepts,             *)
(* Core.ResumeAccepts, a stop of the hub or of the port) and the queue of  *)
(* accepted sockets that it shares with the service loop.                  *)
(*                                                                         *)
(* accept() is external: it waits on the socket it was called with, a      *)
(* close of the descriptor by another thread does not wake it (the kernel  *)
(* keeps the socket while the call lasts) and a shutdown() of it does.     *)
(***************************************************************************)
EXTENDS Naturals, FiniteSets

CONSTANTS
    Clients,       \* clients that may connect, once each
    NoSocket,      \* accept() returned -1
    SuspendTimes,  \* the arguments of SuspendAccepts, 0 for "until resumed"
    AddedLate      \* the port was added by UpdateServers, not by Start

ASSUME AcceptAssumption ==
    /\ NoSocket \notin Clients
    /\ SuspendTimes \subseteq Nat
    /\ AddedLate \in BOOLEAN

VARIABLES
    pc,           \* where the accept thread is
    server,       \* m_Server is an open socket, not -1
    orphan,       \* a listening socket whose descriptor m_Server forgot
    suspendTime,  \* m_ui32SuspendTime
    suspended,    \* m_bSuspended
    terminated,   \* m_bTerminated
    active,       \* m_bActive
    iSec,         \* seconds slept in the current suspension
    s,            \* what accept() returned last
    place,        \* where each client's connection is
    hub,          \* the main thread: running, joining the thread, stopped
    wasSuspended  \* history: a script has suspended the port

socketVars == <<server, orphan>>
commandVars == <<suspendTime, suspended, terminated, wasSuspended>>
threadVars == <<pc, active, iSec, s>>
vars == <<threadVars, socketVars, commandVars, place, hub>>

Places == {"away", "held", "queued", "served", "closed", "leaked"}
Labels == {"None", "New", "Top", "Accept", "Returned", "Handle",
           "Suspend", "Sleep", "Listen", "Bind", "Done"}

Init ==
    /\ pc = IF AddedLate THEN "None" ELSE "New"
    /\ server = TRUE /\ orphan = FALSE
    /\ suspendTime = 0 /\ suspended = FALSE /\ terminated = FALSE
    /\ active = FALSE /\ iSec = 0 /\ s = NoSocket
    /\ place = [c \in Clients |-> "away"]
    /\ hub = "running" /\ wasSuspended = FALSE
-----------------------------------------------------------------------------
(* The accept thread.                                                      *)

Start ==
    /\ pc = "New"
    /\ pc' = "Top" /\ active' = TRUE
    /\ UNCHANGED <<iSec, s, socketVars, commandVars, place, hub>>

\* accept(-1) fails at once.
CallAccept ==
    /\ pc = "Top" /\ ~terminated
    /\ pc' = IF server THEN "Accept" ELSE "Returned"
    /\ s' = NoSocket
    /\ UNCHANGED <<active, iSec, socketVars, commandVars, place, hub>>

AcceptClient(c) ==
    /\ pc = "Accept" /\ place[c] = "away"
    /\ pc' = "Returned" /\ s' = c
    /\ place' = [place EXCEPT ![c] = "held"]
    /\ UNCHANGED <<active, iSec, socketVars, commandVars, hub>>

\* EMFILE, ECONNABORTED, ...
AcceptFails ==
    /\ pc = "Accept"
    /\ pc' = "Returned"
    /\ UNCHANGED <<active, iSec, s, socketVars, commandVars, place, hub>>

\* The socket accepted while a suspension is in force is not looked at again.
Drop(where) ==
    IF s = NoSocket THEN place' = place ELSE place' = [place EXCEPT ![s] = where]

NotSuspended ==
    /\ pc = "Returned" /\ suspendTime = 0
    /\ pc' = "Handle"
    /\ UNCHANGED <<active, iSec, s, socketVars, commandVars, place, hub>>

EnterSuspend ==
    /\ pc = "Returned" /\ suspendTime # 0
    /\ pc' = "Suspend" /\ iSec' = 0
    /\ Drop("leaked")
    /\ UNCHANGED <<active, s, socketVars, commandVars, hub>>

\* mutant: a terminated thread forgets what it just accepted
HandleForgetful ==
    /\ pc = "Handle"
    /\ pc' = "Top" /\ s' = NoSocket
    /\ IF terminated THEN UNCHANGED place
       ELSE \E where \in {"closed", "queued"} : Drop(where)
    /\ UNCHANGED <<active, iSec, socketVars, commandVars, hub>>

\* isFlooder closes the socket or hands it to ServiceLoop::AcceptSocket.
Handle ==
    /\ pc = "Handle"
    /\ pc' = "Top" /\ s' = NoSocket
    /\ IF terminated THEN Drop("closed")
       ELSE \E where \in {"closed", "queued"} : Drop(where)
    /\ UNCHANGED <<active, iSec, socketVars, commandVars, hub>>

GoesOnSleeping == suspendTime > iSec

SleepOneSecond ==
    /\ pc = "Suspend" /\ ~terminated /\ GoesOnSleeping
    /\ pc' = "Sleep"
    /\ UNCHANGED <<active, iSec, s, socketVars, commandVars, place, hub>>

WakeUp ==
    /\ pc = "Sleep"
    /\ pc' = "Suspend"
    /\ iSec' = IF suspended THEN iSec ELSE iSec + 1
    /\ UNCHANGED <<active, s, socketVars, commandVars, place, hub>>

EndSuspend ==
    /\ pc = "Suspend" /\ ~terminated /\ ~GoesOnSleeping
    /\ pc' = "Listen" /\ suspendTime' = 0
    /\ UNCHANGED <<active, iSec, s, socketVars, suspended, terminated, place, hub,
                   wasSuspended>>

TerminatedInSuspend ==
    /\ pc = "Suspend" /\ terminated
    /\ pc' = "Top"
    /\ UNCHANGED <<active, iSec, s, socketVars, commandVars, place, hub>>

\* Listen, first half: socket() overwrites m_Server.
OpenSocket ==
    /\ pc = "Listen"
    /\ pc' = "Bind"
    /\ orphan' = (orphan \/ server) /\ server' = TRUE
    /\ UNCHANGED <<active, iSec, s, commandVars, place, hub>>

\* Listen, second half. bind() fails on a descriptor SuspendSck has closed and
\* on a port that an orphan still listens on, and may fail for other reasons;
\* the thread then terminates itself.
BindSocket ==
    /\ pc = "Bind"
    /\ pc' = "Top"
    /\ \/ /\ server /\ ~orphan
          /\ UNCHANGED <<server, terminated>>
       \/ server' = FALSE /\ terminated' = TRUE
    /\ UNCHANGED <<active, iSec, s, orphan, suspendTime, suspended, place, hub,
                   wasSuspended>>

Leave ==
    /\ pc = "Top" /\ terminated
    /\ pc' = "Done" /\ active' = FALSE
    /\ UNCHANGED <<iSec, s, socketVars, commandVars, place, hub>>

ThreadStep ==
    \/ Start \/ CallAccept \/ NotSuspended \/ EnterSuspend \/ Handle
    \/ SleepOneSecond \/ WakeUp \/ EndSuspend \/ TerminatedInSuspend
    \/ OpenSocket \/ BindSocket \/ Leave
-----------------------------------------------------------------------------
(* The main thread, which also runs the service loop.                      *)

SuspendSck(t) ==
    /\ hub = "running"
    /\ active
    /\ suspendTime' = IF t = 0 THEN 1 ELSE t
    /\ suspended' = (suspended \/ t = 0)
    /\ server' = FALSE /\ wasSuspended' = TRUE
    /\ UNCHANGED <<threadVars, orphan, terminated, place, hub>>

ResumeSck ==
    /\ hub = "running"
    /\ active
    /\ suspendTime' = 0 /\ suspended' = FALSE
    /\ UNCHANGED <<threadVars, socketVars, terminated, place, hub, wasSuspended>>

\* mutant: the descriptor is closed without the shutdown
CloseQuietly ==
    /\ hub = "running"
    /\ hub' = "joining"
    /\ terminated' = TRUE /\ server' = FALSE
    /\ UNCHANGED <<threadVars, orphan, suspendTime, suspended, place, wasSuspended>>

\* The shutdown of m_Server is what wakes accept().
Close ==
    /\ hub = "running"
    /\ hub' = "joining"
    /\ terminated' = TRUE /\ server' = FALSE
    /\ pc' = IF server /\ pc = "Accept" THEN "Returned" ELSE pc
    /\ UNCHANGED <<active, iSec, s, orphan, suspendTime, suspended, place,
                   wasSuspended>>

\* mutant: the thread is not joined
WaitForNobody ==
    /\ hub = "joining"
    /\ hub' = "stopped"
    /\ UNCHANGED <<threadVars, socketVars, commandVars, place>>

\* WaitFor: there is nothing to join when the thread was never started.
WaitFor ==
    /\ hub = "joining" /\ pc \in {"Done", "None"}
    /\ hub' = "stopped"
    /\ UNCHANGED <<threadVars, socketVars, commandVars, place>>

\* ReceiveLoop takes the accepted sockets. It goes on doing so on the other
\* ports after this one is closed, and ~ServiceLoop closes what it leaves.
TakeSockets ==
    /\ hub # "joining"
    /\ \E c \in Clients : place[c] = "queued"
    /\ \E where \in IF hub = "running" THEN {"served"} ELSE {"served", "closed"} :
        place' = [c \in Clients |-> IF place[c] = "queued" THEN where ELSE place[c]]
    /\ UNCHANGED <<threadVars, socketVars, commandVars, hub>>

Next ==
    \/ ThreadStep
    \/ \E c \in Clients : AcceptClient(c)
    \/ AcceptFails
    \/ \E t \in SuspendTimes : SuspendSck(t)
    \/ ResumeSck
    \/ Close
    \/ WaitFor
    \/ TakeSockets

Spec == Init /\ [][Next]_vars

\* sleep() returns, a runnable thread runs, the service loop goes round; that
\* clients connect, accept() fails or a script speaks is not assumed.
FairSpec == Spec /\ WF_vars(ThreadStep) /\ WF_vars(WaitFor) /\ WF_vars(TakeSockets)
-----------------------------------------------------------------------------
\* The variables have their types; the seconds slept never pass the longest
\* suspension, so the uint32_t cannot wrap.
TypeOK ==
    /\ pc \in Labels /\ server \in BOOLEAN /\ orphan \in BOOLEAN
    /\ suspendTime \in SuspendTimes \cup {0, 1}
    /\ \E t \in SuspendTimes \cup {1} : iSec <= t
    /\ suspended \in BOOLEAN /\ terminated \in BOOLEAN /\ active \in BOOLEAN
    /\ wasSuspended \in BOOLEAN
    /\ iSec \in Nat /\ s \in Clients \cup {NoSocket}
    /\ place \in [Clients -> Places]
    /\ hub \in {"running", "joining", "stopped"}

\* Between accept() and the queue a connection is on its way exactly while the
\* thread is handling the socket it accepted last: whatever the main thread
\* does meanwhile, no socket is handed on twice or handled without being held.
HeldByThread ==
    \A c \in Clients :
        place[c] = "held" <=> (s = c /\ pc \in {"Returned", "Handle"})

\* After the thread is joined no socket of this port is in the thread's hands
\* and the port is free: nothing listens on it. (A suspension that races the
\* end of another one leaves a listening socket that m_Server forgot.)
StoppedPortIsFree ==
    hub = "stopped" /\ ~wasSuspended => ~server /\ ~orphan /\ pc \in {"Done", "None"}

\* ServerManager::Stop joins the accept threads in turn: the hub can only go
\* down if each of them comes back. (A thread whose socket was closed by a
\* suspension while it waited in accept() does not.)
StopCompletes == hub = "joining" /\ ~wasSuspended ~> hub = "stopped"

\* Every accepted socket ends in the service loop or closed. (The one accepted
\* during a suspension is forgotten.)
AcceptedIsServed ==
    \A c \in Clients :
        place[c] = "held" ~> place[c] \in {"served", "closed"} \/ wasSuspended
=============================================================================
