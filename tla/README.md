# A TLA+ development of the hub

The program in `src/core` is a Direct Connect (NMDC) hub: clients connect over TCP,
log in with a nick, are entered in the user lists, chat, search, and are served by
scripts in Lua. This directory holds TLA+ modules for the parts of it that keep state
and that meet each other in ways a test hardly reaches, TLC configurations that
check them on small instances, and proofs for every instance. File names below are
relative to `src/core` unless they say otherwise.

## 1. The system

### Threads

- **The main thread** runs `ServiceLoop::Looper`: accepted sockets become users,
  `ReceiveLoop` visits every user once (receives, executes commands, advances its
  state), `EventQueue::ProcessEvents` executes what was asked for meanwhile,
  `GlobalDataQueue::PrepareQueueItems` packs what is sent to everybody, and `SendLoop`
  visits every user again. Commands, Lua scripts, bans and all the managers run in it.
- **One accept thread per port** (`ServerThread::Run`) accepts, filters floods and
  appends the socket to the accept queue under a lock. The main thread stops, suspends
  and resumes it.
- **The UDP thread** receives `$SR` datagrams and hands them to the event queue.
- **The registration thread** talks to a hub list and hands its answer to the event queue.

Nearly all of the state is confined to the main thread. What makes it hard is not
locks but that a handler of one user closes, renames or hides *another* one in the
middle of a walk over all of them, that scripts run inside handlers, and that a login
is a conversation of up to nine messages with which everything else interleaves.

### Components

| component | state | operations | meets |
|---|---|---|---|
| session (`User`, `DcCommands`) | `m_ui8State`, bit sets, nick, share, timers | login commands, `Close`, timeouts | hash, lists, counters, buffer, scripts |
| service loop (`serviceLoop.cpp`) | list of users, list of accepted sockets, login quota, private message queue | a pass of two visits per user | everything |
| hash of users (`hashUsrManager.cpp`) | nick table, address table with linked lists and counts | `Add`, `Remove`, `FindUser`, `GetUserIpCount` | session, ban commands |
| lists of users (`colUsers.cpp`) | nick list, `$MyINFO` lists, op list, deflated copies, reconnect times | add, delete, `CheckRecTime` | session, scripts |
| counters (`ServerManager`) | `m_ui32Logged`, `m_ui64TotalShare`, `m_ui32Joins`, `m_ui32Parts` | entering, leaving, hiding, `$MyINFO` | session, scripts |
| send buffer (`User::PutInSendBuf`) | the buffer, its head, its capacity | append, compact, thin out, send, remove | global data queue |
| global data queue (`GlobalDataQueue.cpp`) | commands of a pass per feature set | add, prepare, process | send buffer |
| accept thread (`ServerThread.cpp`) | listening socket, suspension, termination | accept, suspend, resume, stop | service loop, hub life cycle |
| connection flood guard (`ServerThread::isFlooder`) | a map of addresses per thread | count, enter, forget | accept thread |
| hub life cycle (`ServerManager.cpp`, `PtokaX-nix.cpp`) | running, restarting, closing | `Start`, `Stop`, `FinalStop`, `FinalClose`, `UpdateServers` | all |
| event queue (`eventqueue.cpp`) | two queues, one of them locked | `AddNormal`, `AddThread`, `ProcessEvents` | life cycle, scripts, UDP |
| script manager (`LuaScriptManager.cpp`) | table and list of running scripts | start, stop, move, callbacks | all |
| bans (`hashBanManager.cpp`) | tables by nick, address and range, with expiry | ban, unban, find, save | session, accept |
| registrations (`hashRegManager.cpp`) | registered nicks | add, delete, find, save | session |
| profiles, reserved nicks, settings, languages, texts | tables | read by others | session |
| command floods (`DeFlood.cpp`) | counters of a user | count, warn, close | session |
| compression, database, metrics, countries | none that decides anything | | |

`PROJECT.json` lists each of them with its files and with what is and is not modelled.

### What must be right

- *Session and hash.* A nick finds an open user that holds it now, or nobody; a user on
  its way into the lists owns its nick, owes no password and is no pinger; no state is
  revisited; every login and every close ends.
- *Counters and lists.* The number of members, the total share (an unsigned sum) and
  the nick list are exact after every close, hide, show and refresh, in whatever state.
- *Address lists.* The links never lead to a deleted `User`, the count matches, and a
  walk that closes the users it walks over meets all of them.
- *Send buffer.* No write behind the end; whole commands in order; nothing lost for a user
  that was never thinned out; no user gets its own search.
- *Accept thread.* A stop comes back and frees the port; every accepted socket is
  served or closed; the flood guard's counts and cap hold although threads check and act
  in different moments.
- *Life cycle and scripts.* A stop that was asked for happens, a restart completes,
  every callback meets each running script once.
- *Members among each other.* What waits for somebody reaches that user or nobody, also
  when its object has been deleted and its address used again; searches that wait are counted.
- *Views.* What every member was told, and what still waits for it, is who is online.
- *Floods.* No order of counting, testing and resetting lets more than two windows through,
  and no count wraps.
- *Bans.* A ban hangs where its bits say; nothing but lifting weakens the protection; nobody
  who was under a ban at the door comes in; a restart keeps the protection.
- *Registrations and profiles.* Profile numbers in members and registrations follow the
  table; the list of operators shows the operators.

The hazards behind them are listed with their lines in `PROJECT.json`.

## 2. The modules

| module | models | its properties |
|---|---|---|
| `UserSession` | sessions, service loop, nick hash, lists and counters | see 3.1 |
| `NickOwnership` | what the hub promises about nicks (abstract) | |
| `NickRefinement` | the mapping from `UserSession` to `NickOwnership` | `ImplementsNickOwnership` |
| `Members` | what members send to each other over many passes, with the reuse of their objects | see 3.7 |
| `Broadcast` | what every member is told of who is online: lists, deflated copies, the queue | see 3.8 |
| `DeFlood`, `CommandFlood` | the limits as operators on windows; one member's commands and data under them | see 3.9 |
| `BanTables`, `BanPlacing`, `BanManager` | bans as a value, what placing and lifting do to it, the running hub around it | see 3.10 |
| `Registry` | registrations, profiles, their files, the list of operators | see 3.11 |
| `HashManager` | the linked lists of users of one address, the walk of a ban | see 3.2 |
| `SendBuffer` | the send buffer of one user | see 3.3 |
| `AcceptThread` | one accept thread, the commands to it, the accept queue | see 3.4 |
| `AntiConFlood` | the flood guard of all accept threads | see 3.5 |
| `ScriptManager` | the table of scripts, the list of the running ones, walks over it and what callbacks do to it | |
| `HubLifecycle` | start, restart, shutdown, signal, the event queue and the operators' commands, composed with `ScriptManager` | see 3.6 |
| `MC...` | instances for TLC | |
| `UserSession_proof`, `HashManager_proof`, `HubLifecycle_proof`, `BanManager_proof`, `Members_proof` | theorems of the module they are named after | see 4 |
| `Sending_proof` | theorems of `SendBuffer` and `Broadcast` | see 4 |
| `ServerThread_proof` | theorems of `AcceptThread` and `AntiConFlood` | see 4 |
| `HubCommands_proof` | theorems of `CommandFlood` and `Registry` | see 4 |

How they share the hub: `UserSession` has the conversation of a login and the passes of the loop in
full; `Members`, `Broadcast`, `BanManager` and `Registry` each keep the few states of a user their
question needs, with the order of a pass from `ServiceLoop`, and take the rest of a login in one step.
`CommandFlood` is one member by itself, since no limit of one member reads another's.

Operators named as mutants in comments are plausible mistakes in the definition they
precede. No specification uses them; they show that the properties can fail.

### 2.1 UserSession

The variables: `st` is `User::m_ui8State` (`FREE` for a slot without a user), `bits` the
bits of `m_ui32BoolBits`, `m_ui32SupportBits` and `m_ui32InfoBits` that the login looks
at, `nick` and `share` the fields of the user, `age` and `v4age` the ticks since
`m_ui64LogonTick` and `m_ui64IPv4CheckTick`, `unsent` and `toClose` what a closed user
has to send and how many passes it is given for it; `nickTable` is
`HashManager::m_NickTable`, `nickList` the multiset of nicks in `Users::m_NickList`,
`logged` and `totalShare` the counters of `ServerManager`, `regs` the nicks
`RegManager` knows; `loop` and `todo` are the service loop: which loop runs and whom it
has still to visit.

A step is one command, one visit, or one change from outside:

- `AcceptUser`, `BeginReceive`, `BeginSend`, `EndSend` are the phases of `Looper`.
  `EndSend(TRUE)` is a pass after which a second has passed.
- `Supports`, `Key`, `ValidateNick`, `QuickMyINFO`, `Version`, `MyINFO`,
  `MyINFORefresh`, `MyPass`, `GetNickList` and `MyNick` are the commands `PreProcessData`
  lets through in a state. `ValidateUserNick` has five outcomes: refused for one of a dozen
  reasons (whose tests read bans, profiles, limits and settings, abstracted to the
  choice), a dead holder of the nick closed, a live one met without or with a
  registration, and the nick free.
- `CloseUser` is everything that ends in `User::Close` at any time: a refused command, a
  socket error, a kick, a ban, a script. `Close` itself is one operator, used by every
  action that closes somebody: its table, lists, counters, bits and timers.
- `Hide` and `Unhide` are the Lua functions; `RegChange` is an operator or a script that
  registers or deletes a nick while sessions use it.
- `ReceiveVisit`, `ClosingVisit` and `RemUser` are the switch of `ReceiveLoop` on the
  state, `BecomeAdded` and `SendVisit` that of `SendLoop`.

Left out: the texts, the commands that change nothing of this state (`Members` and
`CommandFlood` have them), the login quota
(a login may wait in `ADDME_1LOOP` any number of passes), a callback that runs *inside*
`Close` or inside the visit (its effect on other users is the action it would be at
another time).

### 2.2 HashManager

`first`, `count`, `next` and `prev` are the items of `m_IpTable` and the links in `User`;
`conn` is how far a user is (`pending` between the question for a password and the answer);
`walk` is `CloseIpBannedUsers` with the pointer it read before it closes a user. `Added` and
`Removed` are functions on the links, since `MyPass` and a walk with a script use two in a
row. The counter is taken modulo its width. A walk excludes every other action: it runs in
the main thread; what can intervene is a script's `UserDisconnected`, which disconnects
somebody else (`CloseBannedAndOther`).

### 2.3 SendBuffer

A byte is a cell that knows its command and its place in it. `PutInSendBuf` is a function from
the buffer to the buffer, with the branches of the code: fits, compacts, grows, is thinned
out (`Kept`), or overflows and closes the user. `SendCommand` stands for `SendChar` and its
siblings, `SendSearches` for `ProcessQueues` with the user's own search in what is sent, which
it then removes behind the place it remembers. That is the path of plain text: a client with ZPIPE gets the queue deflated as a whole
whenever that is no longer than the queue without its own searches, and with it its own search
(`GlobalDataQueue.cpp:587`, `649`). `OwnSearchRemoved` says nothing of those clients. `SendChar` is `SendCommand` followed at once by
`Try2Send`, which is the action `SendsPart`, `SendsAll` or `SendFails`.

### 2.4 AcceptThread

`pc` is the place of the thread between two of its lock regions; `server` says whether
`m_Server` is an open descriptor, `orphan` whether a listening socket exists whose descriptor was
overwritten. `accept` is external: it waits on the socket it was called with, and a `shutdown`
wakes it while a `close` of the descriptor by another thread does not.
`SuspendSck`, `ResumeSck`, `Close` and `WaitFor` are the main thread. `wasSuspended` is a history
variable: what the code promises of a port is stated for ports that no script has suspended,
since a suspension loses sockets and threads in ways section 5 lists.

### 2.5 AntiConFlood

`table` is `m_AntiFloodMap` of each thread, `entering` the address a thread has cleared
for entry after it compared the total with the cap and before it enters it; `passed` and
`wrapped` are histories.

### 2.6 ScriptManager and HubLifecycle

Everything here runs on the main thread; what is concurrent is the C++ stack with itself. Lua code
called from a walk over `m_RunningScriptList` can start, stop or move scripts, and can disconnect a user,
which walks the list again at once. So the model keeps that stack: `work` is the sequence of what is left
to do, the innermost first. Its tasks are `call` (Lua code runs, `why` says as what), `round` (a walk, with
the `rest` of its snapshot), `begin` (a walk whose `m_bMoved = false` is still to come), `start`, `started`,
`stop`, `startFrom` and `stopAll` (the places of `StartScript`, `StopScript`, `Start` and `Stop` between two Lua
calls), and in `HubLifecycle` `process` (the rest of a batch of events), `serve` and `final`.

| variable | code |
|---|---|
| `table`, `running` | `m_ppScriptTable`, `m_RunningScriptList` |
| `enabled`, `live`, `processed` | the scripts with `m_bEnabled`, with an `m_pLua`, with `m_bProcessed` |
| `moved` | `m_bMoved` |
| `scripting` | `SETBOOL_ENABLE_SCRIPTING` |
| `events` | `EventQueue::m_NormalEvents`; the batch taken from it is in the `process` task |
| `up`, `isRestart`, `isClose`, `terminated` | the flags of `ServerManager` |
| `hub` | `serving`, `closed` after `FinalClose`, `exited` when the program ended without it |

`due` of a `round` (whom the walk owes a call), `unruly`, `broken` and `both` are history
variables. The actions of `ScriptManager` are the functions of `LuaScriptManager.cpp` and what the library
`ScriptMan` gives to Lua (`LuaMove`, `LuaStartScript`, `LuaStopScript`; `AsksHub` for all that only asks by an
event). `HubLifecycle` adds the operators' commands, the events, the end of `Looper` and the signal. A
step from outside (`UserActs`, `TimerFires`, a command) needs an empty stack.

The code knows the caller by its `lua_State`. `luaL_openlibs` gives scripts coroutines, and a call from one has a state that is no
script's `m_pLua`; `own` says whether the call comes from the script's own state. From a coroutine `Deferred` is
false, so that a script that stops itself is closed at once, and `Passed` finds no caller, so that a move marks every script.

`unruly` records what the code does not provide for: a move made by a nested Lua call, by top-level code
or by the `OnExit` of a script that is being stopped; a script's stop or restart of itself from a coroutine, and the first
move of a walk made from one; a script started while the top-level code of another one
runs; a script stopped from a nested call; a walk begun inside another one after that one's callbacks moved
scripts. The properties of the list are stated for histories without these; section 5 says what happens in
them.

Left out: script files that appear and disappear (`Refresh`), bots, timers as such (`TimerFires` is the call a timer
makes), the queue of events of the threads, and a script that switches scripting on again while it is being
switched off.

### 2.7 BanTables, BanPlacing, BanManager

The bans are a sequence in the order of their adding; each says in `at` which of the two lists and two
tables it hangs in, apart from its `bits`, which say where it ought to. The code keeps them in two lists, a
multimap by nick and a hash by address. `BanTables` has the lookups with what they drop on their way
(`FindIp`, `FindNick`, `FindRange`, `FindFull`), and the list walks, which let a ban expire a second later
than the lookups do. `BanPlacing` has the rules by which a new ban meets an old one of the same nick, address or
range: an outcome is the bans after the call and whether the new one was added. `BanManager` is the hub
around it: each command and each Lua function with its checks, the saves (written when more than `SaveEvery`
calls were counted), `Restart`, `Crash`, and one connection, the `guest`, on its way through the lookups at
the door (`accepted`, then `ghost`, `asked` or `in`); `memory` is what `User` keeps of the lookup at its accept.

Left out: other members (any nick but the guest's may be in from any address); the texts and reasons. A ban that
`Rem` takes out is gone: in the code `Rem` erases the owning pointer from its list, and callers then wrap the
freed pointer once more. That is undefined; the model has the outcome that was meant, and `Crash`.

### 2.8 Registry

`profiles` is the table up to `m_ui16ProfileCount`, `holes` whether it is longer; `regs` the profile
number of each registered nick; `member` the user of a nick with its profile number, operator and key bits
and the name of the profile a password is awaited for (in `m_LogInOut`'s buffer, which the reason of a kick garbles); `listed` how often the nick stands in `m_OpList`. The files are saved at different times, so `Crash` and
`Start` may combine registrations with a table of profiles they were not made for (`Clamped`).
`hub = "dead"` is a hub that read a profile that is not there.

Left out: passwords and their bad counts, single rights but the key, the ranks of the operator who acts
(a command that is refused changes nothing), the reserved nicks.

### 2.9 DeFlood and CommandFlood

A window is a count and an age. The functions of `DeFlood.cpp` are operators from a member and a window to
both and a verdict. `CommandFlood` has for each command the order in which its handler tests, counts and
returns early: a refused, spoofed or script-taken command ends at another place than one that goes through;
a text that turns out to be a hub command or a kick is taken off the counts again. `DoRecv` has the data limits.
A right that exempts from a limit is that limit turned `Off`. `passed` and `read` are histories: the ages of
what was let through. A limit allows at least one command, as `SettingManager` has it; one on repeated texts may be 1 only
by default (`SAME_SEARCH_MESSAGES`), and is not excluded.

### 2.10 Members

`order` is the list of users, `at` whose turn it is in `ReceiveLoop`, `heard` whether `DoRecv` has
run for it; `pending` is `m_CmdToUserList`, a set, since it has one command for an
address (`AddPrcsdCmd` joins a second to the first): the target's object and nick, and the passes it has waited; `search` the searches that wait, `act`, `pas` and `sr` the counters that decide when they are sent out.
A slot is the address of a `User`: the allocator may give it to the next connection as soon as it is deleted.
What saves a pending command is that a new user needs more passes to get a nick than a command waits;
there is no pass to spare, and a version that delivers one pass later is refuted (`RipeLate`).

Left out: commands to bots and to the operators' chat, chat, the checks of `CommandFlood`, malformed addresses. A
user's turn takes one command.

### 2.11 Broadcast

`listed` is who is on the nick list and on the `$MyINFO` lists, `deflated` the compressed copy of each, kept until it is
made stale; `news` and `items` are `m_NewQueueItems` and `m_QueueItems`, `built` the queue of each
number in `m_GlobalQueues`, made by the first member of that number that `SendLoop` visits and used for all others.
`known` is a history: what a member's client has been told, from the lists it was given and the `$Hello`, `$MyINFO` and
`$Quit` it got. `untold` are the nicks the hub says nothing of on purpose: a hidden user, whose
`$Hello` is sent all the same (`serviceLoop.cpp:636`), and a ghost closed without a `$Quit` because its
successor announces itself (`DcCommands.cpp:2771`).

Scripts act in the receive phase, and in the send loop only when a failed send closes the visited user. Left
out: items of the operator list, of UserIP and of chat; the bit `INFOBIT_NO_QUIT`, by which a script keeps back the
`$Quit` of a user (`User.cpp:1734`) and leaves it on every list its clients keep; `$MyINFO`s that are
held back; bots named like a nick.

## 3. The runs

`tlc -config <run>.cfg <module>.tla`; a run ends in at most three minutes.

| run | module | distinct states |
|---|---|---|
| `UserSessionLogin` | `MCUserSession` | 2 185 664 |
| `UserSessionLiveness` | `MCUserSession` | 511 700 |
| `HashManagerLists` | `MCHashManager` | 885 |
| `SendBuffer` | `SendBuffer` | 426 819 |
| `AcceptThread` | `AcceptThread` | 31 698 |
| `AntiConFloodLimits` | `AntiConFlood` | 1 376 756 |
| `HubLifecycle` | `MCHubLifecycle` | 916 802 |
| `Members` | `MCMembers` | 1 735 976 |
| `Broadcast` | `MCBroadcast` | 597 573 |
| `CommandFlood` | `MCCommandFlood` | 176 960 |
| `BanManagerRules` | `MCBanManager` | 99 699 |
| `RegistryRanks` | `MCRegistry` | 2 348 473 |

All pass.

### 3.1 UserSession

*Login*: two connections, one over IPv6, one that asks for the list itself, one that scripts hide and show, two nicks of
which one is registered and deleted meanwhile, shares 0 and 1, plain clients and ones with QuickList and the IPv4 check.
Two connections are enough for every interaction the code has: a step touches at most the user whose command it is and
the holder of a nick. Timeouts of no more than a tick let every timer expire before and after each other event;
close loops are zero here and one in the other run. It checks the inductive `NickInvariant` (from which
`UserSession_proof` derives that online users own their nick, owe no password and are no pingers),
`LoggedExact`, `TotalShareExact`, `NickListExact`, the action property `OnlyForward` (no state is
revisited), and the refinement `ImplementsNickOwnership`.

*Liveness*: `LoginResolves` and `ClosingResolves` under `FairSpec`, and `TypeOK`, which contains the close
counter that a pinger takes below zero (pingers are in this run). The fairness is what
the main thread's scheduling gives: the phases of the loop follow each other and each user of a
pass is visited (weak fairness), and the clock advances, so that a pass that ends with a new second
comes again and again (strong fairness of `EndSend(TRUE)`, since it is disabled in between). That
clients send anything is not assumed; commands may keep a user from nothing.
`ClosingResolves` excepts pingers: for them the close counter is not obeyed
(`serviceLoop.cpp:844`), so one that never reads is kept as long as its socket.

### 3.2 HashManager

*Lists*: four users, three of one address, one of them exempt, a limit of two and a counter of width
three, so that the counter goes round while the list is in use. `LinksMatch`, `ListExact`,
`WalkClosesAll` (unless the script closes the very user the walk remembered). The run stops when all
users are closed: no deadlock check.

### 3.3 SendBuffer

Six commands of two or three bytes, a limit of twelve, sends of up to four bytes and a call
counter of two: every branch of `PutInSendBuf` is met with the head at every place, and twice in a
row. Whether a slow user is kept is chosen anew each time, as the setting is. `InBounds`,
`WholeCommands`, `NothingLost` and `OwnSearchRemoved` (both for users never thinned out). The bound
on commands ends the behaviours: no deadlock check.

### 3.4 AcceptThread

Two clients, suspensions of two and three seconds and without end, a stop at any point.
`HeldByThread`, `StoppedPortIsFree`, `StopCompletes`, `AcceptedIsServed`. Fairness:
the thread is runnable and `sleep` returns, the join returns when the thread has ended, the service
loop goes round; not that clients come or that `accept` fails. After the stop nothing happens any
more: no deadlock check.

### 3.5 AntiConFlood

Two threads, two addresses, a limit of two connections in a window of one second, a cap of one entry,
a hit counter that wraps at four and three seconds of time, so that windows end and are entered again.
`AtMostCount` and `TotalCapped`. The clock is bounded: no deadlock check.

### 3.6 HubLifecycle

0.9 million states: two scripts in either order and with any of them enabled, Lua calls nested two deep,
and at most three Lua calls on the stack, events in the queue and events left of the batch together (a
call is nested only while no event is pending, which keeps the two apart but for one). Two scripts are enough
for a walk to have somebody behind and somebody before the script that acts; two events for one batch that
restarts and shuts down, or that disables scripting and restarts the scripts. The scripts are interchangeable,
since the initial states take every order and every choice of the enabled ones: the run uses that symmetry.
`GoesOn = FALSE` ends a history at its first unruly step, since the properties of the list say nothing of
it from there. (Larger instances pass too, in a few minutes each: with `GoesOn`, 12.9 million states; with three
scripts, 10.3 million; with four pending, 7.7 million.)
`ListExact`, `RoundsExact`, `StatesOutliveCalls`, `RunsUnlessClosing`. The hub may end: no deadlock check.

### 3.7 Members

Two slots and two nicks: an operator, who may kick, move and close the other, and a plain member; each slot can be
either, and be used again by the other (the run uses the symmetry of the slots). Both show one form, of both
protocols, active over IPv6 and passive over IPv4, so that every kind of search is sent. One private message and one passive answer are the most somebody gets in a pass, searches go out after two
passes or after one waiting search: every counter meets its limit. `PendingPointersSafe`,
`WaitingSearchesCounted`, `DeliveredAsMeant`.

### 3.8 Broadcast

Three connections, chosen for what the queues tell apart: one that is told of new members by `$Hello` and gets deflated
lists; an operator without `$Hello` but with QuickList, which has the same nick, so that each can take over from the
other, and whose queue has the first one's number; and one with neither, which gets deflated lists and the full
`$MyINFO`s. A bot comes and goes. Three items at a time: a member that leaves and comes again while another one's change waits. `ViewsExact` for the default of the full `$MyINFO` option.

### 3.9 CommandFlood

One member, a text of one line and one of two. Chat has all of its limits: one a second, whose excess is warned of and then
punished, two in three seconds, whose excess is only refused, the same text twice, several lines once; private messages have an
interval, data a limit of two kilobytes in two seconds, whose warnings add to those of chat. Six commands at most are
counted in a window, so that the limit of two is met, exceeded by a warned member and met again. `TypeOK` (no
count goes below zero), `NoBurst`, `NoDeluge`: the factor of two in them is exact, since a window starts with the
first command after it.

### 3.10 BanManager

Two nicks, two addresses, one range around both, two bans at a time, three seconds. `SaveEvery` is 0: each save
writes the file, so that file and memory differ by what the unsaving operations did. Two bans are enough
for a new ban to meet one of its nick and one of its address. The nicks are interchangeable, and so are the addresses,
since the range covers both: the run uses both symmetries. The theorems of section 4 hold for every `SaveEvery`, range and number of bans. `TablesExact`,
`OnlyLiftingWeakens`, `RestartKeeps`, `NobodyPastTheDoor`. The last is about users without a right to enter and a ban that
was in force when the connection was accepted: what is found then is remembered, and the address is not looked up again, so
one that is banned between the accept and the nick does come in. The clock is bounded: no deadlock check.

### 3.11 Registry

One nick, registered with one of two profiles or none (the operators' profile and another), two
profiles in the table, two entries of the nick on the operator list, a save counted and a save written. `OneEdit` bounds
the renames and changes of rights of a profile between two moves. `OperatorsShown`, `EntriesMatchMembers`, `MembersFollowRegistrations`.
The hub may die: no deadlock check.

## 4. What is proved

By `tlapm`, for any constants that satisfy the named assumptions of the modules. Every invariant and every action
property that a run checks is a theorem. The modules that share a proof module have a specification of their own name each
(`TablesSpec`, `BroadcastSpec`, `RegistrySpec`); elsewhere it is `Spec`.

| theorem | says |
|---|---|
| `UserSession_proof!TypeCorrect` | `Spec => []TypeOK` |
| `UserSession_proof!NicksCorrect` | `NoQuickPingers => (Spec => []NickInvariant)` |
| `UserSession_proof!LoginCorrect` | the four properties of the login that follow from it |
| `UserSession_proof!LoggedCorrect` | `Spec => []LoggedExact` |
| `UserSession_proof!OwnershipImplemented` | `NoQuickPingers => (Spec => ImplementsNickOwnership)` |
| `UserSession_proof!NickListCorrect` | `NoQuickPingers => (Spec => []NickListExact)` |
| `UserSession_proof!LoginsMoveForward` | `Spec => OnlyForward` |
| `UserSession_proof!TotalShareCorrect` | `Spec => []TotalShareExact` |
| `HashManager_proof!LinksCorrect` | `Spec => []LinksMatch` |
| `HashManager_proof!ListsAreExact` | `Spec => []ListExact` |
| `HashManager_proof!WalkCorrect` | `Spec => WalkClosesAll` |
| `Sending_proof!BufferInBounds` | `Spec => [](TypeOK /\ InBounds)` |
| `Sending_proof!CommandsWhole` | `Spec => []WholeCommands` |
| `Sending_proof!AllReceived` | `Spec => []NothingLost` |
| `Sending_proof!OwnSearchCutOut` | `Spec => []OwnSearchRemoved` |
| `Sending_proof!BroadcastTypeCorrect` | `BroadcastSpec => []BroadcastTypeOK`, for option 1 or no bots |
| `Sending_proof!ViewsCorrect` | `BroadcastSpec => []ViewsExact`, for option 1 or no bots |
| `ServerThread_proof!HeldCorrect` | `Spec => []HeldByThread` |
| `ServerThread_proof!PortFree` | `Spec => []StoppedPortIsFree` |
| `ServerThread_proof!CountCorrect` | `TablesSpec => []AtMostCount` |
| `ServerThread_proof!CapCorrect` | `TablesSpec => []TotalCapped` |
| `HubLifecycle_proof!ShutdownCorrect` | `Spec => []RunsUnlessClosing` |
| `HubLifecycle_proof!ClosingIsSafe` | `Spec => []StatesOutliveCalls` |
| `HubLifecycle_proof!ListsStayExact` | `Spec => []ListExact` |
| `HubLifecycle_proof!RoundsAreExact` | `Spec => []RoundsExact` |
| `BanManager_proof!StoreInvariantHolds` | `Spec => [](StoreInvariant /\ DoorInvariant)` |
| `BanManager_proof!TablesStayExact` | `Spec => []TablesExact` |
| `BanManager_proof!NobodyComesPastTheDoor` | `Spec => []NobodyPastTheDoor` |
| `BanManager_proof!OnlyLiftingWeakensHolds` | `Spec => OnlyLiftingWeakens` |
| `BanManager_proof!RestartsKeep` | `Spec => RestartKeeps` |
| `Members_proof!PointersSafe` | `Spec => []PendingPointersSafe` |
| `Members_proof!DeliveriesReach` | `Spec => DeliveredAsMeant` |
| `Members_proof!SearchesCounted` | `Spec => []WaitingSearchesCounted` |
| `HubCommands_proof!TypeCorrect` | `Spec => []TypeOK` of `CommandFlood` |
| `HubCommands_proof!BurstsAreBounded` | `Spec => []NoBurst` |
| `HubCommands_proof!DelugesAreBounded` | `Spec => []NoDeluge` |
| `HubCommands_proof!RegistryTypeCorrect` | `RegistrySpec => []RegistryTypeOK` |
| `HubCommands_proof!OperatorsListed` | `RegistrySpec => []OperatorsShown` |
| `HubCommands_proof!EntriesCorrect` | `RegistrySpec => EntriesMatchMembers` |
| `HubCommands_proof!RegistrationsFollowed` | `RegistrySpec => MembersFollowRegistrations` |

The assumptions are those the modules declare: of `UserSession` the ones on its connections, nicks, shares, supports
and timeouts, of `HashManager` a finite set of users and a counter wider than the limit, of `SendBuffer` lengths and limits that
are positive, of `AcceptThread` its timings, of `AntiConFlood` finite sets of threads and addresses and a clock
with an end, of `ScriptManager` its scripts, of the bans that a range is a set of
addresses, that the clock ticks and that the value for "none" is no address and no nick, of `Members` finitely many slots, of `Broadcast`
that no bot is named like a member, of `CommandFlood` that limits are positive (`SettingManager` refuses 0) and that no bound lets a
16-bit count go round, of `Registry` that the table has room for the two
profiles it begins with. Theorems add two hypotheses: `NoQuickPingers`, and in the two of `Broadcast` that both kinds of `$MyINFO`
list are in use (the default, `FullMyINFOOption = 1`) or that there are no bots. Without the second TLC finds the
counterexample of section 5; the first is discussed with the nick hash.

*The nick hash.* That online users own their nick is not inductive: a step that brings a user
online reads only its state and its bits. `NickInvariant` says what those imply. An open hashed user
is in the table under its nick (`HashedUsersAreInTheTable`), whoever is past the nick check is hashed or
owes a password (`NamedUsersAreHashedOrAsked`), whoever is online is hashed, owes none and is no pinger,
and nobody before the nick check is hashed, which is what keeps `ValidateUserNick` from renaming a
hashed user. The last fails for a client that announces QuickList *and* BotINFO, which stays in
`STATE_VALIDATE` after it is hashed; hence the hypothesis `NoQuickPingers`. The refinement
uses the same invariant: a change of `nickTable` is a claim, a release or a take-over because who claims
owns nothing and who leaves owns its nick.

*The member count.* `LoggedExact` is about a cardinality; the proof has one lemma for a user that
enters the set of visible members, one for a user that leaves it and one for steps that move nobody,
and one step per action that says which it is.

*The total share.* The sum is stated as the number of units the counted users have between them (`SharedBy`, pairs of a
user and a number up to its share), so that adding or taking out one user is a fact about the cardinality of a union of
two disjoint finite sets. `TotalShareExact` is inductive: the counted bit is set just while the user is a visible one of the lists, and each step
adds or takes out one user (`ShareStep`, `ShareFrame`), changes one share, or moves nobody.

`NickListExact` counts, for each nick, the open visible users that bear it; that it is never more than one is
`HashedUsersAreInTheTable` again. `OnlyForward` needs only the types: each action leads to a state of at
least the rank it started from.

*The address lists.* `HashInv` says that the links match (`Matched`) and that the users of an address can be numbered
along them (`Placed`, a position for each), with the counter equal to their number modulo its width. `Added` and
`Removed` are shown to keep both for any links and any set of users; `ListExact` reads the list off
the positions. The walk closes all because `AllAhead` is invariant: every user it owes a close lies in each set that is closed
under the links and holds the place of the walk. That definition takes the place of a recursive one, which could not be
reasoned about; `Met` in the model is stated without recursion for the same reason.

*The buffer.* `InBounds` is inductive with the types; the lemmas say what `memchr`'s place, thinning
and the removal of a search can do to lengths. The other three follow from `StreamInv` about the stream that the
client has got and the buffer still holds: neighbouring cells of a command follow each other or start a new one, commands stand in
the order in which they were made, and the stream ends with the end of a command (`Whole`); and as long as nothing was thinned out, no
command is missed between two neighbours, none is the user's own search, and the last is the last made
(`AllThere`). One lemma for each thing the code does to a stream: cut off what was sent, skip to the next command, append,
thin out, remove a search.

*Who is online.* What a client believes of a nick is the last word it heard of it (`Word`), so `BroadcastInv` speaks of last
words. The nick list is the bots and the visible members, one connection to a nick (`OneNick`, `ListedRight`); a deflated
copy in use is stale or the list (`CopiesRight`); the last word that waits of a nick, unless it is `untold`, is true (`NewsRight`); and it
is no hello (`HellosFollowed`), because a queue that was built for members of the same number may be without hellos. One
lemma, `SpeaksRight`, says that a step which says nothing of a nick and leaves it where it is, or says the truth last, keeps the views
exact; all steps but those of the send loop are cases of it. TLC checked the invariant for each option before it was proved.

*The accept thread.* `HeldByThread` needs that the thread waits with nothing in its hand; a port
that was never suspended never opens a second socket (`NeverSuspended`, `ClosedByStop`).

*The flood guard.* A connection that passed was counted, unless the count has gone round (`CountedOK`), so the limit of a
window bounds what passes. The cap is checked in one step and the address entered in a later one: `RoomLeft` adds to the
entries the threads that are about to enter one, and says that both together exceed the cap by no more than the number of threads.

*The bans.* `StoreInvariant` says that every ban in memory and in the file is `Hung`: in the tables its bits
name and no other, permanent or temporary and not both. `DoorInvariant` says that a guest that remembers no ban from its accept came from an
address without one, and that one that is in, and had no right to enter, was under no ban. `OnlyLiftingWeakens` and `RestartKeeps` are about
`Covered`; the proof takes a stronger relation that composes, `BansKept`: for each ban that still holds there
is one afterwards of the same address or nick that lasts as long (`Lasts`) and is as firm (`AsFirm`). One lemma for each
lookup and each way to place a ban says that it keeps this; an action is a composition of them.

*What waits with members.* `OrderInv` says that the list of users has each object that is not free once. `WaitInv` says of a
command at a place of the list: while its target lives, the target has the nick it was written for; when it does not, the command
has waited for a pass, and the object is free or about to be, or
has a new user that is not hashed yet. That one stands behind the sender, since `Pass` appends it. When it has only been accepted, the command
is in its last pass or will be by the sender's turn in this one; when it may log in, the command is in its last pass, and the sender's turn comes
before the one in which the new user is heard again. That bound is exact: `RipeLate` breaks it. Nothing relates counters of two
users; the positions in the list and `at` do it. `SearchInv` adds to the two bounds that in the pass that sends searches out the passive
ones of all that had their turn are gone.

*The end of the hub.* `EndInv` says of the stack that `process`, `final` and `serve` lie only at its
bottom, that a top-level call lies above the end of its start and an arrival above its walk (so that what returns
or fails takes the right task with it), and that a hub that is to end has `process` or `final` there.
`ScriptStepKeeps` is one lemma for all that scripts do; the events, the start and the final stop are cases of
`EndStep`. It holds with `GoesOn`, so for unruly histories too.

*Closing the states.* `StopInv` says that outside unruly histories no stop that is left to do closes a state whose code runs
below it on the stack (`Owed`). What pushes a stop does it at the bottom, while the hub is idle, or above the one
frame of another script: a nested call that stops a script is unruly, and so is one that stops itself from a coroutine; any other that stops itself
does it by an event. The
proof needs `EndInv`, which keeps everything that stops all scripts where no code is below.

*The list of the running scripts.* `ListInv` speaks, outside unruly histories, of the table, the list and every task of the stack at once.
The table is a permutation of the scripts and the list is in its order. A script has its state iff it is in the list or a
task is on the stack that is about to enter it (`started`) or to close it (`stop`), and only one of these (`NamesOK`); the
loop over the table has come to no script that has a state (`StartsOK`). What a walk over the list still owes a call to is in
its snapshot, and in the list or about to be stopped; after a move it carries no mark, before one the snapshot is in the order of the table
(`WalksOK`). Which task may lie directly above which (`Link`) and anywhere below (`Beneath`) carries this through the nested
calls: a start lies under the stop of the same script, the called script comes before the rest of its walk, and after a move there
is one walk only. The invariant was checked by TLC with two and three scripts before it was proved; it needs the stack of `EndInv`.
That any set of scripts can be listed in table order, and in one way (`Listable`, `RunningIsList`), is shown
from the least place at which it fails. `RunningOf` is therefore stated in `ScriptManager` as that one list.

*The limits of commands.* That two windows let no more than two limits through needs what lies between them. `FloodInv` says that
what was let through stands apart from the open window (`Apart`): of the last commands at most as many as are counted came inside it, and
what came a whole limit earlier is older than the window by its whole length. A window whose count was reset has let all but a
limit's worth out of its time. The same holds of the data, with the larger of the limit and a first read in the place of the
limit. The count of the second window is excepted where nothing asks for it (`Unasked`): `UncountDeflood` tests the first count only,
and takes from both.

*The operators' list.* Each step settles the entry of each nick (`Settled`): the number of entries stays and so does whether the member is to be
shown; or one is added for a member that was not shown, and shown entries are only removed with what made them shown. From that both
`OperatorsShown` and `EntriesMatchMembers` follow. `ListInv` says the former of a hub that is not up, too, since a hub that dies leaves
its members and its list behind and `Start` clears both. `MembersFollowRegistrations` has one lemma for the steps of the member itself (`MemberFollows`), one for
changes of its registration (`ChangeFollows`) and one for the commands that change profiles (`ProfileFollows`): a removal and a
move do the same to the numbers of registrations and of members (`NumbersFollow`).

*Only model-checked*: what holds eventually (`LoginResolves`, `ClosingResolves`, `StopCompletes`, `AcceptedIsServed`:
liveness is out of the provers' reach).
Facts by induction over numbers that the proofs need are derived in set form, from the least element of a set of
numbers.

## 5. Where the code and what is said of it differ

Met while modelling, and visible in the models as steps that no property excludes, or as the conditions of
properties.

Sessions and members:

- A dead holder of a nick is closed and the command ends without admitting the new user, against the
  comment at `DcCommands.cpp:4416` (`CloseDeadClone`).
- A client with QuickList and BotINFO can change its nick while it is hashed (`NoQuickPingers`).
- A client that sent no `$GetNickList` and has no QuickList is added, against the comment at
  `serviceLoop.cpp:518`: the third test there lets only pingers wait for it.
- Users that wait for a password while a ghost holds their nick are not counted, so more than
  `MAX_CONN_SAME_IP` can be online from one address (`DcCommands.cpp:2775`).
- A hide of a user that is being closed out of `STATE_ADDME_2LOOP`, from a script's `UserDisconnected`, takes one from
  `m_ui32Logged` twice, and a show enters the closed nick in the lists again: `ScriptGetUser` lets the acting user through
  without the look into the hash (`User.cpp:1762`).
- A script that disconnects the next user of a ban's walk ends the walk early (`walk.cut`).
- After thinning, a user may be sent its own search (`thinned`).
- After an overflow the IPv4 branch of `ProcessQueues` reads a search that `Close` has deleted
  (`GlobalDataQueue.cpp:665`, `671`).
- `AddBot2MyInfos` (`colUsers.cpp:614`) makes the copy of the other `$MyINFO` list stale when the option of the full
  `$MyINFO` is 0 or 2: with these values a deflated list without the bot is served, and `ViewsExact` fails.
- The numbers of queues collide (`GlobalDataQueue.cpp:273`): `$Hello` adds 14 where the search part goes to 16. Members
  of different kinds then share the queue that the first of them built, an operator's included, against the comment at line 424.

Accept threads:

- A connection accepted while a suspension is in force is leaked; a thread whose socket a suspension
  closed while it was in `accept` is not woken by a stop; a suspension in the moment another one ends
  leaves a listening socket that nobody closes; a suspension without end that replaces a sleeping
  timed one can end at once; a resumed thread calls `accept(-1)` (`wasSuspended`).
- A port added by a change of the settings listens and has no thread (`ServerManager.cpp:595`, `618`).
- The hit counter of the flood guard is an `int16_t` that can go round inside a window (`wrapped`), and
  entries leave the map only when their own address comes back, so that a full map stays full.

Bans, registrations, profiles:

- A temporary ban of a user whose nick is under a permanent ban at another address bans the nick twice, against
  the comment at `hashBanManager.cpp:2018`.
- `PermUnban` and `TempUnban` of an address may lift a ban of the other kind. The functions that lift all bans of an address do
  not save.
- `AddProfile` and `SaveProfiles` read the empty place that `RemoveProfile` left: `shrink_to_fit` does not shorten the
  table (`ProfileManager.cpp:474`). The hub then dies (`hub = "dead"`).
- A nick promoted before it is in the lists, or while hidden, stands in the operator list once too often, and stays
  when its user has left (`EntriesMatchMembers`).

Life cycle and scripts:

- A restart and a shutdown in one batch: the hub restarts with `m_bIsClose` set. From then on shutdowns are
  ignored (`eventqueue.cpp:163`) and a signal ends the program without saving (`both`).
- `RSTSCRIPTS` behind `STOP_SCRIPTING` in one batch starts scripts although scripting is disabled; the
  command `!restartscripts` refuses that.
- An `OnStartup` that restarts a later script makes that one's `OnStartup` run twice in the same walk, whatever
  the comment at `LuaScriptManager.cpp:568` expects of `m_bProcessed`, which counts only after a move.
- A move made by a nested Lua call marks the scripts up to the inner caller, not those the outer walk has
  passed; a move made by top-level code enters scripts in the running list whose start has not ended, and
  `StartScript` then enters them again; a walk inside a walk resets `m_bMoved` of the outer one; a nested call can stop
  a script whose own code is on the stack (`unruly`).
- A script that stops or restarts itself from a coroutine is not deferred: `m_pLua == pLua` does not hold there
  (`LuaScriptManLib.cpp:267`, `321`), and the state whose code runs is closed at once. `MoveUp` and `MoveDown` from a coroutine mark
  every running script as processed (`LuaScriptManager.cpp:1008`), and the walk leaves out those that follow. Without
  the condition `~unruly` for these steps TLC finds `StatesOutliveCalls` and `RoundsExact` violated by them.
- `!startscript` takes a script that is not enabled for one that does not run and would start it a second
  time; `ListExact` shows that outside those histories there is none.

## 6. Not modelled, and the plan

To model next: callbacks inside `Close`; what scripts' messages do to the send buffer between two reads
of its length (`serviceLoop.cpp:587`); the login quota (`serviceLoop.cpp:543`); the operator list and UserIP
items of the queue; gags and the other hub commands; reconnect times; reserved nicks.

Not modelled at all:

- *UDP thread*: it parses a datagram and adds an event; it keeps no state of its own.
- *Settings, languages, texts, files, utilities*: values that others read, and their formats. A setting the modelled code reads is a
  CONSTANT, or a choice where it may change while the hub runs.
- *Compression, database, metrics, country lookup*: they decide nothing. That copies are compressed, and when they are stale,
  is in `Broadcast`.
- *The registration thread*, which reports to hub lists.
- *Port test server, vendored libraries, tests, load generators*: not part of the hub.
