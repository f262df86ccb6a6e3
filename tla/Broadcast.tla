------------------------------ MODULE Broadcast ------------------------------
(***************************************************************************)
(* Who is online, as every member is told it: the lists a new member gets  *)
(* (User::AddUserList) with their deflated copies, and the changes that    *)
(* everybody else gets from the global data queue, which is built once for *)
(* all members of a kind.  Lists are changed at once, the queue is sent by *)
(* the next send loop, and what happens during that loop waits for the one *)
(* after it.                                                               *)
(*                                                                         *)
(* A login is over in one step here, up to its place before the lists      *)
(* (STATE_ADDME_1LOOP); UserSession has it in full.  Of the queue's items  *)
(* there are those that tell of a nick: the others go the same way.        *)
(* known and untold are not in the code: what a member's client has been   *)
(* told, and the nicks of which the hub did not tell.                      *)
(***************************************************************************)
EXTENDS Integers, Sequences

CONSTANTS
    Conns,
    NoConn,
    Nick,             \* of the user of each connection
    Form,             \* the same: what decides on what it is sent
    Bots,             \* nicks of scripts' bots
    FullMyINFOOption, \* 0: everybody gets full $MyINFOs, 1: who may, 2: nobody
    MaxItems          \* bound: items that wait

Names == {Nick[c] : c \in Conns} \cup Bots
Forms == [share : BOOLEAN, v4 : BOOLEAN, v6 : BOOLEAN, active4 : BOOLEAN,
          active6 : BOOLEAN, hello : BOOLEAN, zpipe : BOOLEAN, full : BOOLEAN,
          op : BOOLEAN, userip : BOOLEAN, quick : BOOLEAN]

ASSUME BroadcastAssumption ==
    /\ NoConn \notin Conns
    /\ Form \in [Conns -> Forms]
    /\ Bots \cap {Nick[c] : c \in Conns} = {}
    /\ FullMyINFOOption \in 0 .. 2 /\ MaxItems \in Nat

VARIABLES
    user,     \* of each connection: its state, INFOBIT_HIDDEN, BIT_GETNICKLIST
    listed,   \* the nicks on the nick list, and on the $MyINFO lists in use
    deflated, \* the deflated copy of each list, Stale: its length is 0
    bots,     \* those registered now
    news,     \* m_NewQueueItems
    items,    \* m_QueueItems
    built,    \* m_GlobalQueues: those created in this send loop
    sending,  \* whether SendLoop runs,
    todo,     \* whom it has still to visit,
    visited,  \* and who is visited
    known,
    untold

broadcastVars ==
    <<user, listed, deflated, bots, news, items, built, sending, todo, visited,
      known, untold>>
queue == <<items, built, sending, todo, visited>>

Lists == {"nicks", "long", "short"}
Stale == {"stale"}
Item == [kind : {"hello", "myinfo", "quit"}, nick : Names]
Offline == [st |-> "none", hidden |-> FALSE, asks |-> FALSE]

BroadcastInit ==
    /\ user = [c \in Conns |-> Offline]
    /\ listed = {} /\ deflated = [l \in Lists |-> Stale] /\ bots = {}
    /\ news = <<>> /\ items = <<>> /\ built = <<>>
    /\ sending = FALSE /\ todo = {} /\ visited = NoConn
    /\ known = [c \in Conns |-> {}] /\ untold = {}
-----------------------------------------------------------------------------
In(c) == user[c].st = "in"
Listed(c) == user[c].st \in {"entering", "in"}
Told(kind, n) == [kind |-> kind, nick |-> n]
Tells(its) == news' = news \o its

(* Every change of a list makes its deflated copy stale.                   *)
Changes(names, lists) ==
    /\ listed' = names
    /\ deflated' = [l \in Lists |-> IF l \in lists THEN Stale ELSE deflated[l]]

(* User::Add2Userlist, and the removals in User::Close and HideUser: the   *)
(* nick list and the $MyINFO lists in use.                                 *)
ListsOf == {"nicks"} \cup (IF FullMyINFOOption # 2 THEN {"long"} ELSE {})
                     \cup (IF FullMyINFOOption # 0 THEN {"short"} ELSE {})
Add2UserlistKeepsCopies(n) == Changes(listed \cup {n}, {})
Add2Userlist(n) == Changes(listed \cup {n}, ListsOf)
Unlist(n) == Changes(listed \ {n}, IF n \in listed THEN ListsOf ELSE {})

(* User::Close for a user that may be on the lists.  (No script has set    *)
(* INFOBIT_NO_QUIT, which would keep the $Quit back.)                      *)
CloseTells(c, noQuit) ==
    IF Listed(c) /\ ~noQuit /\ ~user[c].hidden THEN <<Told("quit", Nick[c])>> ELSE <<>>
Close(c, noQuit, users) ==
    /\ user' = users
    /\ IF Listed(c) THEN Unlist(Nick[c]) ELSE UNCHANGED <<listed, deflated>>
    /\ Tells(CloseTells(c, noQuit))
    /\ untold' = IF Listed(c) /\ noQuit /\ ~user[c].hidden
                 THEN untold \cup {Nick[c]} ELSE untold
    /\ known' = [known EXCEPT ![c] = {}]
    /\ todo' = todo \ {c}
-----------------------------------------------------------------------------
(* In a receive loop anything may happen; in a send loop only what scripts *)
(* do when they hear that the visited user was closed.                     *)
Receiving == ~sending /\ Len(news) < MaxItems
Scripts == (sending => visited # NoConn /\ user[visited].st = "none")
           /\ Len(news) < MaxItems
NickFree(n) == \A c \in Conns : user[c].st # "none" => Nick[c] # n

LogIn(c) ==
    /\ Receiving /\ user[c].st = "none" /\ NickFree(Nick[c])
    /\ user' = [user EXCEPT ![c] = [Offline EXCEPT !.st = "waits"]]
    /\ UNCHANGED <<listed, deflated, bots, news, queue, known, untold>>

(* A registered user whose nick another connection holds closes that one   *)
(* with its password; with QuickList, without a $Quit.                     *)
TakeOver(c, ghost) ==
    /\ Receiving /\ user[c].st = "none"
    /\ ghost # c /\ user[ghost].st # "none" /\ Nick[ghost] = Nick[c]
    /\ Close(ghost, Form[c].quick,
             [user EXCEPT ![ghost] = Offline, ![c] = [Offline EXCEPT !.st = "waits"]])
    /\ UNCHANGED <<bots, items, built, sending, visited>>

(* STATE_ADDME_1LOOP: a hidden user is announced too, by its $Hello.       *)
EnterLists(c) ==
    LET n == Nick[c]
        hidden == user[c].hidden
    IN  /\ Receiving /\ user[c].st = "waits"
        /\ user' = [user EXCEPT ![c].st = "entering"]
        /\ IF hidden
           THEN /\ Tells(<<Told("hello", n)>>)
                /\ untold' = untold \cup {n}
                /\ UNCHANGED <<listed, deflated>>
           ELSE /\ Add2Userlist(n)
                /\ Tells(<<Told("hello", n), Told("myinfo", n)>>)
                /\ untold' = untold \ {n}
        /\ UNCHANGED <<bots, queue, known>>

(* A new $MyINFO of a member.                                              *)
Refresh(c) ==
    /\ Receiving /\ In(c) /\ ~user[c].hidden
    /\ Changes(listed \cup {Nick[c]}, ListsOf \ {"nicks"})
    /\ Tells(<<Told("myinfo", Nick[c])>>)
    /\ UNCHANGED <<user, bots, queue, known, untold>>

GetNickList(c) ==
    /\ Receiving /\ In(c) /\ ~Form[c].quick
    /\ user' = [user EXCEPT ![c].asks = TRUE]
    /\ UNCHANGED <<listed, deflated, bots, news, queue, known, untold>>

CloseUser(c) ==
    /\ Scripts /\ user[c].st # "none"
    /\ Close(c, FALSE, [user EXCEPT ![c] = Offline])
    /\ UNCHANGED <<bots, items, built, sending, visited>>

HideUser(c) ==
    /\ Scripts /\ user[c].st # "none" /\ ~user[c].hidden
    /\ user' = [user EXCEPT ![c].hidden = TRUE]
    /\ IF Listed(c) THEN Unlist(Nick[c]) /\ Tells(<<Told("quit", Nick[c])>>)
                    ELSE UNCHANGED <<listed, deflated, news>>
    /\ UNCHANGED <<bots, queue, known, untold>>

UnhideUser(c) ==
    /\ Scripts /\ user[c].hidden
    /\ user' = [user EXCEPT ![c].hidden = FALSE]
    /\ IF Listed(c)
       THEN /\ Add2Userlist(Nick[c])
            /\ Tells(<<Told("myinfo", Nick[c])>>)
            /\ untold' = untold \ {Nick[c]}
       ELSE UNCHANGED <<listed, deflated, news, untold>>
    /\ UNCHANGED <<bots, queue, known>>

(* Core.RegBot.  AddBot2MyInfos makes the copy of the other list stale:    *)
(* that is the same if both are in use.                                    *)
OtherList == IF FullMyINFOOption = 0 THEN {"short"}
             ELSE IF FullMyINFOOption = 2 THEN {"long"} ELSE {"long", "short"}
RegBot(b) ==
    /\ Scripts /\ b \notin bots
    /\ bots' = bots \cup {b}
    /\ Changes(listed \cup {b}, {"nicks"} \cup OtherList)
    /\ Tells(<<Told("hello", b), Told("myinfo", b)>>)
    /\ UNCHANGED <<user, queue, known, untold>>

UnregBot(b) ==
    /\ Scripts /\ b \in bots
    /\ bots' = bots \ {b}
    /\ Unlist(b) /\ Tells(<<Told("quit", b)>>)
    /\ UNCHANGED <<user, queue, known, untold>>
-----------------------------------------------------------------------------
(* SendCompressedOrPlain: the copy is made by the first who can read it;   *)
(* what does not become shorter is sent as it is.  Empty $MyINFO lists are *)
(* not sent.                                                               *)
Copies(lists, f) ==
    \/ /\ f.zpipe
       /\ deflated' = [l \in Lists |->
              IF l \in lists /\ deflated[l] = Stale /\ (listed # {} \/ l = "nicks")
              THEN listed ELSE deflated[l]]
    \/ UNCHANGED deflated
Sent(l, f, copies) == IF f.zpipe /\ copies[l] # Stale THEN copies[l] ELSE listed

MyINFOs(f) == IF FullMyINFOOption = 0 \/ (FullMyINFOOption = 1 /\ f.full)
              THEN "long" ELSE "short"
ListsFor(f) == {MyINFOs(f)} \cup (IF f.hello THEN {"nicks"} ELSE {})

(* A pinger asks for the lists, and is no member.                          *)
PingerLists(f) ==
    /\ ~sending /\ listed # {}
    /\ Copies({IF FullMyINFOOption = 2 THEN "short" ELSE "long"}
              \cup (IF f.hello THEN {"nicks"} ELSE {}), f)
    /\ UNCHANGED <<user, listed, bots, news, queue, known, untold>>

(* The number of a member's queue: its searches, then full $MyINFOs, then  *)
(* hellos, then an operator's data, then addresses of users.               *)
Search(f) ==
    IF ~f.share THEN 0
    ELSE IF ~f.v6 THEN IF f.active4 THEN 2 ELSE 8
    ELSE IF ~f.v4 THEN IF f.active6 THEN 4 ELSE 10
    ELSE IF f.active6 THEN IF f.active4 THEN 6 ELSE 14
    ELSE IF f.active4 THEN 16 ELSE 12
QueueType(f) ==
    Search(f) + (IF FullMyINFOOption = 1 /\ f.full THEN 1 ELSE 0)
    + (IF f.hello THEN 14 ELSE 0) + (IF f.op THEN 28 ELSE 0)
    + (IF f.userip THEN 56 ELSE 0)

(* ProcessQueues: the first member with a number builds the queue for all, *)
(* with the hellos or without them.                                        *)
ForMember(f) == [items |-> items, hellos |-> f.hello]
Queue(f) == IF QueueType(f) \in DOMAIN built THEN built[QueueType(f)] ELSE ForMember(f)
Builds(f) ==
    built' = [q \in DOMAIN built \cup {QueueType(f)} |->
                IF q \in DOMAIN built THEN built[q] ELSE ForMember(f)]

(* What a client makes of it: the last it hears of a nick decides.         *)
Of(q, n) == {i \in DOMAIN q.items :
               q.items[i].nick = n /\ (q.items[i].kind = "hello" => q.hellos)}
Hear(names, q) ==
    {n \in Names :
       IF Of(q, n) = {} THEN n \in names
       ELSE \E i \in Of(q, n) : /\ \A j \in Of(q, n) : j <= i
                               /\ q.items[i].kind # "quit"}
GetsLists(c) ==
    known[c] \cup UNION {Sent(l, Form[c], deflated') : l \in ListsFor(Form[c])}

(* PrepareQueueItems.                                                      *)
BeginSend ==
    /\ ~sending
    /\ sending' = TRUE /\ visited' = NoConn
    /\ todo' = {c \in Conns : Listed(c)}
    /\ items' = news /\ news' = <<>>
    /\ UNCHANGED <<user, listed, deflated, bots, built, known, untold>>

(* A new member gets the lists, and this loop's queue is not for it.       *)
VisitNew(c) ==
    /\ c \in todo /\ user[c].st = "entering"
    /\ user' = [user EXCEPT ![c] = [@ EXCEPT !.st = "in", !.asks = FALSE]]
    /\ Copies(ListsFor(Form[c]), Form[c])
    /\ known' = [known EXCEPT ![c] = GetsLists(c)]
    /\ todo' = todo \ {c} /\ visited' = c
    /\ UNCHANGED <<listed, bots, news, items, built, sending, untold>>

VisitMember(c) ==
    /\ c \in todo /\ In(c)
    /\ user' = [user EXCEPT ![c].asks = FALSE]
    /\ IF user[c].asks THEN Copies(ListsFor(Form[c]), Form[c]) ELSE UNCHANGED deflated
    /\ LET before == IF user[c].asks THEN GetsLists(c) ELSE known[c]
       IN  known' = [known EXCEPT ![c] = Hear(before, Queue(Form[c]))]
    /\ IF items # <<>> THEN Builds(Form[c]) ELSE UNCHANGED built
    /\ todo' = todo \ {c} /\ visited' = c
    /\ UNCHANGED <<listed, bots, news, items, sending, untold>>

(* Try2Send of the visited user fails.                                     *)
SendToVisitedFails ==
    /\ sending /\ visited # NoConn /\ In(visited)
    /\ Close(visited, FALSE, [user EXCEPT ![visited] = Offline])
    /\ UNCHANGED <<bots, items, built, sending, visited>>

(* ClearQueues.                                                            *)
ClearQueuesKeepsThem == items' = <<>> /\ UNCHANGED built
ClearQueues == items' = <<>> /\ built' = <<>>
EndSend ==
    /\ sending /\ todo = {}
    /\ sending' = FALSE /\ visited' = NoConn
    /\ ClearQueues
    /\ UNCHANGED <<user, listed, deflated, bots, news, todo, known, untold>>

BroadcastNext ==
    \/ \E c \in Conns :
         \/ LogIn(c) \/ EnterLists(c) \/ Refresh(c) \/ GetNickList(c)
         \/ CloseUser(c) \/ HideUser(c) \/ UnhideUser(c)
         \/ VisitNew(c) \/ VisitMember(c) \/ PingerLists(Form[c])
         \/ \E ghost \in Conns : TakeOver(c, ghost)
    \/ \E b \in Bots : RegBot(b) \/ UnregBot(b)
    \/ BeginSend \/ SendToVisitedFails \/ EndSend

BroadcastSpec == BroadcastInit /\ [][BroadcastNext]_broadcastVars
-----------------------------------------------------------------------------
(* Well typed: a queue that was built in this loop is of the items of this *)
(* loop (ProcessQueues, ClearQueues), with the hellos or without them.     *)
BroadcastTypeOK ==
    /\ user \in [Conns -> [st : {"none", "waits", "entering", "in"},
                           hidden : BOOLEAN, asks : BOOLEAN]]
    /\ listed \subseteq Names /\ deflated \in [Lists -> SUBSET (Names \cup Stale)]
    /\ bots \subseteq Bots
    /\ news \in Seq(Item) /\ items \in Seq(Item)
    /\ \A q \in DOMAIN built : built[q] \in [items : {items}, hellos : BOOLEAN]
    /\ sending \in BOOLEAN /\ todo \subseteq Conns /\ visited \in Conns \cup {NoConn}
    /\ known \in [Conns -> SUBSET Names] /\ untold \subseteq Names

(* What a member will know once it has heard what waits for it.            *)
All(its) == [items |-> its, hellos |-> TRUE]
WillKnow(c) ==
    Hear(IF c \in todo THEN Hear(known[c], All(items)) ELSE known[c], All(news))

(* Every member knows who is online, up to what waits for it in the queue  *)
(* of this pass and of the next: whatever came between the lists it got    *)
(* (AddUserList, their deflated copies) and the queue that is built for it *)
(* by somebody else (ProcessQueues).  Excepted are the nicks the hub says  *)
(* nothing of on purpose, until it next speaks of them: a hidden user's,   *)
(* whose $Hello is sent all the same, and that of a ghost closed without a *)
(* $Quit for its successor.                                                *)
ViewsExact ==
    \A c \in Conns : In(c) => WillKnow(c) \ untold = listed \ untold
=============================================================================
