------------------------------- MODULE Members -------------------------------
(***************************************************************************)
(* What members send to each other: passes of the service loop over the    *)
(* list of users, in which each is heard (DoRecv), then has its turn, and  *)
(* a send loop at the end.  A command for another member waits with its    *)
(* sender, by the target's address and nick; a search waits for the pass   *)
(* that sends searches out.  The limits on commands are CommandFlood's.    *)
(*                                                                         *)
(* A slot is the address of a User object: the allocator may give it to    *)
(* the next user.  meant and live of a waiting command are not in the      *)
(* code: the nicks it was written for, and whether its target still is.    *)
(* mail is what the last step delivered.                                   *)
(***************************************************************************)
EXTENDS Integers, Sequences, FiniteSets, SequencesExt

CONSTANTS
    Slots,
    Nicks,
    NoNick,
    Profile,      \* nick -> number of its profile, -1: none
    Rights,       \* nick -> rights of its profile
    Forms,        \* [v4, v6, active4, active6, tagged : BOOLEAN]: addresses and
                  \* modes a member may show
    MaxPm,        \* SETSHORT_MAX_PM_COUNT_TO_USER, 0: no limit
    MaxAnswers,   \* SETSHORT_MAX_PASIVE_SR, 0: no limit
    SearchRounds, \* 7: passes until searches are sent out
    ActiveMany,   \* 5: searches that send them out at once
    Many          \* 8

FormSet == [v4 : BOOLEAN, v6 : BOOLEAN, active4 : BOOLEAN, active6 : BOOLEAN,
            tagged : BOOLEAN]

ASSUME MembersAssumption ==
    /\ NoNick \notin Nicks
    /\ MaxPm \in Nat /\ MaxAnswers \in Nat
    /\ SearchRounds \in Nat \ {0} /\ ActiveMany \in Nat /\ Many \in Nat
    /\ IsFiniteSet(Slots) /\ Forms \subseteq FormSet

VARIABLES
    user,     \* of each slot
    order,    \* the list of users
    at,       \* whose turn it is, 0: before a pass
    heard,    \* whether it was heard already
    pending,  \* m_CmdToUserList, one command for each address
    search,   \* its searches that wait: "four", "six", "passive"
    act, pas, \* m_ui16ActSearchs, m_ui16PasSearchs
    sr,       \* m_ui8SrCntr
    mail

vars == <<user, order, at, heard, pending, search, act, pas, sr, mail>>

States == {"free", "accepted", "login", "hashed", "adding", "in", "closing", "gone"}
Leaving == {"free", "closing", "gone"}
Named == {"hashed", "adding", "in"}
NoForm == [v4 |-> FALSE, v6 |-> FALSE, active4 |-> FALSE, active6 |-> FALSE, tagged |-> FALSE]
NoUser == [st |-> "free", nick |-> NoNick, form |-> NoForm, answers |-> 0, got |-> 0]

Init ==
    /\ user = [s \in Slots |-> NoUser]
    /\ order = <<>> /\ at = 0 /\ heard = FALSE
    /\ pending = [s \in Slots |-> {}] /\ search = [s \in Slots |-> {}]
    /\ act = 0 /\ pas = 0 /\ sr = 0 /\ mail = {}

Command == [to : Slots, nick : Nicks, pm : Nat, loops : 0 .. 2,
            meant : SUBSET Nicks, live : BOOLEAN]
TypeOK ==
    /\ user \in [Slots -> [st : States, nick : Nicks \cup {NoNick}, form : FormSet,
                         answers : Nat, got : Nat]]
    /\ order \in Seq(Slots) /\ at \in 0 .. Len(order) + 1 /\ heard \in BOOLEAN
    /\ pending \in [Slots -> SUBSET Command]
    /\ search \in [Slots -> SUBSET {"four", "six", "passive"}]
    /\ act \in Nat /\ pas \in Nat /\ sr \in 0 .. SearchRounds - 1
-----------------------------------------------------------------------------
Hashed(s) == user[s].st \in Named
Current == order[at]
Of(right, u) == right \in Rights[user[u].nick]

(* FindUser: the table of nicks.                                           *)
Found(nick, s) == Hashed(s) /\ user[s].nick = nick

(* AddPrcsdCmd: a second command for the same address joins the first.     *)
Adds(u, t, pm) ==
    LET same == {item \in pending[u] : item.to = t}
        more(item) == [item EXCEPT !.pm = @ + pm, !.meant = @ \cup {user[t].nick}]
        new == [to |-> t, nick |-> user[t].nick, pm |-> pm, loops |-> 0,
                meant |-> {user[t].nick}, live |-> TRUE]
    IN  pending' = [pending EXCEPT ![u] =
          IF same = {} THEN @ \cup {new}
          ELSE (@ \ same) \cup {more(item) : item \in same}]

(* User::Close: the nick leaves the table at once and everything the user  *)
(* had waiting is dropped; it goes at its turn, when what it is still to   *)
(* be told is sent ("closing") or there is nothing to send.                *)
Close(t, others) ==
    /\ \E st \in {"closing", "gone"} : user' = [user EXCEPT ![t].st = st]
    /\ pending' = [others EXCEPT ![t] = {}]
    /\ search' = [search EXCEPT ![t] = {}]
-----------------------------------------------------------------------------
(* A member is heard.  One command a turn.                                 *)
Heard ==
    /\ at \in 1 .. Len(order) /\ ~heard
    /\ heard' = TRUE
    /\ UNCHANGED <<order, at, sr>>
Speaks == Heard /\ user[Current].st = "in"
Quietly == mail' = {}
Searches == <<search, act, pas>>

Other(t) == t # Current /\ user[t].st = "in"

(* $ConnectToMe and $MultiConnectToMe.  A wrong port closes; a wrong IP is *)
(* corrected, if both members have addresses of a kind.                    *)
Reach(u, t) ==
    \/ user[u].form.v6 /\ user[t].form.v6
    \/ user[u].form.v4 /\ user[t].form.v4
CorrectedConnectToMe(t) ==
    LET u == Current
    IN  /\ Speaks /\ Other(t) /\ ~Of("noipcheck", u)
        /\ IF Reach(u, t) THEN Adds(u, t, 0) ELSE UNCHANGED pending
        /\ Quietly /\ UNCHANGED <<user, Searches>>
ConnectToMe(t) ==
    /\ Speaks /\ Other(t)
    /\ Adds(Current, t, 0)
    /\ Quietly /\ UNCHANGED <<user, Searches>>
BadPort == Speaks /\ ~Of("noipcheck", Current)
           /\ Close(Current, pending) /\ Quietly /\ UNCHANGED <<act, pas>>

(* Without a tag the commands tell whether a member is active.             *)
Mode(u, active) == IF user[u].form.tagged THEN user[u]
                   ELSE [user[u] EXCEPT !.form.active4 = active]
RevConnectToMe(t) ==
    /\ Speaks /\ Other(t)
    /\ Adds(Current, t, 0)
    /\ user' = [user EXCEPT ![Current] = Mode(Current, FALSE)]
    /\ Quietly /\ UNCHANGED Searches

(* An answer to a passive search; more than MaxAnswers are dropped.        *)
SR(t) ==
    LET full == MaxAnswers # 0 /\ user[t].answers >= MaxAnswers
    IN  /\ Speaks /\ Other(t)
        /\ IF full THEN UNCHANGED <<pending, user>>
           ELSE /\ Adds(Current, t, 0)
                /\ user' = [user EXCEPT ![t].answers = IF MaxAnswers = 0 THEN 0 ELSE @ + 1]
        /\ Quietly /\ UNCHANGED Searches

To(t) ==
    /\ Speaks /\ Other(t)
    /\ Adds(Current, t, 1)
    /\ Quietly /\ UNCHANGED <<user, Searches>>

(* AddSearch: every search counts, the first of a kind and what joins it.  *)
OfKinds(made, kinds) == {i \in DOMAIN made : made[i] \in kinds}
AddSearches(u, made) ==
    /\ search' = [search EXCEPT ![u] = @ \cup ToSet(made)]
    /\ act' = act + Cardinality(OfKinds(made, {"four", "six"}))
    /\ pas' = pas + Cardinality(OfKinds(made, {"passive"}))

(* A passive search has its sender's nick, and opens it for answers.       *)
PassiveSearch ==
    LET u == Current
    IN  /\ Speaks
        /\ user' = [user EXCEPT ![u] = [Mode(u, FALSE) EXCEPT !.answers = 0]]
        /\ AddSearches(u, <<"passive">>)
        /\ Quietly /\ UNCHANGED pending

(* An active search has its sender's address: a wrong one is corrected     *)
(* into searches of each kind the sender has.                              *)
InKind(active, kind) == IF active THEN <<kind>> ELSE <<"passive">>
Corrected(f) ==
    IF f.v6 THEN InKind(f.active6, "six") \o (IF f.v4 THEN InKind(f.active4, "four") ELSE <<>>)
    ELSE IF f.v4 THEN <<"four">> ELSE <<>>
CorrectedSearch ==
    LET u == Current
        m == Mode(u, TRUE)
    IN  /\ Speaks /\ ~Of("noipcheck", u)
        /\ user' = [user EXCEPT ![u] = m]
        /\ AddSearches(u, Corrected(m.form))
        /\ Quietly /\ UNCHANGED pending
RightSearches(f, six) ==
    IF ~(f.v6 /\ six) THEN <<"four">>
    ELSE <<"six">> \o (IF f.v4 THEN InKind(f.active4, "four") ELSE <<>>)
ActiveSearch(six) ==
    LET u == Current
        m == Mode(u, TRUE)
    IN  /\ Speaks
        /\ (IF six THEN m.form.v6 ELSE m.form.v4) \/ Of("noipcheck", u)
        /\ user' = [user EXCEPT ![u] = m]
        /\ AddSearches(u, RightSearches(m.form, six))
        /\ Quietly /\ UNCHANGED pending

(* A new $MyINFO may change the tag; who breaks the rules then is closed.  *)
MyINFO(f) ==
    LET old == user[Current].form
    IN  /\ Speaks
        /\ f # old /\ f.v4 = old.v4 /\ f.v6 = old.v6
        /\ user' = [user EXCEPT ![Current].form = f]
        /\ Quietly /\ UNCHANGED <<pending, Searches>>
BreaksRules == Speaks
               /\ Close(Current, pending) /\ Quietly /\ UNCHANGED <<act, pas>>
-----------------------------------------------------------------------------
(* An operator closes a user that has a nick, in whatever state; who is    *)
(* registered with a better profile is protected.                          *)
MayRemove(u, right, t) ==
    /\ Of(right, u)
    /\ t # u /\ Hashed(t)
    /\ LET p == Profile[user[t].nick] IN p = -1 \/ Profile[user[u].nick] <= p

CloseOther(t) ==    \* DcCommands::Close
    /\ Speaks /\ MayRemove(Current, "close", t)
    /\ Close(t, pending) /\ Quietly /\ UNCHANGED <<act, pas>>
OpForceMove(t) ==
    /\ Speaks /\ MayRemove(Current, "redirect", t)
    /\ Close(t, pending) /\ Quietly /\ UNCHANGED <<act, pas>>

(* $Kick gives the kicked what its kicker had waiting for it, found by its *)
(* address.  A text that asks for a ban needs the right to ban.            *)
Gives(u, t) ==
    LET its == {item \in pending[u] : item.to = t}
    IN  [left |-> pending[u] \ its, got |-> {[to |-> t, meant |-> item.meant] : item \in its}]
Kick(t) ==
    LET given == Gives(Current, t)
    IN  /\ Speaks /\ MayRemove(Current, "kick", t)
        /\ Close(t, [pending EXCEPT ![Current] = given.left])
        /\ mail' = given.got
        /\ UNCHANGED <<act, pas>>
KickRefused(t) ==
    LET given == Gives(Current, t)
    IN  /\ Speaks /\ MayRemove(Current, "kick", t) /\ ~Of("ban", Current)
        /\ pending' = [pending EXCEPT ![Current] = given.left]
        /\ mail' = given.got
        /\ UNCHANGED <<user, Searches>>

(* Who logs in gets a nick no other user has, in one turn if all it has to *)
(* say comes at once; others fail.                                         *)
LogsIn(nick, f) ==
    /\ Heard /\ user[Current].st = "login"
    /\ \A s \in Slots : ~Found(nick, s)
    /\ user' = [user EXCEPT ![Current].st = "hashed", ![Current].nick = nick,
                            ![Current].form = f]
    /\ Quietly /\ UNCHANGED <<pending, Searches>>
Fails ==    \* an error of the socket, a bad command, a login that is refused
    /\ Heard /\ user[Current].st \notin Leaving \cup {"accepted"}
    /\ Close(Current, pending) /\ Quietly /\ UNCHANGED <<act, pas>>
-----------------------------------------------------------------------------
(* The turns.                                                              *)
Turn(st) == at \in 1 .. Len(order) /\ user[Current].st = st
NextTurn == at' = at + 1 /\ heard' = FALSE /\ UNCHANGED order
Becomes(st) == user' = [user EXCEPT ![Current].st = st]

(* The lock is sent in the second after the one it was accepted in.        *)
Accepted ==
    /\ Turn("accepted")
    /\ Becomes("login") \/ UNCHANGED user
    /\ NextTurn /\ Quietly /\ UNCHANGED <<pending, Searches, sr>>
LoggingIn ==
    /\ \E st \in {"login", "hashed", "adding"} : Turn(st)
    /\ (Turn("hashed") /\ Becomes("adding")) \/ UNCHANGED user
    /\ NextTurn /\ Quietly /\ UNCHANGED <<pending, Searches, sr>>

(* A member's commands are delivered in the second turn after the one they *)
(* came in, if the nick they are for still is at the address they are for. *)
RipeLate(item) == item.loops >= 3    \* mutant: waits one pass more
Ripe(item) == item.loops >= 2
Overrun(item) == MaxPm # 0 /\ item.pm # 0 /\ user[item.to].got >= MaxPm
ThereByAddress(item) == TRUE    \* mutant: nobody asks the table
There(item) == Found(item.nick, item.to)
Waiting(items) == {[item EXCEPT !.loops = @ + 1] : item \in {i \in items : ~Ripe(i)}}
MemberTurn ==
    LET u == Current
        ripe == {i \in pending[u] : Ripe(i) /\ There(i)}
        full == {i \in ripe : Overrun(i)}
    IN  /\ Turn("in")
        /\ \E over \in SUBSET full :    \* their minute is over
             LET sent == (ripe \ full) \cup over
                 Counted(s, i) == [user[s] EXCEPT !.got = (IF i \in full THEN 0 ELSE @) + i.pm]
             IN  /\ mail' = {[to |-> i.to, meant |-> i.meant] : i \in sent}
                 /\ user' = [s \in Slots |->
                      IF MaxPm = 0 \/ ~\E i \in sent : i.to = s THEN user[s]
                      ELSE Counted(s, CHOOSE i \in sent : i.to = s)]
        /\ pending' = [pending EXCEPT ![u] = Waiting(@)]
        /\ search' = [search EXCEPT ![u] = IF sr = 0 THEN @ \ {"passive"} ELSE @]
        /\ NextTurn /\ UNCHANGED <<act, pas, sr>>

Drains ==    \* still told what it is to be told, or done
    /\ Turn("closing")
    /\ Becomes("gone") \/ UNCHANGED user
    /\ NextTurn /\ Quietly /\ UNCHANGED <<pending, Searches, sr>>
Removed ==    \* RemUser: the object is freed
    /\ Turn("gone")
    /\ order' = RemoveAt(order, at)
    /\ user' = [user EXCEPT ![Current] = NoUser]
    /\ pending' = [s \in Slots |->
         {[item EXCEPT !.live = @ /\ item.to # Current] : item \in pending[s]}]
    /\ heard' = FALSE
    /\ Quietly /\ UNCHANGED <<at, Searches, sr>>

(* A pass starts with a connection that was accepted, or none.             *)
SendsSearches == sr + 1 >= SearchRounds \/ act + pas > Many \/ act > ActiveMany
Pass ==
    /\ at = 0
    /\ sr' = IF SendsSearches THEN 0 ELSE sr + 1
    /\ at' = 1 /\ heard' = FALSE
    /\ \/ UNCHANGED <<user, order>>
       \/ \E s \in Slots :
            /\ user[s].st = "free"
            /\ user' = [user EXCEPT ![s].st = "accepted"]
            /\ order' = Append(order, s)
    /\ Quietly /\ UNCHANGED <<pending, Searches>>

(* The end of the pass, and the send loop: searches that were sent out are *)
(* not counted any more; who joins is a member now; sending may fail.      *)
CountsAlways(n) == 0    \* mutant: forgotten after every pass
Counts(n) == IF sr = 0 THEN 0 ELSE n
SendLoop ==
    /\ at = Len(order) + 1
    /\ act' = Counts(act) /\ pas' = Counts(pas)
    /\ \E failed \in SUBSET {s \in Slots : user[s].st \notin Leaving} :
         /\ user' = [s \in Slots |->
              IF s \in failed THEN [user[s] EXCEPT !.st = "gone"]
              ELSE IF user[s].st = "adding" THEN [user[s] EXCEPT !.st = "in"] ELSE user[s]]
         /\ pending' = [s \in Slots |-> IF s \in failed THEN {} ELSE pending[s]]
         /\ search' = [s \in Slots |->
              IF s \in failed THEN {}
              ELSE IF sr = 0 /\ user[s].st = "in" THEN search[s] \ {"four", "six"}
              ELSE search[s]]
    /\ at' = 0
    /\ Quietly /\ UNCHANGED <<order, heard, sr>>

Next ==
    \/ \E t \in Slots :
         \/ CorrectedConnectToMe(t) \/ ConnectToMe(t) \/ RevConnectToMe(t) \/ SR(t) \/ To(t)
         \/ CloseOther(t) \/ OpForceMove(t) \/ Kick(t) \/ KickRefused(t)
    \/ PassiveSearch \/ CorrectedSearch
    \/ \E six \in BOOLEAN : ActiveSearch(six)
    \/ \E f \in Forms : MyINFO(f)
    \/ \E nick \in Nicks, f \in Forms : LogsIn(nick, f)
    \/ BadPort \/ BreaksRules \/ Fails
    \/ Accepted \/ LoggingIn \/ MemberTurn \/ Drains \/ Removed
    \/ Pass \/ SendLoop

Spec == Init /\ [][Next]_vars
-----------------------------------------------------------------------------
(* A command that waits for a user that is gone never points to another    *)
(* user that can be found: it would be joined by commands for the new one, *)
(* which nobody would get, and $Kick would give it to the new one.  The    *)
(* object may be used again at once; what saves it is that a new user      *)
(* takes longer to get a nick than a command waits (AddPrcsdCmd, Kick).    *)
PendingPointersSafe ==
    \A s \in Slots : \A item \in pending[s] : ~item.live => ~Hashed(item.to)

(* What is delivered, at the turn of its sender or at a kick, goes to a    *)
(* user that is there under the nick it was sent to, and to no freed one   *)
(* (the delivery in ReceiveLoop, Kick).                                    *)
DeliveredAsMeant ==
    [][\A m \in mail' : Hashed(m.to) /\ m.meant = {user[m.to].nick}]_vars

(* Between passes every search that waits is still counted, so that the    *)
(* many that send searches out at once are counted from all of them        *)
(* (AddSearch, the reset at the end of ReceiveLoop).                       *)
WaitingSearchesCounted ==
    at = 0 =>
      /\ Cardinality({w \in Slots \X {"four", "six"} : w[2] \in search[w[1]]}) <= act
      /\ Cardinality({s \in Slots : "passive" \in search[s]}) <= pas

=============================================================================
