----------------------------- MODULE Members_proof -----------------------------
(***************************************************************************)
(* Theorems about Members, for any slots, nicks, rights and limits: what   *)
(* waits for a user that is gone never points to one that can be found,    *)
(* what is delivered reaches whom it was meant for, and the searches that  *)
(* wait are counted.                                                       *)
(***************************************************************************)
EXTENDS Members, FiniteSetTheorems, TLAPS

SearchKinds == {"four", "six", "passive"}
Users == [st : States, nick : Nicks \cup {NoNick}, form : FormSet, answers : Nat, got : Nat]

WellTyped ==
    /\ user \in [Slots -> Users]
    /\ order \in Seq(Slots) /\ at \in 0 .. Len(order) + 1 /\ heard \in BOOLEAN
    /\ pending \in [Slots -> SUBSET Command] /\ search \in [Slots -> SUBSET SearchKinds]
    /\ act \in Nat /\ pas \in Nat /\ sr \in 0 .. SearchRounds - 1

LEMMA UsersTyped == (TypeOK <=> WellTyped) /\ (TypeOK' <=> WellTyped')
BY DEF TypeOK, WellTyped, Users, SearchKinds

\* The list without one of its users.
LEMMA WithoutPlace ==
    ASSUME NEW p \in 1 .. Len(order), order \in Seq(Slots)
    PROVE  /\ RemoveAt(order, p) \in Seq(Slots)
           /\ Len(RemoveAt(order, p)) = Len(order) - 1
           /\ \A i \in 1 .. Len(order) - 1 :
                RemoveAt(order, p)[i] = IF i < p THEN order[i] ELSE order[i + 1]
<1> DEFINE a == SubSeq(order, 1, p - 1)
           b == SubSeq(order, p + 1, Len(order))
<1>1. /\ a \in Seq(Slots) /\ b \in Seq(Slots)
      /\ Len(a) = p - 1 /\ Len(b) = Len(order) - p
      /\ \A i \in 1 .. p - 1 : a[i] = order[i]
      /\ \A i \in 1 .. Len(order) - p : b[i] = order[p + i]
  OBVIOUS
<1>2. RemoveAt(order, p) = a \o b
  BY DEF RemoveAt
<1> HIDE DEF a, b
<1>3. a \o b \in Seq(Slots) /\ Len(a \o b) = Len(order) - 1
  <2>1. \A s, t \in Seq(Slots) : s \o t \in Seq(Slots) /\ Len(s \o t) = Len(s) + Len(t)
    OBVIOUS
  <2>2. a \o b \in Seq(Slots) /\ Len(a \o b) = (p - 1) + (Len(order) - p)
    BY <1>1, <2>1
  <2>3. Len(order) \in Nat
    OBVIOUS
  <2> QED BY <2>2, <2>3
<1>4. ASSUME NEW i \in 1 .. Len(order) - 1
      PROVE  (a \o b)[i] = IF i < p THEN order[i] ELSE order[i + 1]
  <2>0. Len(order) \in Nat
    OBVIOUS
  <2>1. CASE i < p
    BY <2>0, <2>1, <1>1
  <2>2. CASE ~(i < p)
    <3>1. i - (p - 1) \in 1 .. Len(order) - p
      BY <2>0, <2>2
    <3>2. (a \o b)[i] = b[i - (p - 1)]
      BY <2>0, <2>2, <1>1
    <3>3. b[i - (p - 1)] = order[p + (i - (p - 1))] /\ p + (i - (p - 1)) = i + 1
      BY <3>1, <1>1, <2>0
    <3> QED BY <3>2, <3>3, <2>2, <2>0
  <2> QED BY <2>0, <2>1, <2>2
<1> QED BY <1>2, <1>3, <1>4

LEMMA SpeakerType ==
    ASSUME TypeOK, at \in 1 .. Len(order)
    PROVE  Current \in Slots
BY DEF TypeOK, Current
-----------------------------------------------------------------------------
\* Types.


\* Who has a nick has one of the hub's.
NamedUsers == \A s \in Slots : Hashed(s) => user[s].nick \in Nicks

LEMMA AddsType ==
    ASSUME TypeOK, NamedUsers, NEW u \in Slots, NEW t \in Slots, user[t].st = "in",
           NEW pm \in Nat, Adds(u, t, pm)
    PROVE  pending' \in [Slots -> SUBSET Command]
<1> DEFINE more(item) == [item EXCEPT !.pm = @ + pm, !.meant = @ \cup {user[t].nick}]
           new == [to |-> t, nick |-> user[t].nick, pm |-> pm, loops |-> 0,
                   meant |-> {user[t].nick}, live |-> TRUE]
           same == {item \in pending[u] : item.to = t}
<1>0. user[t].nick \in Nicks
  BY DEF NamedUsers, Hashed, Named
<1>1. \A item \in Command : more(item) \in Command
  <2> SUFFICES ASSUME NEW item \in Command PROVE more(item) \in Command
    OBVIOUS
  <2>1. item.pm + pm \in Nat /\ item.meant \cup {user[t].nick} \in SUBSET Nicks
    BY <1>0 DEF Command
  <2> QED BY <2>1 DEF Command
<1>2. new \in Command
  BY <1>0 DEF Command
<1>3. pending \in [Slots -> SUBSET Command]
  BY DEF TypeOK
<1>4. pending' = [pending EXCEPT ![u] = IF same = {} THEN @ \cup {new}
                                        ELSE (@ \ same) \cup {more(item) : item \in same}]
  BY DEF Adds
<1> HIDE DEF more, new
<1>5. (pending[u] \ same) \cup {more(item) : item \in same} \in SUBSET Command
  BY <1>1, <1>3
<1> QED BY <1>2, <1>3, <1>4, <1>5

LEMMA CloseType ==
    ASSUME TypeOK, NEW t \in Slots, NEW others \in [Slots -> SUBSET Command],
           Close(t, others)
    PROVE  /\ user' \in [Slots -> Users]
           /\ pending' \in [Slots -> SUBSET Command]
           /\ search' \in [Slots -> SUBSET SearchKinds]
           /\ \E st \in {"closing", "gone"} : user' = [user EXCEPT ![t].st = st]
<1>1. user \in [Slots -> Users] /\ search \in [Slots -> SUBSET SearchKinds]
  BY UsersTyped DEF WellTyped
<1>2. ASSUME NEW st \in {"closing", "gone"} PROVE [user EXCEPT ![t].st = st] \in [Slots -> Users]
  BY <1>1 DEF Users, States
<1> QED BY <1>1, <1>2 DEF Close

\* The forms a search takes.
LEMMA SearchTypes ==
    ASSUME NEW f \in FormSet, NEW six \in BOOLEAN
    PROVE  Corrected(f) \in Seq(SearchKinds) /\ RightSearches(f, six) \in Seq(SearchKinds)
<1>0. \A k \in SearchKinds : <<k>> \in Seq(SearchKinds)
  OBVIOUS
<1>1. \A active \in BOOLEAN, k \in SearchKinds : InKind(active, k) \in Seq(SearchKinds)
  <2>1. "passive" \in SearchKinds
    BY DEF SearchKinds
  <2> QED BY <1>0, <2>1 DEF InKind
<1>2. <<>> \in Seq(SearchKinds) /\ <<"four">> \in Seq(SearchKinds) /\ <<"six">> \in Seq(SearchKinds)
  BY DEF SearchKinds
<1>3. "four" \in SearchKinds /\ "six" \in SearchKinds
  BY DEF SearchKinds
<1>4. f.active4 \in BOOLEAN /\ f.active6 \in BOOLEAN
  BY DEF FormSet
<1>5. \A a, b \in Seq(SearchKinds) : a \o b \in Seq(SearchKinds)
  OBVIOUS
<1> HIDE DEF SearchKinds
<1>6. InKind(f.active4, "four") \in Seq(SearchKinds) /\ InKind(f.active6, "six") \in Seq(SearchKinds)
  BY <1>1, <1>3, <1>4
<1> QED BY <1>2, <1>5, <1>6 DEF Corrected, RightSearches

LEMMA SearchesType ==
    ASSUME TypeOK, NEW u \in Slots, NEW made \in Seq(SearchKinds), AddSearches(u, made)
    PROVE  /\ search' \in [Slots -> SUBSET SearchKinds]
           /\ act' \in Nat /\ pas' \in Nat
<1>1. \A K : IsFiniteSet(OfKinds(made, K)) /\ Cardinality(OfKinds(made, K)) \in Nat
  <2>1. IsFiniteSet(1 .. Len(made)) /\ DOMAIN made = 1 .. Len(made)
    BY FS_Interval
  <2> QED BY <2>1, FS_Subset, FS_CardinalityType DEF OfKinds
<1>2. ToSet(made) \subseteq SearchKinds
  BY DEF ToSet
<1> QED BY <1>1, <1>2, UsersTyped DEF WellTyped, AddSearches

LEMMA ModeType ==
    ASSUME TypeOK, NEW u \in Slots, NEW active \in BOOLEAN
    PROVE  /\ Mode(u, active) \in Users
           /\ Mode(u, active).st = user[u].st /\ Mode(u, active).nick = user[u].nick
<1>1. user[u] \in Users
  BY UsersTyped DEF WellTyped
<1> QED BY <1>1 DEF Mode, Users, FormSet

\* Who waits, and the places of the list.
OrderInv ==
    /\ \A i, j \in DOMAIN order : order[i] = order[j] => i = j
    /\ \A s \in Slots : user[s].st # "free" <=> \E i \in DOMAIN order : order[i] = s

\* The users without their forms and counters.
SamePeople ==
    /\ user' \in [Slots -> Users]
    /\ \A s \in Slots : user'[s].st = user[s].st /\ user'[s].nick = user[s].nick

TypeInv == TypeOK /\ NamedUsers /\ OrderInv

LEMMA TypeInit == Init => TypeInv
<1> SUFFICES ASSUME Init PROVE TypeInv
  OBVIOUS
<1>1. NoUser \in Users
  BY DEF NoUser, Users, States, FormSet, NoForm
<1>2. user \in [Slots -> Users] /\ pending \in [Slots -> SUBSET Command]
      /\ search \in [Slots -> SUBSET SearchKinds] /\ order = <<>> /\ at = 0 /\ sr = 0
      /\ act = 0 /\ pas = 0 /\ heard = FALSE
  BY <1>1 DEF Init
<1>3. TypeOK
  <2>1. 0 \in 0 .. Len(<<>>) + 1 /\ 0 \in 0 .. SearchRounds - 1 /\ <<>> \in Seq(Slots)
    BY MembersAssumption
  <2> QED BY <2>1, <1>2, UsersTyped DEF WellTyped
<1>4. NamedUsers
  BY DEF Init, NamedUsers, Hashed, Named, NoUser
<1>5. OrderInv
  BY DEF Init, OrderInv, NoUser
<1> QED BY <1>3, <1>4, <1>5 DEF TypeInv

-----------------------------------------------------------------------------
\* What a member is heard to say is one of these: it moves nobody in the list.
Said ==
    /\ at \in 1 .. Len(order) /\ user[Current].st = "in"
    /\ UNCHANGED <<order, at, sr>> /\ heard' \in BOOLEAN
    /\ SamePeople
Left(t) == [pending EXCEPT ![Current] = Gives(Current, t).left]
Asks == Said /\ UNCHANGED <<pending, search, act, pas>> /\ mail' = {}
Sends ==
    /\ Said /\ UNCHANGED <<search, act, pas>> /\ mail' = {}
    /\ \E t \in Slots, pm \in {0, 1} : user[t].st = "in" /\ Adds(Current, t, pm)
Seeks ==
    /\ Said /\ UNCHANGED pending /\ mail' = {}
    /\ \E made \in Seq(SearchKinds) : AddSearches(Current, made)
Given ==
    /\ Said /\ UNCHANGED <<search, act, pas>>
    /\ \E t \in Slots : Hashed(t) /\ mail' = Gives(Current, t).got /\ pending' = Left(t)
Closes ==
    /\ at \in 1 .. Len(order) /\ UNCHANGED <<order, at, sr, act, pas>> /\ heard' \in BOOLEAN
    /\ \E t \in Slots :
         /\ t = Current \/ Hashed(t)
         /\ user[t].st \notin Leaving \cup {"accepted"}
         /\ \/ Close(t, pending) /\ mail' = {}
            \/ user[Current].st = "in" /\ Hashed(t)
               /\ Close(t, Left(t)) /\ mail' = Gives(Current, t).got

LEMMA NobodyChanges == ASSUME TypeInv, UNCHANGED user PROVE SamePeople
BY UsersTyped DEF WellTyped, TypeInv, SamePeople

LEMMA OneChanges ==
    ASSUME TypeInv, NEW u \in Slots, NEW m \in Users, m.st = user[u].st, m.nick = user[u].nick,
           user' = [user EXCEPT ![u] = m]
    PROVE  SamePeople
BY UsersTyped DEF WellTyped, TypeInv, SamePeople

LEMMA HeardSteps ==
    ASSUME TypeInv, Next
    PROVE  \/ Asks \/ Sends \/ Seeks \/ Given \/ Closes
           \/ \E nick \in Nicks, f \in Forms : LogsIn(nick, f)
           \/ Accepted \/ LoggingIn \/ MemberTurn \/ Drains \/ Removed \/ Pass \/ SendLoop
<1>0. TypeOK /\ user \in [Slots -> Users]
  BY UsersTyped DEF WellTyped, TypeInv
<1>1. ASSUME Speaks PROVE /\ Current \in Slots /\ user[Current] \in Users
                          /\ UNCHANGED <<order, at, sr>> /\ heard' \in BOOLEAN
                          /\ at \in 1 .. Len(order) /\ user[Current].st = "in"
                          /\ SamePeople => Said
  BY <1>0, <1>1, SpeakerType DEF Speaks, Heard, Said
<1>2. ASSUME NEW t \in Slots, CorrectedConnectToMe(t) \/ ConnectToMe(t) PROVE Asks \/ Sends
  <2>1. Speaks /\ UNCHANGED user /\ mail' = {} /\ UNCHANGED <<search, act, pas>>
        /\ (UNCHANGED pending \/ Adds(Current, t, 0)) /\ user[t].st = "in"
    BY <1>2 DEF CorrectedConnectToMe, ConnectToMe, Quietly, Searches, Other
  <2> QED BY <2>1, <1>1, NobodyChanges DEF Asks, Sends
<1>3. ASSUME NEW t \in Slots, RevConnectToMe(t) PROVE Sends
  <2>1. Speaks /\ user' = [user EXCEPT ![Current] = Mode(Current, FALSE)] /\ mail' = {}
        /\ UNCHANGED <<search, act, pas>> /\ Adds(Current, t, 0) /\ user[t].st = "in"
    BY <1>3 DEF RevConnectToMe, Quietly, Searches, Other
  <2>2. SamePeople
    BY <2>1, <1>0, <1>1, ModeType, OneChanges
  <2> QED BY <2>1, <2>2, <1>1 DEF Sends
<1>4. ASSUME NEW t \in Slots, SR(t) PROVE Asks \/ Sends
  <2>1. Speaks /\ mail' = {} /\ UNCHANGED <<search, act, pas>> /\ user[t].st = "in"
    BY <1>4 DEF SR, Quietly, Searches, Other
  <2>2. CASE UNCHANGED <<pending, user>>
    BY <2>1, <2>2, <1>1, NobodyChanges DEF Asks
  <2>3. CASE Adds(Current, t, 0)
             /\ user' = [user EXCEPT ![t].answers = IF MaxAnswers = 0 THEN 0 ELSE @ + 1]
    <3>1. SamePeople
      BY <2>3, <1>0 DEF SamePeople, Users
    <3> QED BY <2>1, <2>3, <3>1, <1>1 DEF Sends
  <2> QED BY <1>4, <2>2, <2>3 DEF SR
<1>5. ASSUME NEW t \in Slots, To(t) PROVE Sends
  <2>1. Speaks /\ UNCHANGED user /\ mail' = {} /\ UNCHANGED <<search, act, pas>>
        /\ Adds(Current, t, 1) /\ user[t].st = "in"
    BY <1>5 DEF To, Quietly, Searches, Other
  <2> QED BY <2>1, <1>1, NobodyChanges DEF Sends
<1>6. ASSUME NEW t \in Slots, CloseOther(t) \/ OpForceMove(t) PROVE Closes
  <2>1. Speaks /\ Hashed(t) /\ Close(t, pending) /\ mail' = {} /\ UNCHANGED <<act, pas>>
    BY <1>6 DEF CloseOther, OpForceMove, MayRemove, Quietly
  <2>2. user[t].st \notin Leaving \cup {"accepted"}
    BY <2>1 DEF Hashed, Named, Leaving
  <2> QED BY <2>1, <2>2, <1>1 DEF Closes
<1>7. ASSUME NEW t \in Slots, Kick(t) PROVE Closes
  <2>1. Speaks /\ Hashed(t) /\ Close(t, Left(t)) /\ mail' = Gives(Current, t).got
        /\ UNCHANGED <<act, pas>>
    BY <1>7 DEF Kick, MayRemove, Left
  <2>2. user[t].st \notin Leaving \cup {"accepted"}
    BY <2>1 DEF Hashed, Named, Leaving
  <2> QED BY <2>1, <2>2, <1>1 DEF Closes
<1>8. ASSUME NEW t \in Slots, KickRefused(t) PROVE Given
  <2>1. Speaks /\ Hashed(t) /\ pending' = Left(t) /\ mail' = Gives(Current, t).got
        /\ UNCHANGED <<user, search, act, pas>>
    BY <1>8 DEF KickRefused, MayRemove, Left, Searches
  <2> QED BY <2>1, <1>1, NobodyChanges DEF Given
<1>9. CASE PassiveSearch
  <2> DEFINE m == [Mode(Current, FALSE) EXCEPT !.answers = 0]
  <2>1. Speaks /\ user' = [user EXCEPT ![Current] = m] /\ AddSearches(Current, <<"passive">>)
        /\ mail' = {} /\ UNCHANGED pending
    BY <1>9 DEF PassiveSearch, Quietly
  <2>2. m \in Users /\ m.st = user[Current].st /\ m.nick = user[Current].nick
    BY <2>1, <1>0, <1>1, ModeType DEF Users
  <2>3. SamePeople
    BY <2>1, <2>2, <1>1, OneChanges
  <2>4. <<"passive">> \in Seq(SearchKinds)
    BY DEF SearchKinds
  <2> QED BY <2>1, <2>3, <2>4, <1>1 DEF Seeks
<1>10. CASE CorrectedSearch \/ \E six \in BOOLEAN : ActiveSearch(six)
  <2> DEFINE m == Mode(Current, TRUE)
  <2>1. /\ Speaks /\ user' = [user EXCEPT ![Current] = m] /\ mail' = {} /\ UNCHANGED pending
        /\ \/ AddSearches(Current, Corrected(m.form))
           \/ \E six \in BOOLEAN : AddSearches(Current, RightSearches(m.form, six))
    BY <1>10 DEF CorrectedSearch, ActiveSearch, Quietly
  <2>2. m \in Users /\ m.st = user[Current].st /\ m.nick = user[Current].nick
    BY <2>1, <1>0, <1>1, ModeType
  <2>3. SamePeople
    BY <2>1, <2>2, <1>1, OneChanges
  <2>4. m.form \in FormSet
    BY <2>2 DEF Users
  <2> QED BY <2>1, <2>3, <2>4, <1>1, SearchTypes DEF Seeks
<1>11. ASSUME NEW f \in Forms, MyINFO(f) PROVE Asks
  <2>1. Speaks /\ user' = [user EXCEPT ![Current].form = f] /\ mail' = {}
        /\ UNCHANGED <<pending, search, act, pas>>
    BY <1>11 DEF MyINFO, Quietly, Searches
  <2>2. SamePeople
    BY <2>1, <1>0, <1>1, MembersAssumption DEF SamePeople, Users
  <2> QED BY <2>1, <2>2, <1>1 DEF Asks
<1>12. CASE BadPort \/ BreaksRules \/ Fails
  <2>1. Heard /\ Close(Current, pending) /\ mail' = {} /\ UNCHANGED <<act, pas>>
        /\ user[Current].st \notin Leaving \cup {"accepted"}
    BY <1>12 DEF BadPort, BreaksRules, Fails, Speaks, Quietly, Leaving
  <2> QED BY <2>1, <1>0, SpeakerType DEF Heard, Closes
<1> QED BY <1>2, <1>3, <1>4, <1>5, <1>6, <1>7, <1>8, <1>9, <1>10, <1>11, <1>12 DEF Next
-----------------------------------------------------------------------------
\* Types, the nicks and the list hold.

LEMMA SaidType ==
    ASSUME TypeInv, Said,
           /\ pending' \in [Slots -> SUBSET Command]
           /\ search' \in [Slots -> SUBSET SearchKinds]
           /\ act' \in Nat /\ pas' \in Nat
    PROVE  TypeInv'
<1>1. TypeOK'
  BY UsersTyped DEF WellTyped, TypeInv, Said, SamePeople
<1>2. NamedUsers' /\ OrderInv'
  BY DEF TypeInv, NamedUsers, Hashed, OrderInv, Said, SamePeople
<1> QED BY <1>1, <1>2 DEF TypeInv

LEMMA LeftIs ==
    ASSUME TypeOK, NEW t \in Slots, at \in 1 .. Len(order)
    PROVE  /\ Left(t) \in [Slots -> SUBSET Command]
           /\ \A s \in Slots : Left(t)[s] \subseteq pending[s]
BY SpeakerType DEF TypeOK, Left, Gives

LEMMA HeardType ==
    ASSUME TypeInv, Asks \/ Sends \/ Seeks \/ Given
    PROVE  TypeInv'
<1>0. TypeOK /\ NamedUsers
  BY DEF TypeInv
<1>1. pending \in [Slots -> SUBSET Command] /\ search \in [Slots -> SUBSET SearchKinds]
      /\ act \in Nat /\ pas \in Nat
  BY <1>0, UsersTyped DEF WellTyped
<1>2. CASE Asks
  BY <1>2, <1>1, SaidType DEF Asks
<1>3. CASE Sends
  BY <1>3, <1>0, <1>1, SaidType, SpeakerType, AddsType DEF Sends, Said
<1>4. CASE Seeks
  BY <1>4, <1>0, <1>1, SaidType, SpeakerType, SearchesType DEF Seeks, Said
<1>5. CASE Given
  BY <1>5, <1>0, <1>1, SaidType, LeftIs DEF Given, Said
<1> QED BY <1>2, <1>3, <1>4, <1>5

\* A user that is neither new nor freed gets into another state.
LEMMA StateType ==
    ASSUME TypeInv, TypeOK', UNCHANGED order,
           \A s \in Slots : /\ user'[s].st = "free" <=> user[s].st = "free"
                            /\ user'[s].st \in Named => user'[s].nick \in Nicks
    PROVE  TypeInv'
BY DEF TypeInv, NamedUsers, Hashed, OrderInv

\* What a user closes.
LEMMA ClosesWhat ==
    ASSUME TypeInv, Closes
    PROVE  /\ TypeOK'
           /\ UNCHANGED <<order, at, sr, act, pas>>
           /\ \E t \in Slots :
                /\ t = Current \/ Hashed(t)
                /\ user[t].st \notin Leaving \cup {"accepted"}
                /\ \E st \in {"closing", "gone"} : user' = [user EXCEPT ![t].st = st]
                /\ pending'[t] = {} /\ \A s \in Slots : pending'[s] \subseteq pending[s]
                /\ search' = [search EXCEPT ![t] = {}]
<1>0. TypeOK /\ pending \in [Slots -> SUBSET Command]
  BY UsersTyped DEF WellTyped, TypeInv
<1>1. PICK t \in Slots :
        /\ t = Current \/ Hashed(t)
        /\ user[t].st \notin Leaving \cup {"accepted"}
        /\ Close(t, pending) \/ Close(t, Left(t))
  BY DEF Closes
<1>2. PICK others \in [Slots -> SUBSET Command] :
        Close(t, others) /\ \A s \in Slots : others[s] \subseteq pending[s]
  BY <1>0, <1>1, LeftIs DEF Closes
<1>3. TypeOK'
  BY <1>0, <1>2, CloseType, UsersTyped DEF WellTyped, Closes
<1> QED BY <1>0, <1>1, <1>2, <1>3 DEF Close, Closes

LEMMA ClosesType ==
    ASSUME TypeInv, Closes
    PROVE  TypeInv'
<1>1. PICK t \in Slots, st \in {"closing", "gone"} :
        user[t].st # "free" /\ user' = [user EXCEPT ![t].st = st]
  BY ClosesWhat DEF Leaving
<1>2. user \in [Slots -> Users]
  BY UsersTyped DEF WellTyped, TypeInv
<1>3. \A s \in Slots : /\ user'[s].st = "free" <=> user[s].st = "free"
                       /\ user'[s].st \in Named => user'[s].nick \in Nicks
  BY <1>1, <1>2 DEF Users, Named, TypeInv, NamedUsers, Hashed
<1> QED BY <1>3, ClosesWhat, StateType

LEMMA LogsInType ==
    ASSUME TypeInv, NEW nick \in Nicks, NEW f \in Forms, LogsIn(nick, f)
    PROVE  TypeInv' /\ Current \in Slots /\ user[Current].st = "login"
           /\ at \in 1 .. Len(order) /\ UNCHANGED <<order, at, sr, pending, search, act, pas>>
           /\ mail' = {}
           /\ user' = [user EXCEPT ![Current].st = "hashed", ![Current].nick = nick,
                                   ![Current].form = f]
<1>1. /\ Current \in Slots /\ user[Current].st = "login" /\ at \in 1 .. Len(order)
      /\ UNCHANGED <<order, at, sr, pending, search, act, pas>> /\ heard' = TRUE /\ mail' = {}
      /\ user' = [user EXCEPT ![Current].st = "hashed", ![Current].nick = nick,
                              ![Current].form = f]
  BY SpeakerType DEF TypeInv, LogsIn, Heard, Quietly, Searches
<1>2. WellTyped
  BY UsersTyped DEF TypeInv
<1>3. f \in FormSet
  BY MembersAssumption
<1>4. TypeOK'
  <2>1. user[Current] \in Users
    BY <1>1, <1>2 DEF WellTyped
  <2>2. [user[Current] EXCEPT !.st = "hashed", !.nick = nick, !.form = f] \in Users
    BY <2>1, <1>3 DEF Users, States
  <2>3. user' = [user EXCEPT ![Current] =
                   [user[Current] EXCEPT !.st = "hashed", !.nick = nick, !.form = f]]
    BY <1>1, <1>2, <2>1 DEF WellTyped, Users
  <2>4. user' \in [Slots -> Users]
    BY <1>2, <2>2, <2>3 DEF WellTyped
  <2> QED BY <1>1, <1>2, <2>4, UsersTyped DEF WellTyped
<1>5. \A s \in Slots : /\ user'[s].st = "free" <=> user[s].st = "free"
                       /\ user'[s].st \in Named => user'[s].nick \in Nicks
  BY <1>1, <1>2 DEF WellTyped, Users, Named, TypeInv, NamedUsers, Hashed
<1> QED BY <1>1, <1>4, <1>5, StateType

\* A turn that only may bring its user into the next state.
Onward(from, to) ==
    /\ at \in 1 .. Len(order) /\ user[Current].st \in from
    /\ user' = [user EXCEPT ![Current].st = to] \/ UNCHANGED user
    /\ at' = at + 1 /\ heard' = FALSE
    /\ mail' = {} /\ UNCHANGED <<order, pending, search, act, pas, sr>>

LEMMA Turns ==
    ASSUME Accepted \/ LoggingIn \/ Drains
    PROVE  \/ Onward({"accepted"}, "login") \/ Onward({"hashed"}, "adding")
           \/ Onward({"login", "hashed", "adding"}, user[Current].st) /\ UNCHANGED user
           \/ Onward({"closing"}, "gone")
BY DEF Accepted, LoggingIn, Drains, Turn, Becomes, NextTurn, Quietly, Searches, Onward

LEMMA OnwardType ==
    ASSUME TypeInv, NEW from, NEW to \in States \ {"free"}, Onward(from, to), "free" \notin from,
           to \in Named => from \subseteq Named \/ UNCHANGED user
    PROVE  TypeInv'
<1>1. WellTyped /\ Current \in Slots
  BY UsersTyped, SpeakerType DEF TypeInv, Onward
<1>2. user' \in [Slots -> Users]
  BY <1>1, ZenonT(60) DEF Onward, WellTyped, Users
<1>3. at + 1 \in 0 .. Len(order) + 1
  BY <1>1 DEF Onward, WellTyped
<1>4. TypeOK'
  BY <1>1, <1>2, <1>3, UsersTyped DEF Onward, WellTyped
<1>5. \A s \in Slots : /\ user'[s].st = "free" <=> user[s].st = "free"
                       /\ user'[s].st \in Named => user'[s].nick \in Nicks
  <2>1. \A s \in Slots : user[s].st \in Named => user[s].nick \in Nicks
    BY DEF TypeInv, NamedUsers, Hashed
  <2>2. ASSUME NEW s \in Slots, s # Current \/ UNCHANGED user PROVE user'[s] = user[s]
    BY <2>2, <1>1 DEF Onward, WellTyped
  <2>3. ASSUME user' = [user EXCEPT ![Current].st = to]
        PROVE  user'[Current].st = to /\ user'[Current].nick = user[Current].nick
    BY <2>3, <1>1 DEF WellTyped, Users
  <2> QED BY <2>1, <2>2, <2>3, <1>1 DEF Onward
<1> QED BY <1>4, <1>5, StateType DEF Onward

LEMMA MemberTurnIs ==
    ASSUME TypeInv, MemberTurn
    PROVE  /\ at \in 1 .. Len(order) /\ Current \in Slots /\ user[Current].st = "in"
           /\ SamePeople
           /\ pending' = [pending EXCEPT ![Current] = Waiting(@)]
           /\ search' = [search EXCEPT ![Current] = IF sr = 0 THEN @ \ {"passive"} ELSE @]
           /\ at' = at + 1 /\ heard' = FALSE /\ UNCHANGED <<order, act, pas, sr>>
           /\ \A m \in mail' : \E item \in pending[Current] :
                There(item) /\ m = [to |-> item.to, meant |-> item.meant]
<1>1. WellTyped /\ Current \in Slots /\ at \in 1 .. Len(order) /\ user[Current].st = "in"
  BY UsersTyped, SpeakerType DEF TypeInv, MemberTurn, Turn
<1> DEFINE ripe == {i \in pending[Current] : Ripe(i) /\ There(i)}
           full == {i \in ripe : Overrun(i)}
           Counted(s, i) == [user[s] EXCEPT !.got = (IF i \in full THEN 0 ELSE @) + i.pm]
<1>2. PICK over \in SUBSET full :
        /\ mail' = {[to |-> i.to, meant |-> i.meant] : i \in (ripe \ full) \cup over}
        /\ user' = [s \in Slots |->
             IF MaxPm = 0 \/ ~\E i \in (ripe \ full) \cup over : i.to = s THEN user[s]
             ELSE Counted(s, CHOOSE i \in (ripe \ full) \cup over : i.to = s)]
  BY DEF MemberTurn
<1>3. ASSUME NEW s \in Slots, NEW i \in ripe
      PROVE  Counted(s, i) \in Users /\ Counted(s, i).st = user[s].st
             /\ Counted(s, i).nick = user[s].nick
  <2>1. i \in Command /\ user[s] \in Users
    BY <1>1 DEF WellTyped
  <2>2. i.pm \in Nat /\ user[s].got \in Nat
    BY <2>1 DEF Command, Users
  <2>3. (IF i \in full THEN 0 ELSE user[s].got) + i.pm \in Nat
    BY <2>2
  <2> QED BY <2>1, <2>3 DEF Users
<1>4. SamePeople
  <2> HIDE DEF Counted
  <2>1. ASSUME NEW s \in Slots, ~(MaxPm = 0 \/ ~\E i \in (ripe \ full) \cup over : i.to = s)
        PROVE  (CHOOSE i \in (ripe \ full) \cup over : i.to = s) \in ripe
    BY <2>1
  <2>2. \A s \in Slots : user'[s] = user[s] \/ \E i \in ripe : user'[s] = Counted(s, i)
    BY <1>2, <2>1
  <2> HIDE DEF ripe
  <2> QED BY <2>2, <1>2, <1>3, <1>1 DEF SamePeople, WellTyped
<1>5. \A m \in mail' : \E item \in pending[Current] :
         There(item) /\ m = [to |-> item.to, meant |-> item.meant]
  BY <1>2
<1> QED BY <1>1, <1>4, <1>5 DEF MemberTurn, NextTurn

LEMMA MemberTurnType ==
    ASSUME TypeInv, MemberTurn
    PROVE  TypeInv'
<1>1. WellTyped
  BY UsersTyped DEF TypeInv
<1>2. Waiting(pending[Current]) \subseteq Command
  <2>1. \A item \in Command : ~Ripe(item) => [item EXCEPT !.loops = @ + 1] \in Command
    BY DEF Ripe, Command
  <2>2. pending[Current] \subseteq Command
    BY <1>1, MemberTurnIs DEF WellTyped
  <2> QED BY <2>1, <2>2 DEF Waiting
<1>3. at + 1 \in 0 .. Len(order) + 1
  BY <1>1, MemberTurnIs DEF WellTyped
<1>4. TypeOK'
  BY <1>1, <1>2, <1>3, MemberTurnIs, UsersTyped DEF WellTyped, SamePeople
<1>5. SamePeople /\ UNCHANGED order
  BY MemberTurnIs
<1>6. NamedUsers' /\ OrderInv'
  BY <1>5 DEF TypeInv, NamedUsers, Hashed, OrderInv, SamePeople
<1> QED BY <1>4, <1>6 DEF TypeInv

\* The place a user had before the one at this turn went.
Before(i) == IF i < at THEN i ELSE i + 1

LEMMA RemovedIs ==
    ASSUME TypeInv, Removed
    PROVE  /\ at \in 1 .. Len(order) /\ Current \in Slots /\ user[Current].st = "gone"
           /\ user' = [user EXCEPT ![Current] = NoUser]
           /\ pending' = [s \in Slots |->
                {[item EXCEPT !.live = @ /\ item.to # Current] : item \in pending[s]}]
           /\ UNCHANGED <<at, search, act, pas, sr>> /\ heard' = FALSE /\ mail' = {}
           /\ order' \in Seq(Slots) /\ Len(order') = Len(order) - 1
           /\ DOMAIN order' = 1 .. Len(order) - 1
           /\ \A i \in DOMAIN order' : /\ order'[i] = order[Before(i)]
                                     /\ Before(i) \in DOMAIN order \ {at}
           /\ \A i, j \in DOMAIN order' : Before(i) = Before(j) => i = j
           /\ \A k \in DOMAIN order \ {at} : \E i \in DOMAIN order' : Before(i) = k
<1>1. WellTyped /\ at \in 1 .. Len(order) /\ Current \in Slots /\ user[Current].st = "gone"
  BY UsersTyped, SpeakerType DEF TypeInv, Removed, Turn
<1>2. order' = RemoveAt(order, at)
  BY DEF Removed
<1>3. /\ order' \in Seq(Slots) /\ Len(order') = Len(order) - 1
      /\ \A i \in 1 .. Len(order) - 1 : order'[i] = IF i < at THEN order[i] ELSE order[i + 1]
  BY <1>1, <1>2, WithoutPlace DEF WellTyped
<1>4. Len(order) \in Nat /\ DOMAIN order = 1 .. Len(order)
      /\ DOMAIN order' = 1 .. Len(order) - 1
  BY <1>1, <1>3 DEF WellTyped
<1>5. \A i \in DOMAIN order' : Before(i) \in DOMAIN order \ {at}
  BY <1>1, <1>4 DEF Before
<1>6. \A i \in DOMAIN order' : order'[i] = order[Before(i)]
  BY <1>1, <1>3, <1>4 DEF Before
<1>7. \A i, j \in DOMAIN order' : Before(i) = Before(j) => i = j
  BY <1>1, <1>4 DEF Before
<1>8. ASSUME NEW k \in DOMAIN order \ {at} PROVE \E i \in DOMAIN order' : Before(i) = k
  <2>1. CASE k < at
    <3>1. k \in DOMAIN order' /\ Before(k) = k
      BY <2>1, <1>1, <1>4 DEF Before
    <3> QED BY <3>1
  <2>2. CASE k > at
    <3>1. k - 1 \in DOMAIN order' /\ Before(k - 1) = k
      BY <2>2, <1>1, <1>4 DEF Before
    <3> QED BY <3>1
  <2> QED BY <2>1, <2>2, <1>1, <1>4
<1> QED BY <1>1, <1>3, <1>4, <1>5, <1>6, <1>7, <1>8 DEF Removed, Quietly, Searches

LEMMA RemovedType ==
    ASSUME TypeInv, Removed
    PROVE  TypeInv'
<1>1. WellTyped /\ Len(order) \in Nat /\ DOMAIN order = 1 .. Len(order)
  BY UsersTyped DEF TypeInv, WellTyped
<1>2. TypeOK'
  <2>1. NoUser \in Users
    BY DEF NoUser, Users, States, FormSet, NoForm
  <2>2. \A item \in Command : [item EXCEPT !.live = @ /\ item.to # Current] \in Command
    <3> SUFFICES ASSUME NEW item \in Command
                 PROVE [item EXCEPT !.live = @ /\ item.to # Current] \in Command
      OBVIOUS
    <3>1. (item.live /\ item.to # Current) \in BOOLEAN
      OBVIOUS
    <3> QED BY <3>1 DEF Command
  <2>3. pending' \in [Slots -> SUBSET Command]
    <3> DEFINE now(item) == [item EXCEPT !.live = @ /\ item.to # Current]
    <3>1. pending' = [s \in Slots |-> {now(item) : item \in pending[s]}]
      BY RemovedIs
    <3>2. \A item \in Command : now(item) \in Command
      BY <2>2
    <3> HIDE DEF now
    <3> QED BY <3>1, <3>2, <1>1 DEF WellTyped
  <2>4. user' \in [Slots -> Users]
    BY <2>1, <1>1, RemovedIs DEF WellTyped
  <2>5. at \in 0 .. Len(order') + 1
    BY RemovedIs, <1>1
  <2> QED BY <2>3, <2>4, <2>5, <1>1, RemovedIs, UsersTyped DEF WellTyped
<1>3. NamedUsers'
  <2>1. ASSUME NEW s \in Slots PROVE user'[s] = user[s] \/ user'[s].st = "free"
    BY <1>1, RemovedIs DEF NoUser, WellTyped
  <2> QED BY <2>1 DEF TypeInv, NamedUsers, Hashed, Named
<1>4. OrderInv'
  <2>1. \A i, j \in DOMAIN order : order[i] = order[j] => i = j
    BY DEF TypeInv, OrderInv
  <2>2. \A i, j \in DOMAIN order' : order'[i] = order'[j] => i = j
    BY <2>1, RemovedIs
  <2>3. ASSUME NEW s \in Slots
        PROVE  user'[s].st # "free" <=> \E i \in DOMAIN order' : order'[i] = s
    <3>1. CASE s = Current
      <4>1. user'[s].st = "free"
        BY <3>1, <1>1, RemovedIs DEF NoUser, WellTyped
      <4>2. ~\E i \in DOMAIN order' : order'[i] = s
        BY <2>1, <3>1, <1>1, RemovedIs DEF Current
      <4> QED BY <4>1, <4>2
    <3>2. CASE s # Current
      <4>1. user'[s].st = user[s].st
        BY <3>2, <1>1, RemovedIs DEF WellTyped
      <4>2. (\E i \in DOMAIN order' : order'[i] = s) <=> (\E k \in DOMAIN order : order[k] = s)
        BY <3>2, RemovedIs DEF Current
      <4> QED BY <4>1, <4>2 DEF TypeInv, OrderInv
    <3> QED BY <3>1, <3>2
  <2> QED BY <2>2, <2>3 DEF OrderInv
<1> QED BY <1>2, <1>3, <1>4 DEF TypeInv

LEMMA PassIs ==
    ASSUME TypeInv, Pass
    PROVE  /\ at = 0 /\ at' = 1 /\ UNCHANGED <<pending, search, act, pas>>
           /\ heard' = FALSE /\ mail' = {}
           /\ sr' \in 0 .. SearchRounds - 1
           /\ \/ UNCHANGED <<user, order>>
              \/ \E s \in Slots :
                   /\ user[s].st = "free" /\ user' = [user EXCEPT ![s].st = "accepted"]
                   /\ order' = Append(order, s)
<1>1. sr' \in 0 .. SearchRounds - 1
  <2>1. SearchRounds \in Nat \ {0} /\ sr \in 0 .. SearchRounds - 1
    BY MembersAssumption, UsersTyped DEF WellTyped, TypeInv
  <2>2. sr' = IF SendsSearches THEN 0 ELSE sr + 1
    BY DEF Pass
  <2>3. sr + 1 >= SearchRounds => SendsSearches
    BY DEF SendsSearches
  <2> QED BY <2>1, <2>2, <2>3
<1> QED BY <1>1 DEF Pass, Quietly, Searches

LEMMA PassType ==
    ASSUME TypeInv, Pass
    PROVE  TypeInv'
<1>1. WellTyped /\ Len(order) \in Nat /\ DOMAIN order = 1 .. Len(order)
  BY UsersTyped DEF TypeInv, WellTyped
<1>2. CASE UNCHANGED <<user, order>>
  <2>1. TypeOK'
    BY <1>1, <1>2, PassIs, UsersTyped DEF WellTyped
  <2> QED BY <1>2, <2>1 DEF TypeInv, NamedUsers, Hashed, OrderInv
<1>3. ASSUME NEW s \in Slots, user[s].st = "free", user' = [user EXCEPT ![s].st = "accepted"],
             order' = Append(order, s)
      PROVE  TypeInv'
  <2>1. /\ order' \in Seq(Slots) /\ Len(order') = Len(order) + 1
        /\ DOMAIN order' = 1 .. Len(order) + 1
        /\ \A i \in 1 .. Len(order) : order'[i] = order[i]
        /\ order'[Len(order) + 1] = s
    BY <1>1, <1>3 DEF WellTyped
  <2>2. user' \in [Slots -> Users] /\ user'[s].st = "accepted"
        /\ \A t \in Slots : t # s => user'[t] = user[t]
    BY <1>1, <1>3 DEF WellTyped, Users, States
  <2>3. 1 \in 0 .. Len(order') + 1
    BY <1>1, <2>1
  <2>4. TypeOK'
    BY <1>1, <2>1, <2>2, <2>3, PassIs, UsersTyped DEF WellTyped
  <2>5. NamedUsers'
    BY <2>2 DEF TypeInv, NamedUsers, Hashed, Named
  <2>6. \A i \in 1 .. Len(order) : order[i] # s
    BY <1>1, <1>3 DEF TypeInv, OrderInv
  <2>7. \A i, j \in DOMAIN order' : order'[i] = order'[j] => i = j
    <3>1. \A i, j \in 1 .. Len(order) : order[i] = order[j] => i = j
      BY <1>1 DEF TypeInv, OrderInv
    <3> QED BY <1>1, <2>1, <2>6, <3>1
  <2>8. \A t \in Slots : user'[t].st # "free" <=> \E i \in DOMAIN order' : order'[i] = t
    <3>1. \A t \in Slots : user[t].st # "free" <=> \E i \in 1 .. Len(order) : order[i] = t
      BY <1>1 DEF TypeInv, OrderInv
    <3>2. \A t \in Slots : (\E i \in DOMAIN order' : order'[i] = t)
                             <=> t = s \/ \E i \in 1 .. Len(order) : order[i] = t
      <4>1. DOMAIN order' = (1 .. Len(order)) \cup {Len(order) + 1}
        BY <1>1, <2>1
      <4> QED BY <1>1, <2>1, <4>1
    <3> QED BY <2>2, <3>1, <3>2
  <2> QED BY <2>4, <2>5, <2>7, <2>8 DEF TypeInv, OrderInv
<1> QED BY <1>2, <1>3, PassIs

LEMMA SendLoopIs ==
    ASSUME TypeInv, SendLoop
    PROVE  /\ at = Len(order) + 1 /\ at' = 0 /\ UNCHANGED <<order, sr>> /\ mail' = {}
           /\ act' = Counts(act) /\ pas' = Counts(pas)
           /\ user' \in [Slots -> Users]
           /\ \A s \in Slots :
                /\ user'[s].nick = user[s].nick
                /\ \/ /\ user[s].st \notin Leaving /\ user'[s].st = "gone"
                      /\ pending'[s] = {} /\ search'[s] = {}
                   \/ /\ user'[s].st = IF user[s].st = "adding" THEN "in" ELSE user[s].st
                      /\ pending'[s] = pending[s]
                      /\ search'[s] = IF sr = 0 /\ user[s].st = "in" THEN search[s] \ {"four", "six"}
                                      ELSE search[s]
           /\ pending' \in [Slots -> SUBSET Command]
           /\ search' \in [Slots -> SUBSET SearchKinds]
           /\ heard' = heard
<1>1. WellTyped
  BY UsersTyped DEF TypeInv
<1>2. PICK failed \in SUBSET {s \in Slots : user[s].st \notin Leaving} :
        /\ user' = [s \in Slots |->
             IF s \in failed THEN [user[s] EXCEPT !.st = "gone"]
             ELSE IF user[s].st = "adding" THEN [user[s] EXCEPT !.st = "in"] ELSE user[s]]
        /\ pending' = [s \in Slots |-> IF s \in failed THEN {} ELSE pending[s]]
        /\ search' = [s \in Slots |->
             IF s \in failed THEN {}
             ELSE IF sr = 0 /\ user[s].st = "in" THEN search[s] \ {"four", "six"}
             ELSE search[s]]
  BY DEF SendLoop
<1>3. \A u \in Users, st \in States : /\ [u EXCEPT !.st = st] \in Users
                                      /\ [u EXCEPT !.st = st].st = st
                                      /\ [u EXCEPT !.st = st].nick = u.nick
  BY DEF Users
<1>4. "gone" \in States /\ "in" \in States
  BY DEF States
<1>5. user' \in [Slots -> Users]
  BY <1>1, <1>2, <1>3, <1>4 DEF WellTyped
<1>6. pending' \in [Slots -> SUBSET Command] /\ search' \in [Slots -> SUBSET SearchKinds]
  BY <1>1, <1>2 DEF WellTyped
<1>7. ASSUME NEW s \in Slots
      PROVE  /\ user'[s].nick = user[s].nick
             /\ \/ /\ user[s].st \notin Leaving /\ user'[s].st = "gone"
                   /\ pending'[s] = {} /\ search'[s] = {}
                \/ /\ user'[s].st = IF user[s].st = "adding" THEN "in" ELSE user[s].st
                   /\ pending'[s] = pending[s]
                   /\ search'[s] = IF sr = 0 /\ user[s].st = "in" THEN search[s] \ {"four", "six"}
                                   ELSE search[s]
  BY <1>1, <1>2, <1>3, <1>4 DEF WellTyped
<1> QED BY <1>5, <1>6, <1>7 DEF SendLoop, Quietly

LEMMA SendLoopType ==
    ASSUME TypeInv, SendLoop
    PROVE  TypeInv'
<1>1. WellTyped
  BY UsersTyped DEF TypeInv
<1>2. TypeOK'
  <2>1. Counts(act) \in Nat /\ Counts(pas) \in Nat /\ 0 \in 0 .. Len(order) + 1
    BY <1>1 DEF Counts, WellTyped
  <2> QED BY <1>1, <2>1, SendLoopIs, UsersTyped DEF WellTyped
<1>3. \A s \in Slots : /\ user'[s].st = "free" <=> user[s].st = "free"
                       /\ user'[s].st \in Named => user'[s].nick \in Nicks
  BY SendLoopIs DEF Named, Leaving, TypeInv, NamedUsers, Hashed
<1> QED BY <1>2, <1>3, StateType, SendLoopIs

LEMMA TypeStep ==
    ASSUME TypeInv, [Next]_vars
    PROVE  TypeInv'
<1>1. CASE Next
  <2>1. ASSUME Accepted \/ LoggingIn \/ Drains PROVE TypeInv'
    <3>1. CASE Onward({"accepted"}, "login")
      BY <3>1, OnwardType DEF Named, States
    <3>2. CASE Onward({"hashed"}, "adding")
      BY <3>2, OnwardType DEF Named, States
    <3>3. CASE Onward({"login", "hashed", "adding"}, user[Current].st) /\ UNCHANGED user
      BY <3>3, OnwardType DEF Onward, States
    <3>4. CASE Onward({"closing"}, "gone")
      BY <3>4, OnwardType DEF Named, States
    <3> QED BY <2>1, <3>1, <3>2, <3>3, <3>4, Turns
  <2> QED BY <1>1, <2>1, HeardSteps, HeardType, ClosesType, LogsInType, MemberTurnType,
             RemovedType, PassType, SendLoopType
<1>2. CASE UNCHANGED vars
  <2>1. TypeOK'
    BY <1>2, UsersTyped DEF TypeInv, WellTyped, vars
  <2> QED BY <1>2, <2>1 DEF vars, TypeInv, NamedUsers, Hashed, OrderInv
<1> QED BY <1>1, <1>2
-----------------------------------------------------------------------------
\* What waits.

\* Only members have something waiting.
WaitersIn == \A s \in Slots : pending[s] # {} \/ search[s] # {} => user[s].st = "in"

\* What waits for a user that still is was written for its nick.
LiveFor(item) ==
    /\ user[item.to].st \in {"in", "closing", "gone"}
    /\ item.nick = user[item.to].nick /\ item.meant = {item.nick}

\* What waits for one that is gone has waited for longer than a successor at
\* the same address, which stands behind the sender in the list, is there.
Successor(item, i, j) ==
    /\ user[item.to].st \in {"accepted", "login"} => j > i
    /\ user[item.to].st = "accepted" => item.loops = 2 \/ at <= i
    /\ user[item.to].st = "login" => item.loops = 2 /\ (at <= i \/ at > j)
DeadFor(item, i) ==
    /\ item.loops >= 1
    /\ user[item.to].st \in {"free", "accepted", "login", "gone"}
    /\ \A j \in DOMAIN order : order[j] = item.to => Successor(item, i, j)

WaitsAt(item, i) ==
    /\ item.loops = 0 => at = i
    /\ item.live => LiveFor(item)
    /\ ~item.live => DeadFor(item, i)
WaitInv ==
    WaitersIn /\ \A i \in DOMAIN order : \A item \in pending[order[i]] : WaitsAt(item, i)

LEMMA WaitInit == Init => WaitInv
BY DEF Init, WaitInv, WaitersIn

\* Who can be found is still the one a command waits for.
LEMMA FoundLive ==
    ASSUME TypeInv, WaitInv, NEW s \in Slots, NEW item \in pending[s], Hashed(item.to)
    PROVE  item.live /\ LiveFor(item)
<1>1. WellTyped
  BY UsersTyped DEF TypeInv
<1>2. item \in Command
  BY <1>1 DEF WellTyped
<1>3. user[s].st # "free"
  BY DEF WaitInv, WaitersIn
<1>4. PICK i \in DOMAIN order : order[i] = s
  BY <1>3 DEF TypeInv, OrderInv
<1>5. WaitsAt(item, i)
  BY <1>4 DEF WaitInv
<1> QED BY <1>5 DEF WaitsAt, DeadFor, Hashed, Named

\* A member that says something adds to what it has waiting only for members.
LEMMA SaidWait ==
    ASSUME TypeInv, WaitInv, Said,
           \A s \in Slots : s # Current => pending'[s] = pending[s] /\ search'[s] = search[s],
           \A item \in pending'[Current] :
              item \notin pending[Current] => item.live /\ item.to \in Slots /\ LiveFor(item)
    PROVE  WaitInv'
<1>1. WellTyped /\ Current \in Slots /\ at \in DOMAIN order
  BY UsersTyped, SpeakerType DEF TypeInv, Said, WellTyped
<1>2. WaitersIn'
  BY <1>1 DEF WaitInv, WaitersIn, Said, SamePeople
<1>3. \A item : item.to \in Slots /\ LiveFor(item) => LiveFor(item)'
  BY DEF LiveFor, Said, SamePeople
<1>4. \A item, i : item.to \in Slots /\ DeadFor(item, i) => DeadFor(item, i)'
  BY DEF DeadFor, Successor, Said, SamePeople
<1>5. ASSUME NEW i \in DOMAIN order, NEW item \in pending[order[i]] PROVE WaitsAt(item, i)'
  <2>1. item.to \in Slots /\ WaitsAt(item, i)
    BY <1>1 DEF WellTyped, Command, WaitInv
  <2> QED BY <2>1, <1>3, <1>4 DEF WaitsAt, Said
<1>6. ASSUME NEW i \in DOMAIN order, NEW item \in pending'[order[i]],
             item \notin pending[order[i]]
      PROVE  WaitsAt(item, i)'
  <2>1. order[i] = Current
    BY <1>6, <1>1 DEF WellTyped
  <2>2. i = at
    BY <2>1, <1>1 DEF TypeInv, OrderInv, Current
  <2>3. item.live /\ item.to \in Slots /\ LiveFor(item)
    BY <1>6, <2>1
  <2> QED BY <2>2, <2>3, <1>3 DEF WaitsAt, Said
<1> QED BY <1>2, <1>5, <1>6 DEF WaitInv, Said

LEMMA HeardWait ==
    ASSUME TypeInv, WaitInv, Asks \/ Sends \/ Seeks \/ Given
    PROVE  WaitInv'
<1>1. WellTyped /\ Current \in Slots /\ Said
  BY UsersTyped, SpeakerType DEF TypeInv, Asks, Sends, Seeks, Given, Said
<1>2. CASE Asks
  BY <1>1, <1>2, SaidWait DEF Asks
<1>3. CASE Sends
  <2>1. PICK t \in Slots, pm \in {0, 1} : user[t].st = "in" /\ Adds(Current, t, pm)
    BY <1>3 DEF Sends
  <2> DEFINE more(item) == [item EXCEPT !.pm = @ + pm, !.meant = @ \cup {user[t].nick}]
             new == [to |-> t, nick |-> user[t].nick, pm |-> pm, loops |-> 0,
                     meant |-> {user[t].nick}, live |-> TRUE]
             same == {item \in pending[Current] : item.to = t}
  <2>2. /\ \A s \in Slots : s # Current => pending'[s] = pending[s]
        /\ pending'[Current] = IF same = {} THEN pending[Current] \cup {new}
                               ELSE (pending[Current] \ same) \cup {more(item) : item \in same}
    BY <1>1, <2>1 DEF Adds, WellTyped
  <2>3. new.live /\ new.to \in Slots /\ LiveFor(new)
    BY <2>1 DEF LiveFor
  <2>4. ASSUME NEW item \in same
        PROVE  more(item).live /\ more(item).to \in Slots /\ LiveFor(more(item))
    <3>1. item \in Command /\ item \in pending[Current] /\ item.to = t
      BY <1>1 DEF WellTyped
    <3>2. Hashed(t)
      BY <2>1 DEF Hashed, Named
    <3>3. item.live /\ LiveFor(item)
      BY <1>1, <3>1, <3>2, FoundLive
    <3>4. /\ more(item).live = item.live /\ more(item).to = item.to
          /\ more(item).nick = item.nick /\ more(item).meant = item.meant \cup {user[t].nick}
      BY <3>1 DEF Command
    <3>5. more(item).meant = {item.nick}
      BY <3>1, <3>3, <3>4 DEF LiveFor
    <3> HIDE DEF more
    <3> QED BY <3>1, <3>3, <3>4, <3>5 DEF LiveFor
  <2> HIDE DEF more, new
  <2>5. \A item \in pending'[Current] :
          item \notin pending[Current] => item.live /\ item.to \in Slots /\ LiveFor(item)
    BY <2>2, <2>3, <2>4
  <2> QED BY <1>1, <1>3, <2>2, <2>5, SaidWait DEF Sends
<1>4. CASE Seeks
  <2>1. \A s \in Slots : s # Current => search'[s] = search[s]
    BY <1>1, <1>4 DEF Seeks, AddSearches, WellTyped
  <2> QED BY <1>1, <1>4, <2>1, SaidWait DEF Seeks
<1>5. CASE Given
  <2>1. PICK t \in Slots : pending' = Left(t)
    BY <1>5 DEF Given
  <2>2. /\ \A s \in Slots : s # Current => pending'[s] = pending[s]
        /\ pending'[Current] \subseteq pending[Current]
    BY <1>1, <2>1 DEF Left, Gives, WellTyped
  <2> QED BY <1>1, <1>5, <2>2, SaidWait DEF Given
<1> QED BY <1>2, <1>3, <1>4, <1>5

\* A step that moves nobody in the list and only takes what waits away: a
\* target that changes is one for which nothing waits that points to another.
LEMMA LessWait ==
    ASSUME TypeInv, WaitInv, UNCHANGED <<order, at>>, NEW t \in Slots,
           \A s \in Slots : /\ pending'[s] \subseteq pending[s] /\ search'[s] \subseteq search[s]
                            /\ s # t => user'[s] = user[s],
           user'[t].nick = user[t].nick, pending'[t] = {}, search'[t] = {},
           \/ user'[t].st = "gone"
           \/ (user[t].st \in Named \cup {"login"} /\ user'[t].st = "closing"),
           user[t].st = "login" => t = Current /\ at \in DOMAIN order
    PROVE  WaitInv'
<1>1. WellTyped
  BY UsersTyped DEF TypeInv
<1>2. WaitersIn'
  BY DEF WaitInv, WaitersIn
<1>3. ASSUME NEW i \in DOMAIN order, NEW item \in pending'[order[i]] PROVE WaitsAt(item, i)'
  <2>1. /\ item \in pending[order[i]] /\ order[i] \in Slots /\ item.to \in Slots
        /\ item.loops \in Nat
    BY <1>1 DEF WellTyped, Command
  <2>2. WaitsAt(item, i)
    BY <2>1 DEF WaitInv
  <2>3. CASE item.to # t
    <3>1. user'[item.to] = user[item.to]
      BY <2>1, <2>3
    <3> QED BY <2>2, <3>1 DEF WaitsAt, LiveFor, DeadFor, Successor
  <2>4. CASE item.to = t /\ item.live
    BY <2>2, <2>4 DEF WaitsAt, LiveFor, Named
  <2>5. CASE item.to = t /\ ~item.live
    <3>1. DeadFor(item, i)
      BY <2>2, <2>5 DEF WaitsAt
    <3>2. user[t].st \notin Named
      BY <3>1, <2>5 DEF DeadFor, Named
    <3>3. user[t].st # "login"
      <4> SUFFICES ASSUME user[t].st = "login" PROVE FALSE
        OBVIOUS
      <4>1. Successor(item, i, at)
        BY <3>1, <2>5 DEF DeadFor, Current
      <4> QED BY <4>1, <2>5, <1>1 DEF Successor, WellTyped
    <3>4. user'[t].st = "gone"
      BY <3>2, <3>3
    <3> QED BY <2>2, <2>5, <3>1, <3>4 DEF WaitsAt, DeadFor, Successor
  <2> QED BY <2>3, <2>4, <2>5
<1> QED BY <1>2, <1>3 DEF WaitInv

LEMMA ClosesWait ==
    ASSUME TypeInv, WaitInv, Closes
    PROVE  WaitInv'
<1>1. WellTyped
  BY UsersTyped DEF TypeInv
<1>2. PICK t \in Slots :
        /\ t = Current \/ Hashed(t)
        /\ user[t].st \notin Leaving \cup {"accepted"}
        /\ \E st \in {"closing", "gone"} : user' = [user EXCEPT ![t].st = st]
        /\ pending'[t] = {} /\ \A s \in Slots : pending'[s] \subseteq pending[s]
        /\ search' = [search EXCEPT ![t] = {}]
  BY ClosesWhat
<1>3. at \in DOMAIN order /\ UNCHANGED <<order, at>>
  BY <1>1 DEF Closes, WellTyped
<1>4. /\ user'[t].nick = user[t].nick /\ user'[t].st \in {"closing", "gone"}
      /\ \A s \in Slots : s # t => user'[s] = user[s]
  BY <1>1, <1>2 DEF WellTyped, Users
<1>5. search'[t] = {} /\ \A s \in Slots : search'[s] \subseteq search[s]
  BY <1>1, <1>2 DEF WellTyped
<1>6. user[t].st \in States
  BY <1>1 DEF WellTyped, Users
<1>7. user[t].st \in Named \cup {"login"}
  BY <1>2, <1>6 DEF States, Named, Leaving
<1>8. user[t].st = "login" => t = Current
  BY <1>2 DEF Hashed, Named
<1> QED BY <1>2, <1>3, <1>4, <1>5, <1>7, <1>8, LessWait

LEMMA LogsInWait ==
    ASSUME TypeInv, WaitInv, NEW nick \in Nicks, NEW f \in Forms, LogsIn(nick, f)
    PROVE  WaitInv'
<1>0. /\ Current \in Slots /\ user[Current].st = "login" /\ at \in 1 .. Len(order)
      /\ UNCHANGED <<order, at, pending, search>>
      /\ user' = [user EXCEPT ![Current].st = "hashed", ![Current].nick = nick,
                              ![Current].form = f]
  BY LogsInType
<1>1. WellTyped /\ at \in DOMAIN order
  BY <1>0, UsersTyped DEF TypeInv, WellTyped
<1>2. /\ user'[Current].st = "hashed" /\ user[Current].st = "login"
      /\ \A s \in Slots : s # Current => user'[s] = user[s]
  BY <1>0, <1>1 DEF WellTyped, Users
<1>3. WaitersIn'
  BY <1>0, <1>2 DEF WaitInv, WaitersIn
<1>4. ASSUME NEW i \in DOMAIN order, NEW item \in pending[order[i]] PROVE WaitsAt(item, i)'
  <2>1. order[i] \in Slots /\ item.to \in Slots
    BY <1>1 DEF WellTyped, Command
  <2>2. WaitsAt(item, i)
    BY DEF WaitInv
  <2>3. item.to # Current
    <3> SUFFICES ASSUME item.to = Current PROVE FALSE
      OBVIOUS
    <3>1. ~item.live
      BY <1>2, <2>2 DEF WaitsAt, LiveFor
    <3>2. Successor(item, i, at)
      BY <1>1, <2>2, <3>1 DEF WaitsAt, DeadFor, Current
    <3> QED BY <1>1, <1>2, <3>2 DEF Successor, WellTyped
  <2>4. user'[item.to] = user[item.to]
    BY <1>2, <2>1, <2>3
  <2> QED BY <1>0, <2>2, <2>4 DEF WaitsAt, LiveFor, DeadFor, Successor
<1> QED BY <1>0, <1>3, <1>4 DEF WaitInv

\* The turn of a user that is no member.
LEMMA OnwardWait ==
    ASSUME TypeInv, WaitInv, NEW from, NEW to, Onward(from, to), "in" \notin from,
           \/ UNCHANGED user
           \/ from = {"accepted"} /\ to = "login"
           \/ from = {"hashed"} /\ to = "adding"
           \/ from = {"closing"} /\ to = "gone"
    PROVE  WaitInv'
<1>1. WellTyped /\ at \in DOMAIN order /\ Current \in Slots /\ Current = order[at]
  BY UsersTyped, SpeakerType DEF TypeInv, Onward, WellTyped, Current
<1>2. /\ user[Current].st # "in" /\ at' = at + 1 /\ UNCHANGED <<order, pending, search>>
      /\ \A s \in Slots : s # Current => user'[s] = user[s]
      /\ user'[Current].nick = user[Current].nick
      /\ \/ user'[Current].st = user[Current].st
         \/ user[Current].st = "accepted" /\ user'[Current].st = "login"
         \/ user[Current].st = "hashed" /\ user'[Current].st = "adding"
         \/ user[Current].st = "closing" /\ user'[Current].st = "gone"
  BY <1>1 DEF Onward, WellTyped, Users
<1>3. WaitersIn'
  BY <1>1, <1>2 DEF WaitInv, WaitersIn
<1>4. ASSUME NEW i \in DOMAIN order, NEW item \in pending[order[i]] PROVE WaitsAt(item, i)'
  <2>1. order[i] \in Slots /\ item.to \in Slots /\ i \in Nat /\ at \in Nat
    BY <1>1 DEF WellTyped, Command
  <2>2. WaitsAt(item, i)
    BY DEF WaitInv
  <2>3. i # at
    BY <1>1, <1>2, <2>1 DEF WaitInv, WaitersIn
  <2>4. CASE item.live
    BY <2>1, <2>2, <2>3, <2>4, <1>2 DEF WaitsAt, LiveFor
  <2>5. CASE ~item.live
    <3>1. DeadFor(item, i) /\ item.loops # 0
      BY <2>2, <2>3, <2>5 DEF WaitsAt
    <3>2. ASSUME NEW j \in DOMAIN order, order[j] = item.to PROVE Successor(item, i, j)'
      <4>1. Successor(item, i, j) /\ j \in Nat
        BY <1>1, <3>1, <3>2 DEF DeadFor, WellTyped
      <4>2. CASE item.to # Current
        <5>1. user'[item.to] = user[item.to]
          BY <1>2, <2>1, <4>2
        <5> QED BY <1>2, <2>1, <2>3, <4>1, <5>1 DEF Successor
      <4>3. CASE item.to = Current
        <5>1. j = at
          BY <1>1, <3>2, <4>3 DEF TypeInv, OrderInv
        <5> QED BY <1>2, <2>1, <3>1, <4>1, <4>3, <5>1 DEF Successor, DeadFor
      <4> QED BY <4>2, <4>3
    <3>3. user'[item.to].st \in {"free", "accepted", "login", "gone"}
      BY <1>2, <2>1, <3>1 DEF DeadFor
    <3> QED BY <1>2, <2>5, <3>1, <3>2, <3>3 DEF WaitsAt, DeadFor
  <2> QED BY <2>4, <2>5
<1> QED BY <1>2, <1>3, <1>4 DEF WaitInv

LEMMA MemberTurnWait ==
    ASSUME TypeInv, WaitInv, MemberTurn
    PROVE  WaitInv'
<1>0. /\ at \in 1 .. Len(order) /\ Current \in Slots /\ user[Current].st = "in" /\ SamePeople
      /\ pending' = [pending EXCEPT ![Current] = Waiting(@)]
      /\ search' = [search EXCEPT ![Current] = IF sr = 0 THEN @ \ {"passive"} ELSE @]
      /\ at' = at + 1 /\ UNCHANGED order
  BY MemberTurnIs
<1>1. WellTyped /\ at \in DOMAIN order /\ Current = order[at]
  BY <1>0, UsersTyped DEF TypeInv, WellTyped, Current
<1>2. WaitersIn'
  BY <1>0, <1>1 DEF WaitInv, WaitersIn, SamePeople, WellTyped
<1>3. ASSUME NEW i \in DOMAIN order, NEW item \in pending'[order[i]] PROVE WaitsAt(item, i)'
  <2>1. CASE i # at
    <3>1. order[i] \in Slots /\ order[i] # Current
      BY <1>1, <2>1 DEF WellTyped, TypeInv, OrderInv
    <3>2. item \in pending[order[i]]
      BY <1>0, <1>1, <3>1 DEF WellTyped
    <3>3. item.to \in Slots /\ i \in Nat /\ at \in Nat
      BY <1>1, <3>1, <3>2 DEF WellTyped, Command
    <3>4. WaitsAt(item, i)
      BY <3>2 DEF WaitInv
    <3>5. user'[item.to].st = user[item.to].st /\ user'[item.to].nick = user[item.to].nick
      BY <1>0, <3>3 DEF SamePeople
    <3>6. ASSUME NEW j \in DOMAIN order, Successor(item, i, j) PROVE Successor(item, i, j)'
      <4>1. j \in Nat
        BY <1>1 DEF WellTyped
      <4> QED BY <1>0, <2>1, <3>3, <3>5, <3>6, <4>1 DEF Successor
    <3> QED BY <1>0, <2>1, <3>4, <3>5, <3>6 DEF WaitsAt, LiveFor, DeadFor
  <2>2. CASE i = at
    <3>1. PICK old \in pending[Current] : ~Ripe(old) /\ item = [old EXCEPT !.loops = @ + 1]
      BY <1>0, <1>1, <2>2 DEF WellTyped, Waiting
    <3>2. old \in Command
      BY <1>0, <1>1, <3>1 DEF WellTyped
    <3>3. /\ old.loops \in {0, 1} /\ item.loops = old.loops + 1 /\ item.to = old.to
          /\ item.nick = old.nick /\ item.meant = old.meant /\ item.live = old.live
          /\ item.to \in Slots
      BY <3>1, <3>2 DEF Command, Ripe
    <3>4. WaitsAt(old, i)
      BY <1>1, <2>2, <3>1 DEF WaitInv
    <3>5. user'[item.to].st = user[item.to].st /\ user'[item.to].nick = user[item.to].nick
      BY <1>0, <3>3 DEF SamePeople
    <3>6. ASSUME NEW j \in DOMAIN order, Successor(old, i, j), old.loops = 1
          PROVE  Successor(item, i, j)'
      BY <1>0, <3>3, <3>5, <3>6 DEF Successor
    <3> QED BY <1>0, <3>3, <3>4, <3>5, <3>6 DEF WaitsAt, LiveFor, DeadFor
  <2> QED BY <2>1, <2>2
<1> QED BY <1>0, <1>2, <1>3 DEF WaitInv

LEMMA RemovedWait ==
    ASSUME TypeInv, WaitInv, Removed
    PROVE  WaitInv'
<1> DEFINE now(item) == [item EXCEPT !.live = @ /\ item.to # Current]
<1>0. /\ at \in 1 .. Len(order) /\ Current \in Slots /\ user[Current].st = "gone"
      /\ user' = [user EXCEPT ![Current] = NoUser]
      /\ pending' = [s \in Slots |-> {now(item) : item \in pending[s]}]
      /\ UNCHANGED <<at, search>>
      /\ DOMAIN order' = 1 .. Len(order) - 1
      /\ \A i \in DOMAIN order' : /\ order'[i] = order[Before(i)]
                                  /\ Before(i) \in DOMAIN order \ {at}
  BY RemovedIs
<1>1. WellTyped /\ DOMAIN order = 1 .. Len(order) /\ Len(order) \in Nat
  BY UsersTyped DEF TypeInv, WellTyped
<1>2. /\ user'[Current].st = "free" /\ \A s \in Slots : s # Current => user'[s] = user[s]
  BY <1>0, <1>1 DEF WellTyped, NoUser
<1>3. WaitersIn'
  <2>1. pending[Current] = {} /\ search[Current] = {}
    BY <1>0 DEF WaitInv, WaitersIn
  <2>2. \A s \in Slots : pending'[s] # {} => pending[s] # {}
    BY <1>0
  <2>3. pending'[Current] = {}
    BY <1>0, <2>1
  <2> QED BY <1>0, <1>2, <2>1, <2>2, <2>3 DEF WaitInv, WaitersIn
<1>4. ASSUME NEW i \in DOMAIN order', NEW item \in pending'[order'[i]] PROVE WaitsAt(item, i)'
  <2> DEFINE b == Before(i)
  <2>1. order'[i] = order[b] /\ b \in DOMAIN order \ {at} /\ order[b] \in Slots
        /\ i \in Nat /\ at \in Nat /\ b \in Nat
    BY <1>0, <1>1 DEF WellTyped
  <2>2. PICK old \in pending[order[b]] : item = now(old)
    BY <1>0, <2>1
  <2>3. old \in Command
    BY <1>1, <2>1 DEF WellTyped
  <2>4. /\ item.loops = old.loops /\ item.to = old.to /\ item.nick = old.nick
        /\ item.meant = old.meant /\ item.live = (old.live /\ old.to # Current)
        /\ item.to \in Slots /\ item.loops \in 0 .. 2
    BY <2>2, <2>3 DEF Command
  <2>5. WaitsAt(old, b) /\ item.loops # 0
    <3>1. WaitsAt(old, b)
      BY <2>1, <2>2 DEF WaitInv
    <3> QED BY <3>1, <2>1, <2>4 DEF WaitsAt
  <2>6. CASE item.to = Current
    <3>1. user'[item.to].st = "free" /\ ~item.live
      BY <1>2, <2>4, <2>6
    <3> QED BY <2>4, <2>5, <3>1 DEF WaitsAt, DeadFor, Successor
  <2>7. CASE item.to # Current
    <3>1. user'[item.to] = user[item.to]
      BY <1>2, <2>4, <2>7
    <3>2. CASE item.live
      BY <2>4, <2>5, <3>1, <3>2 DEF WaitsAt, LiveFor
    <3>3. CASE ~item.live
      <4>1. DeadFor(old, b)
        BY <2>4, <2>5, <2>7, <3>3 DEF WaitsAt
      <4>2. ASSUME NEW j \in DOMAIN order', order'[j] = item.to PROVE Successor(item, i, j)'
        <5>1. Before(j) \in DOMAIN order \ {at} /\ order[Before(j)] = old.to
          BY <1>0, <2>4, <4>2
        <5>2. Successor(old, b, Before(j))
          BY <4>1, <5>1 DEF DeadFor
        <5>3. j \in Nat /\ (Before(j) > b => j > i) /\ (at <= b => at <= i) /\ (at > Before(j) => at > j)
          BY <1>0, <1>1, <2>1 DEF Before
        <5> QED BY <1>0, <2>4, <3>1, <5>2, <5>3 DEF Successor
      <4> QED BY <2>4, <2>5, <3>1, <3>3, <4>1, <4>2 DEF WaitsAt, DeadFor
    <3> QED BY <3>2, <3>3
  <2> QED BY <2>6, <2>7
<1> QED BY <1>3, <1>4 DEF WaitInv

LEMMA PassWait ==
    ASSUME TypeInv, WaitInv, Pass
    PROVE  WaitInv'
<1>0. /\ at = 0 /\ at' = 1 /\ UNCHANGED <<pending, search>>
      /\ \/ UNCHANGED <<user, order>>
         \/ \E s \in Slots :
              /\ user[s].st = "free" /\ user' = [user EXCEPT ![s].st = "accepted"]
              /\ order' = Append(order, s)
  BY PassIs
<1>1. WellTyped /\ DOMAIN order = 1 .. Len(order) /\ Len(order) \in Nat
  BY UsersTyped DEF TypeInv, WellTyped
<1>2. ASSUME NEW i \in DOMAIN order, NEW item \in pending[order[i]]
      PROVE  /\ order[i] \in Slots /\ item.to \in Slots /\ i \in Nat /\ i >= 1
             /\ WaitsAt(item, i) /\ item.loops # 0
  BY <1>0, <1>1 DEF WellTyped, Command, WaitInv, WaitsAt
<1>3. CASE UNCHANGED <<user, order>>
  <2>1. WaitersIn'
    BY <1>0, <1>3 DEF WaitInv, WaitersIn
  <2>2. ASSUME NEW i \in DOMAIN order, NEW item \in pending[order[i]] PROVE WaitsAt(item, i)'
    <3>1. ASSUME NEW j \in DOMAIN order, Successor(item, i, j) PROVE Successor(item, i, j)'
      BY <1>0, <1>1, <1>2, <1>3, <3>1 DEF Successor
    <3> QED BY <1>0, <1>2, <1>3, <3>1 DEF WaitsAt, LiveFor, DeadFor
  <2> QED BY <1>0, <1>3, <2>1, <2>2 DEF WaitInv
<1>4. ASSUME NEW s \in Slots, user[s].st = "free", user' = [user EXCEPT ![s].st = "accepted"],
             order' = Append(order, s)
      PROVE  WaitInv'
  <2>1. /\ DOMAIN order' = (1 .. Len(order)) \cup {Len(order) + 1}
        /\ \A i \in 1 .. Len(order) : order'[i] = order[i]
        /\ order'[Len(order) + 1] = s
    BY <1>1, <1>4 DEF WellTyped
  <2>2. user'[s].st = "accepted" /\ \A t \in Slots : t # s => user'[t] = user[t]
    BY <1>1, <1>4 DEF WellTyped, Users
  <2>3. pending[s] = {} /\ search[s] = {}
    BY <1>4 DEF WaitInv, WaitersIn
  <2>4. WaitersIn'
    BY <1>0, <2>2, <2>3 DEF WaitInv, WaitersIn
  <2>5. ASSUME NEW i \in DOMAIN order, NEW item \in pending[order[i]] PROVE WaitsAt(item, i)'
    <3>1. CASE item.live
      <4>1. item.to # s
        BY <1>2, <1>4, <3>1 DEF WaitsAt, LiveFor
      <4> QED BY <1>2, <2>2, <3>1, <4>1 DEF WaitsAt, LiveFor
    <3>2. CASE ~item.live
      <4>1. DeadFor(item, i)
        BY <1>2, <3>2 DEF WaitsAt
      <4>2. ASSUME NEW j \in DOMAIN order', order'[j] = item.to PROVE Successor(item, i, j)'
        <5>1. CASE item.to = s
          <6>1. j \notin 1 .. Len(order)
            BY <1>1, <1>4, <2>1, <4>2, <5>1 DEF TypeInv, OrderInv
          <6>2. j = Len(order) + 1 /\ i <= Len(order)
            BY <1>1, <2>1, <6>1
          <6> QED BY <1>0, <1>1, <1>2, <2>2, <5>1, <6>2 DEF Successor
        <5>2. CASE item.to # s
          <6>1. j \in DOMAIN order /\ order[j] = item.to
            BY <1>1, <2>1, <4>2, <5>2
          <6>2. Successor(item, i, j) /\ user'[item.to] = user[item.to]
            BY <1>2, <2>2, <4>1, <5>2, <6>1 DEF DeadFor
          <6> QED BY <1>0, <1>1, <1>2, <6>1, <6>2 DEF Successor
        <5> QED BY <5>1, <5>2
      <4>3. user'[item.to].st \in {"free", "accepted", "login", "gone"}
        BY <1>2, <2>2, <4>1 DEF DeadFor
      <4> QED BY <1>2, <3>2, <4>1, <4>2, <4>3 DEF WaitsAt, DeadFor
    <3> QED BY <3>1, <3>2
  <2>6. ASSUME NEW i \in DOMAIN order', NEW item \in pending'[order'[i]] PROVE WaitsAt(item, i)'
    <3>1. i \in DOMAIN order /\ item \in pending[order[i]]
      BY <1>0, <1>1, <2>1, <2>3
    <3> QED BY <2>5, <3>1
  <2> QED BY <2>4, <2>6 DEF WaitInv
<1> QED BY <1>0, <1>3, <1>4

LEMMA SendLoopWait ==
    ASSUME TypeInv, WaitInv, SendLoop
    PROVE  WaitInv'
<1>0. /\ at = Len(order) + 1 /\ at' = 0 /\ UNCHANGED order
      /\ \A s \in Slots :
           /\ user'[s].nick = user[s].nick
           /\ \/ /\ user[s].st \notin Leaving /\ user'[s].st = "gone"
                 /\ pending'[s] = {} /\ search'[s] = {}
              \/ /\ user'[s].st = IF user[s].st = "adding" THEN "in" ELSE user[s].st
                 /\ pending'[s] = pending[s] /\ search'[s] \subseteq search[s]
  BY SendLoopIs
<1>1. WellTyped /\ DOMAIN order = 1 .. Len(order) /\ Len(order) \in Nat
  BY UsersTyped DEF TypeInv, WellTyped
<1>2. WaitersIn'
  BY <1>0 DEF WaitInv, WaitersIn
<1>3. ASSUME NEW i \in DOMAIN order, NEW item \in pending'[order[i]] PROVE WaitsAt(item, i)'
  <2>1. order[i] \in Slots /\ item \in pending[order[i]] /\ i \in Nat /\ i >= 1 /\ i <= Len(order)
    BY <1>0, <1>1 DEF WellTyped
  <2>2. item.to \in Slots
    BY <1>1, <2>1 DEF WellTyped, Command
  <2>3. WaitsAt(item, i) /\ item.loops # 0
    BY <1>0, <1>1, <2>1 DEF WaitInv, WaitsAt
  <2>4. CASE item.live
    BY <1>0, <2>2, <2>3, <2>4 DEF WaitsAt, LiveFor, Leaving
  <2>5. CASE ~item.live
    <3>1. DeadFor(item, i)
      BY <2>3, <2>5 DEF WaitsAt
    <3>2. user'[item.to].st = user[item.to].st \/ user'[item.to].st = "gone"
      BY <1>0, <2>2, <3>1 DEF DeadFor
    <3>3. ASSUME NEW j \in DOMAIN order, Successor(item, i, j) PROVE Successor(item, i, j)'
      BY <1>0, <1>1, <2>1, <3>2, <3>3 DEF Successor
    <3> QED BY <1>0, <2>3, <2>5, <3>1, <3>2, <3>3 DEF WaitsAt, DeadFor
  <2> QED BY <2>4, <2>5
<1> QED BY <1>0, <1>2, <1>3 DEF WaitInv

LEMMA WaitStep ==
    ASSUME TypeInv, WaitInv, [Next]_vars
    PROVE  WaitInv'
<1>1. CASE Next
  <2>1. ASSUME Accepted \/ LoggingIn \/ Drains PROVE WaitInv'
    <3>1. CASE Onward({"accepted"}, "login")
      BY <3>1, OnwardWait
    <3>2. CASE Onward({"hashed"}, "adding")
      BY <3>2, OnwardWait
    <3>3. CASE Onward({"login", "hashed", "adding"}, user[Current].st) /\ UNCHANGED user
      BY <3>3, OnwardWait
    <3>4. CASE Onward({"closing"}, "gone")
      BY <3>4, OnwardWait
    <3> QED BY <2>1, <3>1, <3>2, <3>3, <3>4, Turns
  <2> QED BY <1>1, <2>1, HeardSteps, HeardWait, ClosesWait, LogsInWait, MemberTurnWait,
             RemovedWait, PassWait, SendLoopWait
<1>2. CASE UNCHANGED vars
  BY <1>2 DEF vars, WaitInv, WaitersIn, WaitsAt, LiveFor, DeadFor, Successor
<1> QED BY <1>1, <1>2

LEMMA WaitInvHolds == Spec => [](TypeInv /\ WaitInv)
BY TypeInit, WaitInit, TypeStep, WaitStep, PTL DEF Spec

\* PendingPointersSafe: a command that waits for a user that is gone (the raw
\* m_pToUser of AddPrcsdCmd) never points to a user that can be found, so that
\* neither a later command joins it nor $Kick gives it to a stranger.
THEOREM PointersSafe == Spec => []PendingPointersSafe
<1>1. TypeInv /\ WaitInv => PendingPointersSafe
  BY FoundLive DEF PendingPointersSafe
<1> QED BY <1>1, WaitInvHolds, PTL

\* DeliveredAsMeant: what ReceiveLoop delivers at a member's turn, and what $Kick
\* gives, goes to a user that can be found under the nick it was written for.
THEOREM DeliveriesReach == Spec => DeliveredAsMeant
<1> DEFINE Meant == \A m \in mail' : Hashed(m.to) /\ m.meant = {user[m.to].nick}
<1>1. ASSUME TypeInv, WaitInv, Next PROVE Meant
  <2>1. ASSUME NEW t \in Slots, Hashed(t), mail' = Gives(Current, t).got, Current \in Slots PROVE Meant
    <3>1. ASSUME NEW m \in mail' PROVE Hashed(m.to) /\ m.meant = {user[m.to].nick}
      <4>1. PICK item \in pending[Current] : item.to = t /\ m = [to |-> t, meant |-> item.meant]
        BY <2>1 DEF Gives
      <4>2. LiveFor(item)
        BY <1>1, <2>1, <4>1, FoundLive
      <4> QED BY <2>1, <4>1, <4>2 DEF LiveFor
    <3> QED BY <3>1
  <2>2. CASE MemberTurn
    <3>1. ASSUME NEW m \in mail' PROVE Hashed(m.to) /\ m.meant = {user[m.to].nick}
      <4>1. PICK item \in pending[Current] :
              There(item) /\ m = [to |-> item.to, meant |-> item.meant]
        BY <1>1, <2>2, MemberTurnIs
      <4>2. Hashed(item.to) /\ Current \in Slots
        BY <1>1, <2>2, <4>1, MemberTurnIs DEF There, Found
      <4>3. LiveFor(item)
        BY <1>1, <4>1, <4>2, FoundLive
      <4> QED BY <4>1, <4>2, <4>3 DEF LiveFor
    <3> QED BY <3>1
  <2>3. CASE Given \/ Closes
    <3>1. Current \in Slots
      BY <1>1, <2>3, SpeakerType DEF TypeInv, Given, Said, Closes
    <3> QED BY <2>1, <2>3, <3>1 DEF Given, Closes
  <2>4. CASE Asks \/ Sends \/ Seeks
    BY <2>4 DEF Asks, Sends, Seeks
  <2>5. ASSUME NEW nick \in Nicks, NEW f \in Forms, LogsIn(nick, f) PROVE Meant
    BY <2>5 DEF LogsIn, Quietly
  <2>6. CASE Accepted \/ LoggingIn \/ Drains \/ Removed \/ Pass \/ SendLoop
    BY <2>6 DEF Accepted, LoggingIn, Drains, Removed, Pass, SendLoop, Quietly
  <2> QED BY <1>1, <2>2, <2>3, <2>4, <2>5, <2>6, HeardSteps
<1>2. TypeInv /\ WaitInv /\ [Next]_vars => [Meant]_vars
  BY <1>1
<1> QED BY <1>2, WaitInvHolds, PTL DEF Spec, DeliveredAsMeant
-----------------------------------------------------------------------------
\* Searches.

ActiveWaiting == {w \in Slots \X {"four", "six"} : w[2] \in search[w[1]]}
PassiveWaiting == {s \in Slots : "passive" \in search[s]}

\* The searches that wait were counted, and in the pass that sends them out
\* every member that had its turn has handed over its passive one.
SearchInv ==
    /\ Cardinality(ActiveWaiting) <= act /\ Cardinality(PassiveWaiting) <= pas
    /\ sr = 0 => \A i \in DOMAIN order : at > i => "passive" \notin search[order[i]]

LEMMA WaitingFinite ==
    /\ IsFiniteSet(ActiveWaiting) /\ Cardinality(ActiveWaiting) \in Nat
    /\ IsFiniteSet(PassiveWaiting) /\ Cardinality(PassiveWaiting) \in Nat
    /\ IsFiniteSet(ActiveWaiting') /\ Cardinality(ActiveWaiting') \in Nat
    /\ IsFiniteSet(PassiveWaiting') /\ Cardinality(PassiveWaiting') \in Nat
<1>1. IsFiniteSet(Slots) /\ IsFiniteSet({"four", "six"})
  <2>1. {"four", "six"} = {"four"} \cup {"six"}
    OBVIOUS
  <2>2. IsFiniteSet({"four"})
    BY FS_Singleton
  <2>3. IsFiniteSet({"four"} \cup {"six"})
    BY <2>2, FS_AddElement
  <2> QED BY <2>1, <2>3, MembersAssumption
<1>2. IsFiniteSet(Slots \X {"four", "six"})
  BY <1>1, FS_Product
<1>3. /\ ActiveWaiting \subseteq Slots \X {"four", "six"} /\ PassiveWaiting \subseteq Slots
      /\ ActiveWaiting' \subseteq Slots \X {"four", "six"} /\ PassiveWaiting' \subseteq Slots
  BY DEF ActiveWaiting, PassiveWaiting
<1> QED BY <1>1, <1>2, <1>3, FS_Subset, FS_CardinalityType

LEMMA FewerSearches ==
    ASSUME \A s \in Slots : search'[s] \subseteq search[s]
    PROVE  /\ Cardinality(ActiveWaiting') <= Cardinality(ActiveWaiting)
           /\ Cardinality(PassiveWaiting') <= Cardinality(PassiveWaiting)
<1>1. ActiveWaiting' \subseteq ActiveWaiting
  <2> SUFFICES ASSUME NEW w \in ActiveWaiting' PROVE w \in ActiveWaiting
    OBVIOUS
  <2>1. w \in Slots \X {"four", "six"} /\ w[2] \in search'[w[1]] /\ w[1] \in Slots
    BY DEF ActiveWaiting
  <2> QED BY <2>1 DEF ActiveWaiting
<1>2. PassiveWaiting' \subseteq PassiveWaiting
  BY DEF PassiveWaiting
<1> QED BY <1>1, <1>2, WaitingFinite, FS_Subset

\* A part of the union of two finite sets.
LEMMA UnionBound ==
    ASSUME NEW S, NEW T, NEW R, IsFiniteSet(S), IsFiniteSet(T), R \subseteq S \cup T
    PROVE  Cardinality(R) <= Cardinality(S) + Cardinality(T)
<1>1. /\ IsFiniteSet(S \cup T)
      /\ Cardinality(S \cup T) = Cardinality(S) + Cardinality(T) - Cardinality(S \cap T)
  BY FS_Union
<1>2. IsFiniteSet(S \cap T)
  <2>1. S \cap T \subseteq S
    OBVIOUS
  <2> QED BY <2>1, FS_Subset
<1>3. IsFiniteSet(R) /\ Cardinality(R) <= Cardinality(S \cup T)
  BY <1>1, FS_Subset
<1>4. /\ Cardinality(S) \in Nat /\ Cardinality(T) \in Nat /\ Cardinality(S \cap T) \in Nat
      /\ Cardinality(R) \in Nat
  BY <1>2, <1>3, FS_CardinalityType
<1> QED BY <1>1, <1>3, <1>4

\* Every search that is added is counted.
LEMMA MoreSearches ==
    ASSUME WellTyped, NEW u \in Slots, NEW made \in Seq(SearchKinds), AddSearches(u, made),
           SearchInv
    PROVE  Cardinality(ActiveWaiting') <= act' /\ Cardinality(PassiveWaiting') <= pas'
<1> DEFINE I == OfKinds(made, {"four", "six"})
           P == OfKinds(made, {"passive"})
           A == {<<u, made[i]>> : i \in I}
           B == {u : i \in P}
<1>1. search' = [search EXCEPT ![u] = @ \cup ToSet(made)]
      /\ act' = act + Cardinality(I) /\ pas' = pas + Cardinality(P)
  BY DEF AddSearches
<1>2. /\ IsFiniteSet(I) /\ Cardinality(I) \in Nat /\ IsFiniteSet(P) /\ Cardinality(P) \in Nat
      /\ act \in Nat /\ pas \in Nat
  <2>1. IsFiniteSet(1 .. Len(made)) /\ DOMAIN made = 1 .. Len(made)
    BY FS_Interval
  <2> QED BY <2>1, FS_Subset, FS_CardinalityType DEF OfKinds, WellTyped
<1>3. IsFiniteSet(A) /\ Cardinality(A) <= Cardinality(I) /\ Cardinality(A) \in Nat
  <2> DEFINE f == [i \in I |-> <<u, made[i]>>]
  <2>1. f \in Surjection(I, A)
    BY DEF Surjection
  <2> HIDE DEF f, I, A
  <2> QED BY <1>2, <2>1, FS_Surjection, FS_CardinalityType
<1>4. IsFiniteSet(B) /\ Cardinality(B) <= Cardinality(P) /\ Cardinality(B) \in Nat
  <2> DEFINE f == [i \in P |-> u]
  <2>1. f \in Surjection(P, B)
    BY DEF Surjection
  <2> HIDE DEF f, P, B
  <2> QED BY <1>2, <2>1, FS_Surjection, FS_CardinalityType
<1>5. ActiveWaiting' \subseteq ActiveWaiting \cup A
  <2> SUFFICES ASSUME NEW w \in ActiveWaiting', w \notin ActiveWaiting PROVE w \in A
    OBVIOUS
  <2>1. w \in Slots \X {"four", "six"} /\ w[2] \in search'[w[1]] /\ w[1] \in Slots
        /\ w[2] \in {"four", "six"} /\ w = <<w[1], w[2]>>
    BY DEF ActiveWaiting
  <2>2. w[2] \notin search[w[1]]
    BY <2>1 DEF ActiveWaiting
  <2>3. w[1] = u /\ w[2] \in ToSet(made)
    BY <2>1, <2>2, <1>1 DEF WellTyped
  <2>4. PICK i \in DOMAIN made : w[2] = made[i]
    BY <2>3 DEF ToSet
  <2>5. i \in I /\ w = <<u, made[i]>>
    BY <2>1, <2>3, <2>4 DEF OfKinds
  <2> QED BY <2>5
<1>6. PassiveWaiting' \subseteq PassiveWaiting \cup B
  <2> SUFFICES ASSUME NEW s \in PassiveWaiting', s \notin PassiveWaiting PROVE s \in B
    OBVIOUS
  <2>1. s = u /\ "passive" \in ToSet(made)
    BY <1>1 DEF PassiveWaiting, WellTyped
  <2>2. PICK i \in DOMAIN made : "passive" = made[i]
    BY <2>1 DEF ToSet
  <2>3. i \in P
    BY <2>2 DEF OfKinds
  <2> QED BY <2>1, <2>3
<1> HIDE DEF I, P, A, B
<1>7. Cardinality(ActiveWaiting') <= Cardinality(ActiveWaiting) + Cardinality(A)
  BY <1>3, <1>5, WaitingFinite, UnionBound
<1>8. Cardinality(PassiveWaiting') <= Cardinality(PassiveWaiting) + Cardinality(B)
  BY <1>4, <1>6, WaitingFinite, UnionBound
<1> QED BY <1>1, <1>2, <1>3, <1>4, <1>7, <1>8, WaitingFinite DEF SearchInv

LEMMA SearchInit == Init => SearchInv
<1> SUFFICES ASSUME Init PROVE SearchInv
  OBVIOUS
<1>1. ActiveWaiting = {} /\ PassiveWaiting = {}
  <2>1. \A s \in Slots : search[s] = {}
    BY DEF Init
  <2> QED BY <2>1 DEF ActiveWaiting, PassiveWaiting
<1> QED BY <1>1, FS_EmptySet DEF Init, SearchInv

\* A step that adds no search and forgets none.
LEMMA FewerHold ==
    ASSUME TypeInv, SearchInv, UNCHANGED <<act, pas>>,
           \A s \in Slots : search'[s] \subseteq search[s]
    PROVE  Cardinality(ActiveWaiting') <= act' /\ Cardinality(PassiveWaiting') <= pas'
<1>1. act \in Nat /\ pas \in Nat
  BY UsersTyped DEF TypeInv, WellTyped
<1> QED BY <1>1, FewerSearches, WaitingFinite DEF SearchInv

\* One that moves nobody besides.
LEMMA FewerAtTurn ==
    ASSUME TypeInv, SearchInv, UNCHANGED <<act, pas, order, at, sr>>,
           \A s \in Slots : search'[s] \subseteq search[s]
    PROVE  SearchInv'
<1>1. \A i \in DOMAIN order : order[i] \in Slots
  BY UsersTyped DEF TypeInv, WellTyped
<1> QED BY <1>1, FewerHold DEF SearchInv

LEMMA SeeksSearch ==
    ASSUME TypeInv, SearchInv, Seeks
    PROVE  SearchInv'
<1>1. WellTyped /\ Current \in Slots /\ at \in 1 .. Len(order)
  BY UsersTyped, SpeakerType DEF TypeInv, Seeks, Said
<1>2. PICK made \in Seq(SearchKinds) : AddSearches(Current, made)
  BY DEF Seeks
<1>3. \A s \in Slots : s # Current => search'[s] = search[s]
  BY <1>1, <1>2 DEF AddSearches, WellTyped
<1>4. ASSUME NEW i \in DOMAIN order, at > i PROVE order[i] \in Slots /\ order[i] # Current
  <2>1. DOMAIN order = 1 .. Len(order) /\ Len(order) \in Nat
    BY <1>1 DEF WellTyped
  <2>2. i # at /\ at \in DOMAIN order
    BY <1>1, <1>4, <2>1
  <2> QED BY <1>1, <2>2 DEF TypeInv, OrderInv, Current, WellTyped
<1>5. (sr = 0 => \A i \in DOMAIN order : at > i => "passive" \notin search[order[i]])'
  BY <1>3, <1>4 DEF SearchInv, Seeks, Said
<1> QED BY <1>1, <1>2, <1>5, MoreSearches DEF SearchInv

\* A turn ends: what a member keeps after it is not a passive search.
LEMMA TurnSearch ==
    ASSUME TypeInv, SearchInv, at \in 1 .. Len(order), at' = at + 1,
           UNCHANGED <<order, act, pas, sr>>,
           \A s \in Slots : search'[s] \subseteq search[s],
           sr = 0 => "passive" \notin search'[Current]
    PROVE  SearchInv'
<1>1. \A i \in DOMAIN order : i \in Int /\ order[i] \in Slots
  BY UsersTyped DEF TypeInv, WellTyped
<1>2. ASSUME sr = 0, NEW i \in DOMAIN order, at + 1 > i
      PROVE  "passive" \notin search'[order[i]]
  <2>1. i = at \/ at > i
    BY <1>1, <1>2
  <2> QED BY <1>1, <1>2, <2>1 DEF SearchInv, Current
<1> QED BY <1>2, FewerHold DEF SearchInv

LEMMA RemovedSearch ==
    ASSUME TypeInv, SearchInv, Removed
    PROVE  SearchInv'
<1>1. UNCHANGED <<at, search, act, pas, sr>> /\ at \in 1 .. Len(order)
  BY RemovedIs
<1>2. \A s \in Slots : search'[s] \subseteq search[s]
  BY <1>1
<1>3. ASSUME NEW i \in DOMAIN order', at > i
      PROVE  order'[i] = order[Before(i)] /\ Before(i) \in DOMAIN order /\ at > Before(i)
  <2>1. DOMAIN order' = 1 .. Len(order) - 1
    BY RemovedIs
  <2>2. at > Before(i)
    BY <1>3, <2>1, <1>1 DEF Before
  <2> QED BY <2>2, RemovedIs
<1> QED BY <1>1, <1>2, <1>3, FewerHold DEF SearchInv

LEMMA PassSearch ==
    ASSUME TypeInv, SearchInv, Pass
    PROVE  SearchInv'
<1>1. at' = 1 /\ UNCHANGED <<search, act, pas>>
  BY PassIs
<1>2. order' \in Seq(Slots)
  <2>1. Pass => TypeInv'
    BY PassType
  <2> QED BY <2>1, UsersTyped DEF TypeInv, WellTyped
<1>3. ~\E i \in DOMAIN order' : 1 > i
  BY <1>2
<1> QED BY <1>1, <1>3, FewerHold DEF SearchInv

\* What the send loop forgets does not wait any more.
LEMMA SendLoopSearch ==
    ASSUME TypeInv, WaitersIn, SearchInv, SendLoop
    PROVE  SearchInv'
<1>1. /\ at = Len(order) + 1 /\ at' = 0 /\ UNCHANGED <<order, sr>>
      /\ act' = Counts(act) /\ pas' = Counts(pas)
      /\ \A s \in Slots : search'[s] \subseteq search[s]
  BY SendLoopIs
<1>2. order \in Seq(Slots)
  BY UsersTyped DEF TypeInv, WellTyped
<1>3. ~\E i \in DOMAIN order : 0 > i
  BY <1>2
<1>4. CASE sr # 0
  <2>1. UNCHANGED <<act, pas>>
    BY <1>1, <1>4 DEF Counts
  <2> QED BY <1>1, <1>4, <2>1, FewerHold DEF SearchInv
<1>5. CASE sr = 0
  <2>1. act' = 0 /\ pas' = 0
    BY <1>1, <1>5 DEF Counts
  <2>2. ASSUME NEW s \in Slots
        PROVE  "four" \notin search'[s] /\ "six" \notin search'[s]
    <3>1. search[s] = {} \/ user[s].st = "in"
      BY DEF WaitersIn
    <3> QED BY <3>1, <1>5, SendLoopIs
  <2>3. ASSUME NEW s \in Slots PROVE "passive" \notin search'[s]
    <3>1. CASE search[s] = {}
      BY <3>1, <1>1
    <3>2. CASE user[s].st = "in"
      <4>1. PICK i \in DOMAIN order : order[i] = s
        BY <3>2 DEF TypeInv, OrderInv
      <4>2. at > i
        BY <1>1, <1>2
      <4> QED BY <4>1, <4>2, <1>1, <1>5 DEF SearchInv
    <3> QED BY <3>1, <3>2 DEF WaitersIn
  <2>4. ActiveWaiting' = {} /\ PassiveWaiting' = {}
    BY <2>2, <2>3 DEF ActiveWaiting, PassiveWaiting
  <2> QED BY <1>1, <1>3, <2>1, <2>4, FS_EmptySet DEF SearchInv
<1> QED BY <1>4, <1>5

LEMMA SearchStep ==
    ASSUME TypeInv, WaitInv, SearchInv, [Next]_vars
    PROVE  SearchInv'
<1>0. search \in [Slots -> SUBSET SearchKinds] /\ WaitersIn
  BY UsersTyped DEF TypeInv, WellTyped, WaitInv
<1>1. CASE Asks \/ Sends \/ Given \/ UNCHANGED vars
  BY <1>1, FewerAtTurn DEF Asks, Sends, Given, Said, vars
<1>2. CASE Closes
  <2>1. \A s \in Slots : search'[s] \subseteq search[s]
    BY <1>0, <1>2, ClosesWhat
  <2> QED BY <1>2, <2>1, ClosesWhat, FewerAtTurn
<1>3. ASSUME NEW nick \in Nicks, NEW f \in Forms, LogsIn(nick, f) PROVE SearchInv'
  BY <1>3, LogsInType, FewerAtTurn
<1>4. CASE Accepted \/ LoggingIn \/ Drains
  <2>1. /\ at \in 1 .. Len(order) /\ at' = at + 1 /\ UNCHANGED <<order, search, act, pas, sr>>
        /\ user[Current].st # "in"
    BY <1>4, Turns DEF Onward
  <2>2. Current \in Slots
    BY <2>1, SpeakerType DEF TypeInv
  <2>3. "passive" \notin search'[Current]
    BY <1>0, <2>1, <2>2 DEF WaitersIn
  <2> QED BY <2>1, <2>3, TurnSearch
<1>5. CASE MemberTurn
  <2>1. /\ \A s \in Slots : search'[s] \subseteq search[s]
        /\ sr = 0 => "passive" \notin search'[Current]
    BY <1>0, <1>5, MemberTurnIs
  <2> QED BY <1>5, <2>1, MemberTurnIs, TurnSearch
<1> QED BY <1>0, <1>1, <1>2, <1>3, <1>4, <1>5, HeardSteps, SeeksSearch, RemovedSearch,
           PassSearch, SendLoopSearch

\* Between passes every search that waits is still counted, so that the many
\* that send searches out at once are counted from all of them (AddSearch,
\* the reset at the end of ReceiveLoop).
THEOREM SearchesCounted == Spec => []WaitingSearchesCounted
<1>1. Init => SearchInv
  BY SearchInit
<1>2. TypeInv /\ WaitInv /\ SearchInv /\ [Next]_vars => SearchInv'
  BY SearchStep
<1>3. SearchInv => WaitingSearchesCounted
  BY DEF SearchInv, WaitingSearchesCounted, ActiveWaiting, PassiveWaiting
<1> QED BY <1>1, <1>2, <1>3, WaitInvHolds, PTL DEF Spec
=============================================================================
