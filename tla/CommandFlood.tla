----------------------------- MODULE CommandFlood -----------------------------
(***************************************************************************)
(* What one member may send: the order in which each handler of            *)
(* DcCommands.cpp measures a command, counts it against its limits and     *)
(* lets it through, and the data that DoRecv takes from the socket.  A     *)
(* right that exempts from a limit is the limit turned Off.                *)
(*                                                                         *)
(* A text is known by its identity and its lines.  passed is not in the    *)
(* code: the ages of the commands that were let through and counted.       *)
(***************************************************************************)
EXTENDS DeFlood, Sequences, FiniteSets

CONSTANTS
    Limits,      \* kind -> [one, two, same, int -> limit, multi -> [count, lines, action, max]];
                 \* max: lines a text may have, 0: any
    DataLimits,  \* "one", "two" -> limit, in kilobytes
    Texts,       \* what is said or searched
    Lines,       \* how many lines each text has
    MaxCount,    \* bound: commands counted in one window
    Backlog,     \* bound: kilobytes that wait in the socket
    Chunk,       \* kilobytes DoRecv takes at once
    NoText       \* nothing was said yet

Kinds == {"chat", "pm", "search", "ctm", "rctm", "sr", "myinfo", "nicklist"}
Windows == {"one", "two", "same", "int"}
Streams == {"one", "two"}

(* The bounds let every limit be reached, and no count go round.  Only one *)
(* limit is asked for nick lists.                                          *)
ASSUME LimitsAssumption ==
    /\ MaxCount \in Nat /\ Backlog \in Nat /\ Chunk \in Nat \ {0}
    /\ MaxCount + Backlog + Chunk < Word
    /\ \A k \in Kinds, f \in Windows :
         /\ Limits[k][f].count \in 1 .. MaxCount /\ Limits[k][f].time \in Nat
         /\ Limits[k][f].action \in 0 .. 6
    /\ \A k \in Kinds : Limits[k].multi.action \in 0 .. 6
    /\ Limits["nicklist"].two.action = 0
    /\ \A s \in Streams :
         /\ DataLimits[s].count \in Nat \ {0} /\ DataLimits[s].time \in Nat
         /\ DataLimits[s].action \in 0 .. 6
    /\ Lines \in [Texts -> Nat] /\ NoText \notin Texts

VARIABLES
    who,      \* the member
    win,      \* its windows for each kind of command
    last,     \* m_sLastChat, m_sLastPM, m_LastSearch
    multi,    \* lines of the last text, and how often such texts came again
    recv,     \* m_ui32Recvs and m_ui32Recvs2
    waiting,  \* kilobytes in the socket
    passed,   \* ages of the commands of each kind that were let through
    read      \* ages of the kilobytes that were read

vars == <<who, win, last, multi, recv, waiting, passed, read>>
said == <<win, last, multi, passed>>
stream == <<recv, waiting, read>>

New == [open |-> TRUE, ban |-> "none", warnings |-> 0, flooder |-> FALSE]
NoLines == [lines |-> 0, n |-> 0]
NoWindows == [k \in Kinds |-> [f \in Windows |-> Fresh]]
NoTexts == [k \in Kinds |-> NoText]
NoVerses == [k \in Kinds |-> NoLines]
Nothing == [k \in Kinds |-> <<>>]
NoData == [s \in Streams |-> Fresh]
Init ==
    /\ who = New
    /\ win = NoWindows /\ last = NoTexts /\ multi = NoVerses /\ passed = Nothing
    /\ recv = NoData /\ waiting = 0 /\ read = <<>>

(* A limit that is off does not count.                                     *)
On(k, f) == IF f = "int" THEN Limits[k].int.time # 0 ELSE Limits[k][f].action # 0

(* No count wraps below 0, but for one that nobody asks: what is taken off *)
(* the two counts is taken off the second one if the first has counted.    *)
Unasked(k, f) == f = "two" /\ On(k, "one") /\ ~On(k, "two")
Window == [n : 0 .. Word - 1, age : Nat]
TypeOK ==
    /\ who \in [open : BOOLEAN, ban : Bans, warnings : Nat, flooder : BOOLEAN]
    /\ win \in [Kinds -> [Windows -> Window]]
    /\ \A k \in Kinds, f \in Windows : Unasked(k, f) \/ win[k][f].n <= MaxCount
    /\ last \in [Kinds -> Texts \cup {NoText}]
    /\ multi \in [Kinds -> [lines : Nat, n : Nat]]
    /\ recv \in [Streams -> Window]
    /\ \A s \in Streams : recv[s].n <= MaxCount
    /\ waiting \in 0 .. Backlog
-----------------------------------------------------------------------------
(* A command of kind k on its way through the checks: ok while it passes.  *)
Arrives(k) ==
    [who |-> who, w |-> win[k], last |-> last[k], multi |-> multi[k], ok |-> TRUE]

Checked(c, f, r) == [c EXCEPT !.who = r.who, !.w[f] = r.w, !.ok = r.ok]
Flood(c, k, f) ==
    IF ~c.ok \/ ~On(k, f) THEN c
    ELSE Checked(c, f, CheckForFlood(c.who, c.w[f], Limits[k][f]))
Floods(c, k) == Flood(Flood(c, k, "one"), k, "two")

(* Off when the time is 0: the window is never open.                       *)
Interval(c, k) ==
    IF ~c.ok \/ ~On(k, "int") THEN c
    ELSE Checked(c, "int", CheckInterval(c.who, c.w.int, Limits[k].int))

(* The same text again, or another one: SetLastChat, SetLastPM and         *)
(* SetLastSearch remember it and forget how many lines came again.         *)
NewText(c, text) == [c EXCEPT !.last = text, !.multi.n = 0]
SameText(c, k, text) ==
    LET L == Limits[k].same
        same == text = c.last
        r == CheckForSameFlood(c.who, c.w.same, L, same)
    IN  IF ~c.ok \/ ~On(k, "same") THEN c
        ELSE IF same /\ Within(c.w.same, L) THEN Checked(c, "same", r)
        ELSE NewText(Checked(c, "same", r), text)

(* Texts of several lines that come again, whoever repeats them, and texts *)
(* of too many lines.  They are counted from the second time of a text on. *)
LineLimits(c, k, text) ==
    LET M == Limits[k].multi
        lines == IF c.w.same.n < 2 THEN Lines[text] ELSE c.multi.lines
        m == [lines |-> lines, n |-> c.multi.n + IF lines > 1 THEN 1 ELSE 0]
        many == M.action # 0 /\ m.n > M.count /\ lines >= M.lines
    IN  IF ~c.ok \/ (M.max = 0 /\ M.action = 0) THEN c
        ELSE [c EXCEPT !.multi = m,
                       !.who = IF many THEN DoAction(@, M.action) ELSE @,
                       !.ok = ~many /\ (M.max = 0 \/ lines <= M.max)]

Refused(c) == [c EXCEPT !.ok = FALSE]
Spoofed(c) == [c EXCEPT !.ok = FALSE, !.who = Closed(@, "none")]
When(condition, c, then(_)) == IF c.ok /\ condition THEN then(c) ELSE c

(* A closed member takes its counters with it; its warnings are forgotten, *)
(* its ban is kept elsewhere.                                              *)
Goes(m) ==
    /\ who' = [m EXCEPT !.warnings = 0, !.flooder = FALSE]
    /\ win' = NoWindows /\ last' = NoTexts /\ multi' = NoVerses /\ passed' = Nothing
    /\ recv' = NoData /\ waiting' = 0 /\ read' = <<>>

(* The end of its way: what is counted is let through and remembered.      *)
Longest(k) == IF Limits[k].one.time > Limits[k].two.time
              THEN Limits[k].one.time ELSE Limits[k].two.time
Ends(c, k) ==
    /\ \A f \in Windows : Unasked(k, f) \/ c.w[f].n < MaxCount
    /\ c.multi.n < MaxCount
    /\ IF ~c.who.open THEN Goes(c.who)
       ELSE /\ who' = c.who
            /\ win' = [win EXCEPT ![k] = c.w]
            /\ last' = [last EXCEPT ![k] = c.last]
            /\ multi' = [multi EXCEPT ![k] = c.multi]
            /\ passed' = [passed EXCEPT ![k] =
                 IF c.ok /\ Longest(k) > 0 THEN Append(@, 0) ELSE @]
            /\ UNCHANGED stream

(* A hub command, and the text of a kick, is taken off the two counts.     *)
UncountedAlways(w) ==    \* mutant: without a look at the count
    [w EXCEPT !.one = Grown(@, -1), !.two = Grown(@, -1)]
Uncounted(w) ==
    IF w.one.n = 0 THEN w
    ELSE [w EXCEPT !.one = Grown(@, -1), !.two = Grown(@, -1)]
EndsUncounted(c, k) ==
    /\ c.ok
    /\ win' = [win EXCEPT ![k] = Uncounted(c.w)]
    /\ last' = [last EXCEPT ![k] = c.last]
    /\ multi' = [multi EXCEPT ![k] = c.multi]
    /\ UNCHANGED <<who, passed, stream>>
-----------------------------------------------------------------------------
(* The handlers.  short and long are lengths no command of the kind has,   *)
(* spoofed is a command in the name of another, script one that a script   *)
(* took.                                                                   *)
Flaws == {"none", "short", "long", "spoofed", "script"}

(* Somebody else's name first, then the floods; an empty text, then length *)
(* and lines, the interval, and a gagged member is not heard.              *)
ChatWay(text, flaw) ==
    LET deflooded == SameText(Floods(When(flaw = "spoofed", Arrives("chat"), Spoofed),
                                     "chat"), "chat", text)
        measured == When(flaw \in {"short", "long"}, deflooded, Refused)
        counted == Interval(LineLimits(measured, "chat", text), "chat")
    IN  When(flaw = "script", counted, Refused)
Chat(text, flaw) == who.open /\ Ends(ChatWay(text, flaw), "chat")
ChatHubCommand(text) == who.open /\ EndsUncounted(ChatWay(text, "none"), "chat")

(* A private message: its form, the floods, length and lines, the interval.*)
ToWay(text, flaw) ==
    LET formed == When(flaw \in {"short", "spoofed"}, Arrives("pm"), Spoofed)
        deflooded == SameText(Floods(formed, "pm"), "pm", text)
        measured == When(flaw = "long", deflooded, Refused)
        counted == Interval(LineLimits(measured, "pm", text), "pm")
    IN  When(flaw = "script", counted, Refused)
To(text, flaw) == who.open /\ Ends(ToWay(text, flaw), "pm")
ToHubCommand(text) == who.open /\ EndsUncounted(ToWay(text, "none"), "pm")

(* A search: the floods, its form, the interval; a passive one in the name *)
(* of another closes, one that is too short or too long is refused.        *)
SearchDeflood(text) == SameText(Floods(Arrives("search"), "search"), "search", text)
Search(text, flaw) ==
    LET formed == When(flaw = "short", SearchDeflood(text), Spoofed)
        counted == Interval(formed, "search")
        taken == When(flaw \in {"script", "long"}, counted, Refused)
    IN  who.open /\ Ends(When(flaw = "spoofed", taken, Spoofed), "search")

(* $ConnectToMe, $RevConnectToMe and $SR differ in what comes before the   *)
(* floods: the length, and for the second one the name.                    *)
Request(k, before, after, flaw) ==
    LET formed == When(flaw \in before, Arrives(k), Spoofed)
        measured == When(flaw \in after, Floods(formed, k), Spoofed)
    IN  who.open /\ Ends(When(flaw = "script", measured, Refused), k)
ConnectToMe(flaw) == Request("ctm", {"short"}, {"long"}, flaw)
RevConnectToMe(flaw) == Request("rctm", {"short", "spoofed"}, {"long"}, flaw)
SR(flaw) == Request("sr", {"short"}, {"long", "spoofed"}, flaw)
MyINFO(flaw) == Request("myinfo", {"short"}, {"long", "spoofed"}, flaw)

(* Who supports QuickList may not ask again ("spoofed" stands for it).     *)
GetNickList(flaw) ==
    LET first == When(flaw = "spoofed", Arrives("nicklist"), Spoofed)
    IN  who.open /\ Ends(When(flaw = "script", Flood(first, "nicklist", "one"), Refused),
                         "nicklist")
-----------------------------------------------------------------------------
(* DoRecv: what waits is added, judged, and taken off again if it may be   *)
(* read.  The second limit is not asked when the first one refuses.        *)
JudgedBefore(m, s) ==    \* mutant: what waits is not added before it is judged
    LET r == CheckForDataFlood(m, recv[s], DataLimits[s])
    IN  IF DataLimits[s].action = 0 THEN Passes(m, recv[s]) ELSE r
Judged(m, s) ==
    LET L == DataLimits[s]
        opened == IF recv[s].n = 0 THEN Fresh ELSE recv[s]
        r == CheckForDataFlood(m, Grown(opened, waiting), L)
        back == IF r.ok /\ r.w.n # 0 THEN Grown(r.w, -waiting) ELSE r.w
    IN  IF L.action = 0 THEN Passes(m, recv[s]) ELSE [r EXCEPT !.w = back]
Horizon == IF DataLimits.one.time > DataLimits.two.time
           THEN DataLimits.one.time ELSE DataLimits.two.time
DoRecv ==
    /\ who.open /\ waiting > 0
    /\ LET one == Judged(who, "one")
           two == IF one.ok THEN Judged(one.who, "two")
                  ELSE Refuses(one.who, recv.two)
           got == IF ~two.ok THEN 0 ELSE IF waiting < Chunk THEN waiting ELSE Chunk
           Now(s, w) == IF DataLimits[s].action = 0 THEN w ELSE Grown(w, got)
       IN  /\ \A w \in {one.w, two.w} : w.n + got < MaxCount
           /\ IF ~two.who.open THEN Goes(two.who)
              ELSE /\ who' = two.who
                   /\ recv' = [s \in Streams |->
                        Now(s, IF s = "one" THEN one.w ELSE two.w)]
                   /\ waiting' = waiting - got
                   /\ read' = IF Horizon = 0 THEN read
                              ELSE read \o [i \in 1 .. got |-> 0]
                   /\ UNCHANGED said

(* A fault of the socket, or its end.                                      *)
RecvFails ==
    /\ who.open
    /\ Goes(Closed(who, "none"))

Sends ==    \* the client
    /\ who.open /\ waiting < Backlog
    /\ waiting' = waiting + 1
    /\ UNCHANGED <<who, said, recv, read>>
-----------------------------------------------------------------------------
(* Every seventh pass what was said last is forgotten when its window is   *)
(* over and it had one line.                                               *)
Forgets(k) ==
    /\ who.open
    /\ last[k] # NoText /\ (k = "search" \/ multi[k].lines < 2)
    /\ win[k].same.age > Limits[k].same.time
    /\ last' = [last EXCEPT ![k] = NoText]
    /\ multi' = [multi EXCEPT ![k] = NoLines]
    /\ UNCHANGED <<who, win, passed, stream>>

(* Those before are older.                                                 *)
Aged(ages, limit) ==
    LET older == [i \in 1 .. Len(ages) |-> ages[i] + 1]
        over == Cardinality({i \in 1 .. Len(ages) : older[i] >= limit})
    IN  SubSeq(older, over + 1, Len(ages))
AgedWindow(k, f) ==    \* a window that is over counts as none, but for Forgets
    LET w == Older(win[k][f], Limits[k][f])
    IN  IF win[k][f] = Fresh THEN Fresh
        ELSE IF Within(w, Limits[k][f]) THEN w
        ELSE IF f = "same" THEN [w EXCEPT !.n = 0] ELSE Fresh
Tick ==
    /\ who.open
    /\ win' = [k \in Kinds |-> [f \in Windows |-> AgedWindow(k, f)]]
    /\ recv' = [s \in Streams |->
         IF recv[s] = Fresh THEN Fresh ELSE Older(recv[s], DataLimits[s])]
    /\ passed' = [k \in Kinds |-> Aged(passed[k], Longest(k))]
    /\ read' = Aged(read, Horizon)
    /\ UNCHANGED <<who, last, multi, waiting>>

(* The member comes back, at once or when its ban is over or lifted.       *)
Returns ==
    /\ ~who.open
    /\ who' = New /\ UNCHANGED <<said, stream>>

Next ==
    \/ \E text \in Texts, flaw \in Flaws :
         Chat(text, flaw) \/ To(text, flaw) \/ Search(text, flaw)
    \/ \E text \in Texts : ChatHubCommand(text) \/ ToHubCommand(text)
    \/ \E flaw \in Flaws :
         \/ ConnectToMe(flaw) \/ RevConnectToMe(flaw) \/ SR(flaw)
         \/ MyINFO(flaw) \/ GetNickList(flaw)
    \/ DoRecv \/ RecvFails \/ Sends
    \/ \E k \in {"chat", "pm", "search"} : Forgets(k)
    \/ Tick \/ Returns

Spec == Init /\ [][Next]_vars
-----------------------------------------------------------------------------
(* All but the last most of them are older than time.                      *)
LastFew(ages, time, most) ==
    \A i \in 1 .. Len(ages) : ages[i] < time => Len(ages) - i < most

(* In no stretch of time as long as a limit's does more than twice the     *)
(* limit get through: windows stand side by side, and neither a warning,   *)
(* which takes the limit off the count, nor a command that is taken off    *)
(* the counts opens one early (CheckForFlood, UncountDeflood).             *)
NoBurst ==
    \A k \in Kinds, f \in {"one", "two"} :
      On(k, f) => LastFew(passed[k], Limits[k][f].time, 2 * Limits[k][f].count)

(* The same for the data that is read: a window takes less than its limit, *)
(* or what its first visit brings (CheckForDataFlood, DoRecv).             *)
NoDeluge ==
    \A s \in Streams :
      LET L == DataLimits[s]
      IN  L.action # 0 =>
            \E most \in {L.count - 1, Chunk} : LastFew(read, L.time, 2 * most)
=============================================================================
