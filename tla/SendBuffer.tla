----------------------------- MODULE SendBuffer -----------------------------
(***************************************************************************)
(* The send buffer of one user.  User::PutInSendBuf appends commands to    *)
(* it, compacting, growing, shrinking or, for a slow user, emptying it;    *)
(* User::Try2Send hands the socket what lies behind the head; and          *)
(* GlobalDataQueue::ProcessQueues cuts the user's own search out of the    *)
(* searches it has just put there (User::RemFromSendBuf).                  *)
(*                                                                         *)
(* A byte is a cell that knows its command and its place in it; commands   *)
(* are numbered in the order they are put.  The buffer's content is a      *)
(* sequence, m_ui32SendBufDataLen its length, and indices count from 0.    *)
(***************************************************************************)
EXTENDS Naturals, Sequences

CONSTANTS
    Lengths,      \* of commands, the '|' at their end included
    Limits,       \* values of szMaxBufLen, at least 262144 in the code
    SmallBuffer,  \* g_ui32SmallSendBufThreshold, 1024
    SendLimit,    \* the most that is given to send(), 32768
    CallLimit,    \* calls between attempts to shrink the buffer, 100
    MaxCommands,  \* bound on the commands put, of the model alone
    KeepSlow      \* whether SETBOOL_KEEP_SLOW_USERS may be on, or off, for this user

ASSUME LengthsAssumption == Lengths \subseteq Nat \ {0}
ASSUME LimitsAssumption ==
    /\ Limits \subseteq Nat
    /\ SmallBuffer \in Nat /\ SendLimit \in Nat \ {0} /\ CallLimit \in Nat
    /\ MaxCommands \in Nat
ASSUME SwitchesAssumption == KeepSlow \subseteq BOOLEAN

VARIABLES
    buf,      \* m_pSendBuf up to m_ui32SendBufDataLen
    head,     \* m_pSendBufHead - m_pSendBuf
    bufLen,   \* m_ui32SendBufLen, 0 when nothing is allocated
    called,   \* m_ui32SendCalled
    big,      \* BIT_BIG_SEND_BUFFER
    error,    \* BIT_ERROR: the user is closed and nothing more is sent
    thinned,  \* history: commands were thrown away to keep the user
    last,     \* the cell sent last
    made      \* commands put so far

vars == <<buf, head, bufLen, called, big, error, thinned, last, made>>

Cell(cmd, i, len) == [cmd |-> cmd, pos |-> i, end |-> i = len]
Command(cmd, len) == [i \in 1 .. len |-> Cell(cmd, i, len)]

Own == 0                                            \* the user's own search
Nothing == [cmd |-> 0, pos |-> 0, end |-> TRUE]     \* before the first command
Bar == <<[cmd |-> 0, pos |-> 1, end |-> TRUE]>>     \* "|"

Allign(n) == n + n \div 2 + 1

Pending == SubSeq(buf, head + 1, Len(buf))

Least(S) == CHOOSE k \in S : \A j \in S : k <= j

\* Where memchr finds a '|', from index i on.
EndsFrom(i) == {k \in i .. Len(buf) - 1 : buf[k + 1].end}

(***************************************************************************)
(* What a slow user keeps: the rest of the command that is being sent, and *)
(* as many of the newest commands as leave room for n bytes.               *)
(***************************************************************************)
\* mutant: what is kept begins in the middle of a command
KeptAnywhere(n, limit) ==
    LET size == Len(buf)
        p == Least(EndsFrom(head))
        rest == SubSeq(buf, head + 1, p + 1)
        room == p + 1 + n
    IN IF EndsFrom(head) = {} THEN Bar
       ELSE IF size > room THEN rest \o SubSeq(buf, room + 1, size) ELSE rest

Kept(n, limit) ==
    LET size == Len(buf)
        p == Least(EndsFrom(head))
        rest == SubSeq(buf, head + 1, p + 1)
        room == p + 1 + n
        from == IF size > bufLen \div 2 /\ room < bufLen \div 2
                THEN bufLen \div 2 ELSE room
        ends == EndsFrom(from)
    IN IF EndsFrom(head) = {} THEN Bar
       ELSE IF n < limit /\ size > room /\ ends # {}
       THEN rest \o SubSeq(buf, Least(ends) + 2, size)
       ELSE rest

(***************************************************************************)
(* User::PutInSendBuf of the text t, as the buffer it leaves behind.       *)
(***************************************************************************)
Buffer(b, h, l) == [buf |-> b, head |-> h, len |-> l, error |-> FALSE]
Overflow == [buf |-> buf, head |-> head, len |-> bufLen, error |-> TRUE]

Full(n) == bufLen < Len(buf) + n
Wanted(n) == Allign(Len(buf) + n)
ShrinksNow == called >= CallLimit
Limited(n, limit) == bufLen # 0 /\ Wanted(n) > limit

\* mutant: compacts when the room is too small
CompactsAlways(n) == bufLen # 0 /\ head > 0
Compacts(n) == bufLen # 0 /\ head > n

Thins(n, limit, keep) == Full(n) /\ ~Compacts(n) /\ Limited(n, limit) /\ keep

PutInSendBuf(t, limit, keep) ==
    LET n == Len(t) IN
    IF ~Full(n)
    THEN Buffer(buf \o t, head, IF ShrinksNow /\ bufLen > Wanted(n)
                                THEN Wanted(n) - 1 ELSE bufLen)
    ELSE IF Compacts(n) THEN Buffer(Pending \o t, 0, bufLen)
    ELSE IF ~Limited(n, limit) THEN Buffer(buf \o t, head, Wanted(n) - 1)
    ELSE IF Thins(n, limit, keep)
    THEN LET kept == Kept(n, limit)
         IN Buffer(kept \o t, 0, Allign(n + Len(kept)) - 1)
    ELSE Overflow

CalledAfter(n) ==
    IF ~Full(n) /\ ShrinksNow THEN 0
    ELSE IF called > CallLimit THEN called ELSE called + 1

\* mutant: the search after an overflow starts where the buffer ended before
SearchFromSame(before, after) == before

\* The place behind which ProcessQueues looks for the user's own search.
SearchFrom(before, after) == IF after <= before THEN 0 ELSE before

\* User::RemFromSendBuf: strstr and memmove.
RemFromSendBuf(b, cmd, from) ==
    LET found == {i \in from .. Len(b) : /\ i + Len(cmd) <= Len(b)
                                         /\ SubSeq(b, i + 1, i + Len(cmd)) = cmd}
        i == Least(found)
    IN IF found = {} THEN b
       ELSE SubSeq(b, 1, i) \o SubSeq(b, i + Len(cmd) + 1, Len(b))

(***************************************************************************)
(* Actions.                                                                *)
(***************************************************************************)
Init ==
    /\ buf = << >> /\ head = 0 /\ bufLen = 0
    /\ called = 0
    /\ big = FALSE /\ error = FALSE /\ thinned = FALSE
    /\ last = Nothing
    /\ made = 0

\* mutant: the head stays where it was
BecomesKeepingHead(r, n) ==
    /\ head' = head /\ bufLen' = r.len
    /\ error' = r.error
    /\ called' = CalledAfter(n)

Becomes(r, n) ==
    /\ head' = r.head /\ bufLen' = r.len
    /\ error' = r.error
    /\ called' = CalledAfter(n)

\* SendChar and its siblings; listing: AddUserList, which allows a big buffer.
SendCommand(len, limit, keep, listing) ==
    LET r == PutInSendBuf(Command(made + 1, len), limit, keep) IN
    /\ ~error /\ made < MaxCommands
    /\ Becomes(r, len)
    /\ buf' = r.buf
    /\ big' = (big \/ listing)
    /\ thinned' = (thinned \/ Thins(len, limit, keep))
    /\ made' = made + 1
    /\ UNCHANGED last

\* ProcessQueues sends the searches of a loop, another user's of length len
\* and the user's own of length ownLen, and removes the own one, if
\* the user was not closed by an overflow. (A client with ZPIPE may instead be
\* sent the whole of them deflated, its own search included: nothing is cut out.)
SendSearches(len, ownLen, ownFirst, limit, keep) ==
    LET own == Command(Own, ownLen)
        other == Command(made + 1, len)
        r == PutInSendBuf(IF ownFirst THEN own \o other ELSE other \o own, limit, keep)
    IN
    /\ ~error /\ made < MaxCommands
    /\ Becomes(r, len + ownLen)
    /\ buf' = IF r.error THEN r.buf
              ELSE RemFromSendBuf(r.buf, own, SearchFrom(Len(buf), Len(r.buf)))
    /\ thinned' = (thinned \/ Thins(len + ownLen, limit, keep))
    /\ made' = made + 1
    /\ UNCHANGED <<big, last>>

\* Try2Send, of which the socket takes k bytes.
Sends(k) ==
    /\ ~error /\ buf # << >>
    /\ k <= Len(Pending) /\ k <= SendLimit
    /\ last' = buf[head + k]
    /\ UNCHANGED <<called, error, thinned, made>>

SendsPart(k) ==
    /\ Sends(k) /\ k < Len(Pending)
    /\ head' = head + k
    /\ UNCHANGED <<buf, bufLen, big>>

SendsAll(k) ==
    /\ Sends(k) /\ k = Len(Pending)
    /\ buf' = << >> /\ head' = 0
    /\ bufLen' = IF big \/ bufLen > SmallBuffer THEN 0 ELSE bufLen
    /\ big' = FALSE

SendFails ==
    /\ ~error /\ buf # << >>
    /\ error' = TRUE
    /\ UNCHANGED <<buf, head, bufLen, called, big, thinned, last, made>>

Next ==
    \/ \E len \in Lengths, limit \in Limits, keep \in KeepSlow :
        \/ \E listing \in BOOLEAN : SendCommand(len, limit, keep, listing)
        \/ \E ownLen \in Lengths, ownFirst \in BOOLEAN :
              SendSearches(len, ownLen, ownFirst, limit, keep)
    \/ \E k \in 1 .. Len(buf) : SendsPart(k) \/ SendsAll(k)
    \/ SendFails

Spec == Init /\ [][Next]_vars
-----------------------------------------------------------------------------
Cells == [cmd : Nat, pos : Nat, end : BOOLEAN]

TypeOK ==
    /\ buf \in Seq(Cells)
    /\ head \in Nat /\ bufLen \in Nat
    /\ called \in 0 .. CallLimit + 1
    /\ big \in BOOLEAN /\ error \in BOOLEAN
    /\ thinned \in BOOLEAN
    /\ last \in Cells
    /\ made \in 0 .. MaxCommands

\* PutInSendBuf never writes behind the end of what is allocated, whichever
\* way it made room, and Try2Send's "Negative send values" cannot happen.
InBounds ==
    /\ Len(buf) <= bufLen
    /\ head <= Len(buf)
    /\ buf # << >> => head < Len(buf)

Adjacent(P(_, _)) ==
    LET stream == <<last>> \o Pending
    IN \A i \in 1 .. Len(stream) - 1 : P(stream[i], stream[i + 1])

\* What a user receives are whole commands in the order they were put, also
\* when commands are thrown away to keep a slow user ("i don't want to corrupt
\* last command").
WholeCommands == Adjacent(LAMBDA a, b :
    IF a.end THEN b.pos = 1 /\ (a.cmd < b.cmd \/ b.cmd = Own)
    ELSE b.cmd = a.cmd /\ b.pos = a.pos + 1)

\* A user that was never kept at the price of its data loses nothing of what
\* was put.
NothingLost == ~thinned => Adjacent(LAMBDA a, b :
    IF a.end THEN b.pos = 1 /\ b.cmd = a.cmd + 1
    ELSE b.cmd = a.cmd /\ b.pos = a.pos + 1)

\* A user is not sent its own search, wherever compaction and growth have moved
\* it. (Thinning may leave it before the place the removal starts at.)
OwnSearchRemoved ==
    ~error /\ ~thinned => \A i \in 1 .. Len(buf) : buf[i].cmd # Own
============================================================================
