---------------------------- MODULE Sending_proof ----------------------------
(***************************************************************************)
(* Proofs about what is sent to members:                                   *)
(*   - SendBuffer, for any lengths, limits and thresholds: the buffer is   *)
(*     never written behind its end, and what the user receives are whole  *)
(*     commands in their order, all of them unless some are thrown away to *)
(*     keep a slow user, and never its own search;                         *)
(*   - Broadcast, for any connections, nicks, forms and bots: what every   *)
(*     member is told of who is online is exact.                           *)
(***************************************************************************)
EXTENDS SendBuffer, Broadcast, SequenceTheorems, WellFoundedInduction, TLAPS

(***************************************************************************)
(* The buffer of one user (SendBuffer).                                    *)
(***************************************************************************)

\* A nonempty set of naturals has a least element.
LEMMA LeastElement ==
    ASSUME NEW S, S \subseteq Nat, S # {}
    PROVE  Least(S) \in S /\ \A j \in S : Least(S) <= j
<1> DEFINE R == OpToRel(<, Nat)
<1>1. \E x \in S : \A y \in S : ~ (<<y, x>> \in R)
  <2>1. IsWellFoundedOn(R, Nat)
    BY NatLessThanWellFounded
  <2> HIDE DEF R
  <2> QED BY <2>1, WFMin
<1>2. PICK x \in S : \A y \in S : ~ (<<y, x>> \in R)
  BY <1>1
<1>3. \A y \in S : x <= y
  <2> SUFFICES ASSUME NEW y \in S PROVE x <= y
    OBVIOUS
  <2>1. ~ (y < x)
    BY <1>2 DEF OpToRel
  <2> QED BY <2>1
<1> QED BY <1>3 DEF Least

\* Allign makes room for the terminating 0.
LEMMA AllignGrows == ASSUME NEW n \in Nat PROVE Allign(n) \in Nat /\ n <= Allign(n) - 1
BY DEF Allign

\* A command is a sequence of cells of its length.
LEMMA CommandType ==
    ASSUME NEW cmd \in Nat, NEW len \in Nat
    PROVE  Command(cmd, len) \in Seq(Cells) /\ Len(Command(cmd, len)) = len
<1>1. Command(cmd, len) \in [1 .. len -> Cells]
  BY DEF Command, Cell, Cells
<1> QED BY <1>1

\* A part of the buffer.
LEMMA PartType ==
    ASSUME NEW b \in Seq(Cells), NEW i \in Nat \ {0}, NEW j \in Nat, j <= Len(b), i <= j + 1
    PROVE  SubSeq(b, i, j) \in Seq(Cells) /\ Len(SubSeq(b, i, j)) = j - i + 1
<1>1. \A k \in i .. j : b[k] \in Cells
  BY ElementOfSeq
<1> QED BY <1>1, SubSeqProperties

\* What is kept of a slow user's buffer is no more than there was, or one '|'.
LEMMA KeptType ==
    ASSUME TypeOK, InBounds, buf # << >>, NEW n \in Nat, NEW limit \in Nat
    PROVE  Kept(n, limit) \in Seq(Cells)
<1> DEFINE size == Len(buf)
           p == Least(EndsFrom(head))
           rest == SubSeq(buf, head + 1, p + 1)
           room == p + 1 + n
           from == IF size > bufLen \div 2 /\ room < bufLen \div 2
                   THEN bufLen \div 2 ELSE room
           ends == EndsFrom(from)
<1>1. size \in Nat /\ head \in Nat /\ head < size /\ bufLen \in Nat
  BY DEF TypeOK, InBounds
<1>2. CASE EndsFrom(head) = {}
  BY <1>2 DEF Kept, Bar, Cells
<1>3. CASE EndsFrom(head) # {}
  <2>1. EndsFrom(head) \subseteq Nat
    BY <1>1 DEF EndsFrom
  <2>2. p \in head .. size - 1
    BY <1>3, <2>1, LeastElement DEF EndsFrom
  <2> HIDE DEF p
  <2>3. rest \in Seq(Cells)
    BY <1>1, <2>2, PartType DEF TypeOK
  <2>4. room \in Nat /\ from \in Nat
    BY <1>1, <2>2
  <2>5. ends # {} => SubSeq(buf, Least(ends) + 2, size) \in Seq(Cells)
    <3> HIDE DEF from
    <3>1. ends \subseteq Nat
      BY <1>1, <2>4 DEF EndsFrom
    <3>2. ends # {} => Least(ends) \in from .. size - 1
      BY <3>1, LeastElement DEF EndsFrom
    <3> QED BY <1>1, <2>4, <3>2, PartType DEF TypeOK
  <2>6. Kept(n, limit) = IF n < limit /\ size > room /\ ends # {}
                         THEN rest \o SubSeq(buf, Least(ends) + 2, size)
                         ELSE rest
    BY <1>3 DEF Kept, p
  <2> HIDE DEF rest, room, ends
  <2> QED BY <2>3, <2>5, <2>6, ConcatProperties
<1> QED BY <1>2, <1>3

\* What PutInSendBuf leaves behind: r holds the text at its end, all of it fits
\* in what is allocated, and the head stands before the text.
Holds(r, t) ==
    /\ r.buf \in Seq(Cells) /\ r.head \in Nat /\ r.len \in Nat
    /\ r.error \in BOOLEAN
    /\ Len(r.buf) <= r.len
    /\ ~r.error => r.head + Len(t) <= Len(r.buf)
    /\ r.error => r = Overflow

\* PutInSendBuf keeps its promise on every way it takes.
LEMMA PutHolds ==
    ASSUME TypeOK, InBounds, NEW t \in Seq(Cells), t # << >>, NEW limit \in Nat,
           NEW keep \in BOOLEAN
    PROVE  Holds(PutInSendBuf(t, limit, keep), t)
<1>a. PICK n : n = Len(t)
  OBVIOUS
<1>b. PICK r : r = PutInSendBuf(t, limit, keep)
  OBVIOUS
<1> SUFFICES Holds(r, t)
  BY <1>b
<1>1. /\ n \in Nat /\ n > 0 /\ Len(buf) \in Nat /\ head \in Nat /\ bufLen \in Nat
      /\ head <= Len(buf) /\ Len(buf) <= bufLen /\ buf \in Seq(Cells)
  BY <1>a, EmptySeq, LenProperties DEF TypeOK, InBounds
<1>c. Len(buf) + n \in Nat
  BY <1>1
<1>2. /\ Wanted(n) \in Nat /\ Len(buf) + n <= Wanted(n) - 1
  BY <1>c, AllignGrows DEF Wanted
<1>3. PICK b \in Seq(Cells) : b = buf \o t /\ Len(b) = Len(buf) + n
  BY <1>1, <1>a, ConcatProperties
<1>4. ASSUME NEW c \in Seq(Cells), NEW h \in Nat, NEW l \in Nat,
             r = Buffer(c, h, l), Len(c) <= l, h + n <= Len(c)
      PROVE  Holds(r, t)
  BY <1>4, <1>a DEF Holds, Buffer
<1>5. CASE ~Full(n)
  <2>1. PICK l \in Nat : l = IF ShrinksNow /\ bufLen > Wanted(n) THEN Wanted(n) - 1 ELSE bufLen
    BY <1>1, <1>2
  <2>2. r = Buffer(b, head, l)
    BY <1>3, <1>5, <1>a, <1>b, <2>1 DEF PutInSendBuf
  <2>3. Len(b) <= l /\ head + n <= Len(b)
    BY <1>1, <1>2, <1>3, <1>5, <2>1 DEF Full
  <2> QED BY <1>1, <1>4, <2>2, <2>3
<1>6. CASE Full(n) /\ Compacts(n)
  <2>1. Pending \in Seq(Cells) /\ Len(Pending) = Len(buf) - head
    BY <1>1, PartType DEF Pending
  <2>2. PICK c \in Seq(Cells) : c = Pending \o t /\ Len(c) = Len(buf) - head + n
    <3>1. Pending \o t \in Seq(Cells) /\ Len(Pending \o t) = Len(Pending) + Len(t)
      BY <2>1, ConcatProperties
    <3> QED BY <1>a, <2>1, <3>1
  <2>3. r = Buffer(c, 0, bufLen)
    BY <1>6, <1>a, <1>b, <2>2 DEF PutInSendBuf
  <2>4. Len(c) <= bufLen /\ 0 + n <= Len(c)
    BY <1>1, <1>6, <2>2 DEF Compacts
  <2> QED BY <1>1, <1>4, <2>3, <2>4
<1>7. CASE Full(n) /\ ~Compacts(n) /\ ~Limited(n, limit)
  <2>1. r = Buffer(b, head, Wanted(n) - 1)
    BY <1>3, <1>7, <1>a, <1>b DEF PutInSendBuf
  <2>2. Wanted(n) - 1 \in Nat /\ Len(b) <= Wanted(n) - 1 /\ head + n <= Len(b)
    BY <1>1, <1>2, <1>3
  <2> QED BY <1>1, <1>4, <2>1, <2>2
<1>8. CASE Full(n) /\ ~Compacts(n) /\ Limited(n, limit) /\ keep
  <2>1. PICK k \in Seq(Cells) : k = Kept(n, limit)
    <3>1. Kept(n, limit) \in Seq(Cells)
      <4>1. CASE buf = << >>
        <5>1. EndsFrom(head) = {}
          BY <1>1, <4>1 DEF EndsFrom
        <5> QED BY <5>1 DEF Kept, Bar, Cells
      <4>2. CASE buf # << >>
        BY <1>1, <4>2, KeptType
      <4> QED BY <4>1, <4>2
    <3> QED BY <3>1
  <2>2. PICK c \in Seq(Cells) : c = k \o t /\ Len(c) = Len(k) + n /\ Len(k) \in Nat
    <3>1. k \o t \in Seq(Cells) /\ Len(k \o t) = Len(k) + Len(t) /\ Len(k) \in Nat
      BY <2>1, ConcatProperties, LenProperties
    <3> QED BY <1>a, <3>1
  <2>3. r = Buffer(c, 0, Allign(n + Len(k)) - 1)
    BY <1>8, <1>a, <1>b, <2>1, <2>2 DEF PutInSendBuf, Thins
  <2>4. n + Len(k) \in Nat
    BY <1>1, <2>2
  <2>5. Allign(n + Len(k)) \in Nat /\ n + Len(k) <= Allign(n + Len(k)) - 1
    BY <2>4, AllignGrows
  <2>6. Allign(n + Len(k)) - 1 \in Nat /\ Len(c) <= Allign(n + Len(k)) - 1 /\ 0 + n <= Len(c)
    BY <1>1, <2>2, <2>5
  <2> QED BY <1>4, <2>3, <2>6
<1>9. CASE Full(n) /\ ~Compacts(n) /\ Limited(n, limit) /\ ~keep
  <2>1. r = Overflow
    BY <1>9, <1>a, <1>b DEF PutInSendBuf, Thins
  <2> QED BY <1>1, <2>1 DEF Holds, Overflow
<1> QED BY <1>5, <1>6, <1>7, <1>8, <1>9

\* The counter of calls stays in its range.
LEMMA CalledType ==
    ASSUME TypeOK, NEW n \in Nat
    PROVE  CalledAfter(n) \in 0 .. CallLimit + 1
BY LimitsAssumption DEF TypeOK, CalledAfter

\* RemFromSendBuf cuts the search out, or leaves the buffer as it is.
LEMMA RemoveHolds ==
    ASSUME NEW b \in Seq(Cells), NEW cmd \in Seq(Cells), NEW from \in Nat
    PROVE  /\ RemFromSendBuf(b, cmd, from) \in Seq(Cells)
           /\ Len(RemFromSendBuf(b, cmd, from)) \in {Len(b), Len(b) - Len(cmd)}
<1> DEFINE found == {i \in from .. Len(b) : /\ i + Len(cmd) <= Len(b)
                                            /\ SubSeq(b, i + 1, i + Len(cmd)) = cmd}
<1>1. Len(b) \in Nat /\ Len(cmd) \in Nat
  BY LenProperties
<1>2. CASE found = {}
  BY <1>2 DEF RemFromSendBuf
<1>3. CASE found # {}
  <2>1. found \subseteq Nat
    BY <1>1
  <2>2. Least(found) \in found
    BY <1>3, <2>1, LeastElement
  <2>3. PICK i \in Nat : i = Least(found) /\ i + Len(cmd) <= Len(b)
    BY <2>1, <2>2
  <2>4. RemFromSendBuf(b, cmd, from) = SubSeq(b, 1, i) \o SubSeq(b, i + Len(cmd) + 1, Len(b))
    BY <1>3, <2>3 DEF RemFromSendBuf
  <2>5. PICK x \in Seq(Cells) : x = SubSeq(b, 1, i) /\ Len(x) = i
    <3>1. SubSeq(b, 1, i) \in Seq(Cells) /\ Len(SubSeq(b, 1, i)) = i - 1 + 1
      <4>1. i <= Len(b) /\ 1 <= i + 1 /\ 1 \in Nat \ {0}
        BY <1>1, <2>3
      <4> QED BY <2>3, <4>1, PartType
    <3>2. i - 1 + 1 = i
      BY <2>3
    <3> QED BY <3>1, <3>2
  <2>6. PICK j \in Nat \ {0} : j = i + Len(cmd) + 1 /\ j <= Len(b) + 1
    <3>1. i + Len(cmd) + 1 \in Nat \ {0} /\ i + Len(cmd) + 1 <= Len(b) + 1
      BY <1>1, <2>3
    <3> QED BY <3>1
  <2>7. PICK y \in Seq(Cells) : y = SubSeq(b, j, Len(b)) /\ Len(y) = Len(b) - j + 1
    <3>1. SubSeq(b, j, Len(b)) \in Seq(Cells) /\ Len(SubSeq(b, j, Len(b))) = Len(b) - j + 1
      BY <1>1, <2>6, PartType
    <3> QED BY <3>1
  <2>8. x \o y \in Seq(Cells) /\ Len(x \o y) = i + (Len(b) - j + 1)
    <3>1. x \o y \in Seq(Cells) /\ Len(x \o y) = Len(x) + Len(y)
      BY ConcatProperties
    <3> QED BY <2>5, <2>7, <3>1
  <2>9. i + (Len(b) - j + 1) = Len(b) - Len(cmd)
    BY <1>1, <2>3, <2>6, SMTT(60)
  <2>10. PICK c : c = x \o y
    OBVIOUS
  <2>11. c \in Seq(Cells) /\ Len(c) = Len(b) - Len(cmd)
    BY <2>8, <2>9, <2>10
  <2>12. SubSeq(b, i + Len(cmd) + 1, Len(b)) = y
    BY <2>6, <2>7, Zenon
  <2>13. RemFromSendBuf(b, cmd, from) = c
    BY <2>4, <2>5, <2>10, <2>12, Zenon
  <2> QED BY <2>11, <2>13, Zenon
<1> QED BY <1>2, <1>3

\* A command is put.
LEMMA SendCommandStep ==
    ASSUME TypeOK, InBounds, NEW len \in Lengths, NEW limit \in Limits,
           NEW keep \in KeepSlow, NEW listing \in BOOLEAN,
           SendCommand(len, limit, keep, listing)
    PROVE  TypeOK' /\ InBounds'
<1>1. /\ len \in Nat /\ len > 0 /\ limit \in Nat /\ made + 1 \in 0 .. MaxCommands
      /\ made + 1 \in Nat
  BY LengthsAssumption, LimitsAssumption DEF SendCommand, TypeOK
<1>2. PICK t \in Seq(Cells) : t = Command(made + 1, len) /\ Len(t) = len
  BY <1>1, CommandType
<1>3. t # << >>
  BY <1>1, <1>2
<1>4. PICK r : r = PutInSendBuf(t, limit, keep) /\ Holds(r, t)
  BY <1>1, <1>3, PutHolds, SwitchesAssumption
<1>5. /\ buf' = r.buf /\ head' = r.head /\ bufLen' = r.len /\ error' = r.error
      /\ called' = CalledAfter(len) /\ big' = (big \/ listing) /\ made' = made + 1
      /\ thinned' = (thinned \/ Thins(len, limit, keep))
      /\ UNCHANGED last
  BY <1>2, <1>4 DEF SendCommand, Becomes
<1>6. TypeOK'
  <2>1. thinned' \in BOOLEAN
    BY <1>5
  <2> QED BY <1>1, <1>4, <1>5, <2>1, CalledType DEF TypeOK, Holds
<1>7. InBounds'
  <2>1. CASE r.error
    BY <1>4, <1>5, <2>1 DEF Holds, Overflow, InBounds
  <2>2. CASE ~r.error
    <3>1. r.buf \in Seq(Cells) /\ r.head \in Nat /\ Len(r.buf) <= r.len /\ r.head + len <= Len(r.buf)
      BY <1>2, <1>4, <2>2 DEF Holds
    <3>2. Len(r.buf) \in Nat /\ r.head < Len(r.buf)
      BY <1>1, <3>1, LenProperties
    <3> QED BY <1>5, <3>1, <3>2 DEF InBounds
  <2> QED BY <2>1, <2>2
<1> QED BY <1>6, <1>7

\* The searches of a loop are put and the user's own one is cut out again.
LEMMA SendSearchesStep ==
    ASSUME TypeOK, InBounds, NEW len \in Lengths, NEW ownLen \in Lengths,
           NEW limit \in Limits, NEW keep \in KeepSlow, NEW ownFirst \in BOOLEAN,
           SendSearches(len, ownLen, ownFirst, limit, keep)
    PROVE  TypeOK' /\ InBounds'
<1>1. /\ len \in Nat /\ len > 0 /\ ownLen \in Nat /\ ownLen > 0 /\ limit \in Nat
      /\ made + 1 \in 0 .. MaxCommands /\ made + 1 \in Nat /\ Own \in Nat
      /\ len + ownLen \in Nat
  BY LengthsAssumption, LimitsAssumption DEF SendSearches, TypeOK, Own
<1>2. PICK own \in Seq(Cells) : own = Command(Own, ownLen) /\ Len(own) = ownLen
  BY <1>1, CommandType
<1>3. PICK other \in Seq(Cells) : other = Command(made + 1, len) /\ Len(other) = len
  BY <1>1, CommandType
<1>4. /\ own \o other \in Seq(Cells) /\ Len(own \o other) = ownLen + len
      /\ other \o own \in Seq(Cells) /\ Len(other \o own) = len + ownLen
  BY <1>2, <1>3, ConcatProperties
<1>5. PICK t \in Seq(Cells) : /\ t = IF ownFirst THEN own \o other ELSE other \o own
                              /\ Len(t) = len + ownLen
  <2>1. CASE ownFirst
    <3>1. Len(own \o other) = len + ownLen
      BY <1>1, <1>4
    <3> QED BY <1>4, <2>1, <3>1
  <2>2. CASE ~ownFirst
    BY <1>4, <2>2
  <2> QED BY <2>1, <2>2
<1>6. t # << >>
  BY <1>1, <1>5
<1>7. PICK r : r = PutInSendBuf(t, limit, keep) /\ Holds(r, t)
  BY <1>1, <1>6, PutHolds, SwitchesAssumption
<1>8. /\ buf' = IF r.error THEN r.buf
               ELSE RemFromSendBuf(r.buf, own, SearchFrom(Len(buf), Len(r.buf)))
      /\ head' = r.head /\ bufLen' = r.len /\ error' = r.error
      /\ called' = CalledAfter(len + ownLen)
      /\ thinned' = (thinned \/ Thins(len + ownLen, limit, keep))
      /\ made' = made + 1
      /\ UNCHANGED <<big, last>>
  BY <1>2, <1>3, <1>5, <1>7 DEF SendSearches, Becomes
<1>9. r.buf \in Seq(Cells) /\ r.head \in Nat /\ r.len \in Nat /\ r.error \in BOOLEAN /\ Len(r.buf) <= r.len
  BY <1>7 DEF Holds
<1>10. SearchFrom(Len(buf), Len(r.buf)) \in Nat
  BY <1>9, LenProperties DEF TypeOK, SearchFrom
<1>11. buf' \in Seq(Cells) /\ Len(buf') \in {Len(r.buf), Len(r.buf) - ownLen}
  BY <1>2, <1>8, <1>9, <1>10, RemoveHolds
<1>12. TypeOK'
  <2>1. thinned' \in BOOLEAN
    BY <1>8
  <2>2. called' = CalledAfter(len + ownLen) /\ UNCHANGED <<big, last>>
    BY <1>8
  <2>3. buf' \in Seq(Cells) /\ head' \in Nat /\ bufLen' \in Nat /\ error' \in BOOLEAN
    BY <1>8, <1>9, <1>11
  <2>4. made' \in 0 .. MaxCommands
    BY <1>1, <1>8
  <2> QED BY <1>1, <2>1, <2>2, <2>3, <2>4, CalledType, SwitchesAssumption DEF TypeOK
<1>13. InBounds'
  <2>1. CASE r.error
    BY <1>7, <1>8, <2>1 DEF Holds, Overflow, InBounds
  <2>2. CASE ~r.error
    <3>1. r.head + len + ownLen <= Len(r.buf) /\ Len(r.buf) \in Nat
      BY <1>1, <1>5, <1>7, <1>9, <2>2, LenProperties DEF Holds
    <3>2. Len(buf') <= r.len /\ r.head < Len(buf')
      BY <1>1, <1>9, <1>11, <3>1, SMTT(60)
    <3> QED BY <1>8, <1>9, <3>2 DEF InBounds
  <2> QED BY <2>1, <2>2
<1> QED BY <1>12, <1>13

\* Try2Send hands the socket no more than there is.
LEMMA TrySendStep ==
    ASSUME TypeOK, InBounds, NEW k \in 1 .. Len(buf), SendsPart(k) \/ SendsAll(k)
    PROVE  TypeOK' /\ InBounds'
<1>1. /\ buf \in Seq(Cells) /\ Len(buf) \in Nat /\ head \in Nat /\ bufLen \in Nat
      /\ head < Len(buf) /\ k \in Nat \ {0}
  BY LenProperties DEF TypeOK, InBounds, SendsPart, SendsAll, Sends
<1>2. Len(Pending) = Len(buf) - head
  BY <1>1, PartType DEF Pending
<1>3. last' \in Cells
  <2>1. last' = buf[head + k] /\ k <= Len(Pending)
    BY DEF SendsPart, SendsAll, Sends
  <2>2. head + k \in 1 .. Len(buf)
    BY <1>1, <1>2, <2>1
  <2> QED BY <1>1, <2>1, <2>2, ElementOfSeq
<1>4. CASE SendsPart(k)
  <2>1. head' = head + k /\ k < Len(buf) - head /\ UNCHANGED <<buf, bufLen, big>>
    BY <1>2, <1>4 DEF SendsPart
  <2>2. UNCHANGED <<called, error, thinned, made>>
    BY <1>4 DEF SendsPart, Sends
  <2>3. head + k \in Nat /\ head + k < Len(buf)
    BY <1>1, <2>1
  <2> QED BY <1>1, <1>3, <2>1, <2>2, <2>3 DEF TypeOK, InBounds
<1>5. CASE SendsAll(k)
  <2>1. buf' = << >> /\ head' = 0 /\ bufLen' \in {0, bufLen} /\ big' = FALSE
    BY <1>5 DEF SendsAll
  <2>2. UNCHANGED <<called, error, thinned, made>>
    BY <1>5 DEF SendsAll, Sends
  <2>3. << >> \in Seq(Cells) /\ Len(<< >>) = 0
    BY EmptySeq
  <2>4. buf' \in Seq(Cells) /\ head' \in Nat /\ bufLen' \in Nat /\ big' \in BOOLEAN
    <3>1. buf' \in Seq(Cells)
      BY <2>1, <2>3
    <3>2. bufLen' \in Nat
      BY <1>1, <2>1
    <3>3. head' \in Nat /\ big' \in BOOLEAN
      BY <2>1
    <3> QED BY <3>1, <3>2, <3>3
  <2>a. TypeOK'
    BY <1>3, <2>2, <2>4 DEF TypeOK
  <2>5. InBounds'
    BY <1>1, <2>1, <2>3 DEF InBounds
  <2> QED BY <2>a, <2>5
<1> QED BY <1>4, <1>5

\* A user has no buffer at first.
LEMMA BufferStarts == Init => TypeOK /\ InBounds
<1>1. << >> \in Seq(Cells) /\ Len(<< >>) = 0 /\ Nothing \in Cells
  BY EmptySeq DEF Nothing, Cells
<1>2. Init => TypeOK
  <2>1. 0 \in 0 .. CallLimit + 1 /\ 0 \in 0 .. MaxCommands
    BY LimitsAssumption
  <2>2. Init => buf \in Seq(Cells)
    BY <1>1 DEF Init
  <2>3. Init => /\ head = 0 /\ bufLen = 0 /\ called = 0 /\ made = 0 /\ last = Nothing
                /\ big = FALSE /\ error = FALSE /\ thinned = FALSE
    BY DEF Init
  <2>4. 0 \in Nat
    OBVIOUS
  <2> QED BY <1>1, <2>1, <2>2, <2>3, <2>4 DEF TypeOK
<1>3. Init => InBounds
  BY <1>1 DEF Init, InBounds
<1> QED BY <1>2, <1>3

LEMMA BufferStep == TypeOK /\ InBounds /\ [Next]_vars => TypeOK' /\ InBounds'
<1> SUFFICES ASSUME TypeOK, InBounds, [Next]_vars PROVE TypeOK' /\ InBounds'
  OBVIOUS
<1>1. CASE SendFails
  BY <1>1 DEF SendFails, TypeOK, InBounds
<1>2. CASE UNCHANGED vars
  BY <1>2 DEF vars, TypeOK, InBounds
<1> QED BY <1>1, <1>2, SendCommandStep, SendSearchesStep, TrySendStep DEF Next

\* m_ui32SendBufDataLen never exceeds what is allocated and the head never
\* passes it, so that neither PutInSendBuf's copies nor Try2Send go astray.
THEOREM BufferInBounds == Spec => [](TypeOK /\ InBounds)
BY BufferStarts, BufferStep, PTL DEF Spec

-----------------------------------------------------------------------------
(***************************************************************************)
(* The stream: what the user received last, and what still lies behind the *)
(* head.  Its cells are those at the places from the head on, with the     *)
(* cell sent last in the place of the head.                                *)
(***************************************************************************)
CellAt(l, b, h, i) == IF i = h THEN l ELSE b[i]

Continues(x, y) == IF x.end THEN y.pos = 1 ELSE y.cmd = x.cmd /\ y.pos = x.pos + 1
Later(x, y) == x.end => y.cmd = Own \/ x.cmd < y.cmd

\* The stream consists of whole commands, in the order they were put, of which
\* m is the newest.  Order is stated of any two commands, since those between
\* them may be thrown away.
Whole(l, b, h, m) ==
    /\ \A i \in h .. Len(b) :
          /\ CellAt(l, b, h, i).cmd <= m
          /\ CellAt(l, b, h, i).pos = 0 => CellAt(l, b, h, i).end
    /\ \A i \in h .. Len(b) - 1 : Continues(CellAt(l, b, h, i), CellAt(l, b, h, i + 1))
    /\ \A i, j \in h .. Len(b) : i < j => Later(CellAt(l, b, h, i), CellAt(l, b, h, j))
    /\ CellAt(l, b, h, Len(b)).end

\* No own search is there and no command is missing.
Gapless(l, b, h) ==
    /\ \A i \in 1 .. Len(b) : b[i].cmd # Own
    /\ \A i \in h .. Len(b) - 1 : CellAt(l, b, h, i).end =>
          CellAt(l, b, h, i + 1).cmd = CellAt(l, b, h, i).cmd + 1

StreamWhole == Whole(last, buf, head, made)

AllThere ==
    ~thinned =>
        /\ Gapless(last, buf, head)
        /\ ~error => CellAt(last, buf, head, Len(buf)).cmd = made

StreamInv == TypeOK /\ InBounds /\ StreamWhole /\ AllThere

\* What is put: commands that are the next one or the user's own search.
Text(t, m) ==
    /\ t \in Seq(Cells) /\ Len(t) \in Nat /\ Len(t) > 0
    /\ t[1].pos = 1 /\ t[Len(t)].end
    /\ \A i \in 1 .. Len(t) :
          t[i] \in Cells /\ t[i].cmd \in {Own, m + 1} /\ t[i].pos # 0
    /\ \A i \in 1 .. Len(t) - 1 : Continues(t[i], t[i + 1])
    /\ \A i, j \in 1 .. Len(t) : i < j => Later(t[i], t[j])

LEMMA CellType ==
    ASSUME NEW l \in Cells, NEW b \in Seq(Cells), NEW h \in Nat, NEW i \in h .. Len(b)
    PROVE  CellAt(l, b, h, i) \in Cells
<1>1. i # h => i \in 1 .. Len(b)
  BY LenProperties
<1> QED BY <1>1, ElementOfSeq DEF CellAt

\* f finds the cells of one stream in another, in their order, and skips only
\* from the end of a command to the beginning of another.
Selects(f, k, c, g, l, b, h) ==
    /\ f \in [g .. Len(c) -> h .. Len(b)]
    /\ \A i \in g .. Len(c) : CellAt(k, c, g, i) = CellAt(l, b, h, f[i])
    /\ \A i \in g .. Len(c) - 1 :
          \/ f[i + 1] = f[i] + 1
          \/ CellAt(l, b, h, f[i]).end /\ CellAt(l, b, h, f[i + 1]).pos = 1
    /\ \A i, j \in g .. Len(c) : i < j => f[i] < f[j]
    /\ CellAt(l, b, h, f[Len(c)]).end

\* What is so found of a stream of whole commands are whole commands.
LEMMA PartWhole ==
    ASSUME NEW l \in Cells, NEW b \in Seq(Cells), NEW h \in Nat,
           NEW m \in Nat, Whole(l, b, h, m), NEW n \in Nat, m <= n,
           NEW k, NEW c \in Seq(Cells), NEW g \in Nat, g <= Len(c),
           NEW f, Selects(f, k, c, g, l, b, h)
    PROVE  Whole(k, c, g, n)
<1>1. Len(b) \in Nat /\ Len(c) \in Nat
  BY LenProperties
<1> USE DEF Selects
<1>2. ASSUME NEW i \in g .. Len(c)
      PROVE  /\ CellAt(k, c, g, i).cmd <= n
             /\ CellAt(k, c, g, i).pos = 0 => CellAt(k, c, g, i).end
  <2>1. f[i] \in h .. Len(b) /\ CellAt(k, c, g, i) = CellAt(l, b, h, f[i])
    OBVIOUS
  <2>2. CellAt(l, b, h, f[i]).cmd \in Nat
    BY <2>1, CellType DEF Cells
  <2> QED BY <2>1, <2>2 DEF Whole
<1>3. ASSUME NEW i \in g .. Len(c) - 1
      PROVE  Continues(CellAt(k, c, g, i), CellAt(k, c, g, i + 1))
  <2>1. i \in g .. Len(c) /\ i + 1 \in g .. Len(c)
    BY <1>1
  <2>2. /\ CellAt(k, c, g, i) = CellAt(l, b, h, f[i])
        /\ CellAt(k, c, g, i + 1) = CellAt(l, b, h, f[i + 1])
        /\ f[i] \in h .. Len(b) /\ f[i + 1] \in h .. Len(b)
    BY <2>1
  <2>3. CASE f[i + 1] = f[i] + 1
    <3>1. f[i] \in h .. Len(b) - 1
      BY <1>1, <2>2, <2>3
    <3> QED BY <2>2, <2>3, <3>1 DEF Whole
  <2>4. CASE CellAt(l, b, h, f[i]).end /\ CellAt(l, b, h, f[i + 1]).pos = 1
    BY <2>2, <2>4 DEF Continues
  <2> QED BY <2>3, <2>4
<1>4. ASSUME NEW i \in g .. Len(c), NEW j \in g .. Len(c), i < j
      PROVE  Later(CellAt(k, c, g, i), CellAt(k, c, g, j))
  <2>1. /\ CellAt(k, c, g, i) = CellAt(l, b, h, f[i])
        /\ CellAt(k, c, g, j) = CellAt(l, b, h, f[j])
        /\ f[i] \in h .. Len(b) /\ f[j] \in h .. Len(b) /\ f[i] < f[j]
    BY <1>4
  <2> QED BY <2>1 DEF Whole
<1>5. CellAt(k, c, g, Len(c)).end
  BY <1>1
<1> QED BY <1>2, <1>3, <1>4, <1>5 DEF Whole

\* A text that is put behind a whole stream.
LEMMA AppendWhole ==
    ASSUME NEW l \in Cells, NEW b \in Seq(Cells), NEW h \in Nat, h <= Len(b),
           NEW m \in Nat, Whole(l, b, h, m), NEW t, Text(t, m),
           NEW c \in Seq(Cells), Len(c) = Len(b) + Len(t),
           \A i \in 1 .. Len(b) : c[i] = b[i],
           \A i \in 1 .. Len(t) : c[Len(b) + i] = t[i]
    PROVE  Whole(l, c, h, m + 1)
<1> DEFINE S(i) == CellAt(l, b, h, i)
           R(i) == CellAt(l, c, h, i)
           L == Len(b)
<1>1. L \in Nat /\ Len(t) \in Nat /\ Len(t) > 0 /\ Len(c) = L + Len(t) /\ h <= L
  BY LenProperties DEF Text
<1>2. \A i \in h .. L : R(i) = S(i) /\ S(i) \in Cells
  <2> SUFFICES ASSUME NEW i \in h .. L PROVE R(i) = S(i) /\ S(i) \in Cells
    OBVIOUS
  <2>1. i # h => i \in 1 .. L
    BY <1>1
  <2> QED BY <2>1, CellType DEF CellAt
<1>3. \A i \in 1 .. Len(t) : R(L + i) = t[i] /\ t[i] \in Cells
  <2> SUFFICES ASSUME NEW i \in 1 .. Len(t) PROVE R(L + i) = t[i] /\ t[i] \in Cells
    OBVIOUS
  <2>1. L + i # h
    BY <1>1
  <2> QED BY <2>1 DEF CellAt, Text
<1>4. \A i \in h .. Len(c) : i <= L \/ \E j \in 1 .. Len(t) : i = L + j
  <2> SUFFICES ASSUME NEW i \in h .. Len(c), i > L
               PROVE  \E j \in 1 .. Len(t) : i = L + j
    BY <1>1
  <2>1. i - L \in 1 .. Len(t) /\ i = L + (i - L)
    BY <1>1
  <2> QED BY <2>1
<1>s. /\ \A i \in h .. L : S(i).cmd <= m /\ (S(i).pos = 0 => S(i).end)
      /\ \A i \in h .. L - 1 : Continues(S(i), S(i + 1))
      /\ \A i, j \in h .. L : i < j => Later(S(i), S(j))
      /\ S(L).end
  BY DEF Whole
<1>t. /\ t[1].pos = 1 /\ t[Len(t)].end
      /\ \A i \in 1 .. Len(t) : t[i].cmd \in {Own, m + 1} /\ t[i].pos # 0
      /\ \A i \in 1 .. Len(t) - 1 : Continues(t[i], t[i + 1])
      /\ \A i, j \in 1 .. Len(t) : i < j => Later(t[i], t[j])
  BY DEF Text
<1> HIDE DEF S, R, L
<1>5. ASSUME NEW i \in h .. Len(c)
      PROVE  R(i).cmd <= m + 1 /\ (R(i).pos = 0 => R(i).end)
  <2>1. CASE i <= L
    <3>1. i \in h .. L
      BY <1>1, <2>1
    <3>2. R(i) \in Cells /\ R(i).cmd <= m /\ (R(i).pos = 0 => R(i).end)
      BY <1>2, <1>s, <3>1
    <3>3. R(i).cmd \in Nat
      BY <3>2 DEF Cells
    <3> QED BY <3>2, <3>3
  <2>2. ASSUME NEW j \in 1 .. Len(t), i = L + j
        PROVE  R(i).cmd <= m + 1 /\ (R(i).pos = 0 => R(i).end)
    <3>1. R(i) = t[j] /\ t[j].pos # 0
      BY <1>3, <1>t, <2>2
    <3>2. t[j].cmd = 0 \/ t[j].cmd = m + 1
      BY <1>t DEF Own
    <3>3. t[j].cmd <= m + 1
      BY <3>2
    <3> QED BY <3>1, <3>3
  <2> QED BY <1>4, <2>1, <2>2
<1>6. ASSUME NEW i \in h .. Len(c) - 1
      PROVE  Continues(R(i), R(i + 1))
  <2>1. CASE i < L
    <3>1. i \in h .. L /\ i + 1 \in h .. L /\ i \in h .. L - 1
      BY <1>1, <2>1
    <3> QED BY <1>2, <1>s, <3>1
  <2>2. CASE i = L
    <3>1. i \in h .. L /\ 1 \in 1 .. Len(t)
      BY <1>1, <2>2
    <3>2. R(i).end /\ R(i + 1).pos = 1
      BY <1>2, <1>3, <1>s, <1>t, <2>2, <3>1
    <3> QED BY <3>2 DEF Continues
  <2>3. ASSUME NEW j \in 1 .. Len(t), i = L + j
        PROVE  Continues(R(i), R(i + 1))
    <3>1. j \in 1 .. Len(t) - 1 /\ j + 1 \in 1 .. Len(t) /\ i + 1 = L + (j + 1)
      BY <1>1, <2>3
    <3> QED BY <1>3, <1>t, <2>3, <3>1
  <2>4. i \in h .. Len(c)
    BY <1>1
  <2>5. i < L \/ i = L \/ i > L
    BY <1>1
  <2>6. CASE i > L
    <3>1. ~(i <= L)
      BY <1>1, <2>6
    <3>2. PICK j \in 1 .. Len(t) : i = L + j
      BY <1>4, <2>4, <3>1, ZenonT(30)
    <3> QED BY <2>3, <3>2
  <2> QED BY <2>1, <2>2, <2>5, <2>6
<1>7. ASSUME NEW i \in h .. Len(c), NEW j \in h .. Len(c), i < j
      PROVE  Later(R(i), R(j))
  <2>1. CASE j <= L
    <3>1. i \in h .. L /\ j \in h .. L
      BY <1>1, <1>7, <2>1
    <3> QED BY <1>2, <1>7, <1>s, <3>1
  <2>2. ASSUME NEW v \in 1 .. Len(t), j = L + v
        PROVE  Later(R(i), R(j))
    <3>1. R(j) = t[v] /\ t[v].cmd \in {Own, m + 1}
      BY <1>3, <1>t, <2>2
    <3>2. CASE i <= L
      <4>1. i \in h .. L
        BY <1>1, <3>2
      <4>2. R(i).cmd <= m /\ R(i).cmd \in Nat
        BY <1>2, <1>s, <4>1 DEF Cells
      <4> QED BY <3>1, <4>2 DEF Later
    <3>3. ASSUME NEW u \in 1 .. Len(t), i = L + u
          PROVE  Later(R(i), R(j))
      <4>1. u < v
        BY <1>1, <1>7, <2>2, <3>3
      <4> QED BY <1>3, <1>t, <2>2, <3>3, <4>1
    <3> QED BY <1>4, <3>2, <3>3
  <2> QED BY <1>4, <2>1, <2>2
<1>8. R(Len(c)).end
  <2>1. Len(t) \in 1 .. Len(t)
    BY <1>1
  <2> QED BY <1>1, <1>3, <1>t, <2>1
<1> QED BY <1>5, <1>6, <1>7, <1>8 DEF Whole, R

\* The cells of a command.
IsCommand(t, cmd, len) ==
    /\ t \in Seq(Cells) /\ Len(t) = len
    /\ \A i \in 1 .. len : /\ t[i].cmd = cmd /\ t[i].pos = i
                           /\ t[i].end => i = len
                           /\ i = len => t[i].end
                           /\ t[i] \in Cells

LEMMA CommandCells ==
    ASSUME NEW cmd \in Nat, NEW len \in Nat
    PROVE  IsCommand(Command(cmd, len), cmd, len)
<1> DEFINE t == Command(cmd, len)
<1>2. t \in Seq(Cells) /\ Len(t) = len
  BY CommandType
<1>3. \A i \in 1 .. len : t[i] = [cmd |-> cmd, pos |-> i, end |-> i = len]
  BY DEF Command, Cell
<1>4. ASSUME NEW i \in 1 .. len
      PROVE  /\ t[i].cmd = cmd /\ t[i].pos = i
             /\ t[i].end => i = len
             /\ i = len => t[i].end
             /\ t[i] \in Cells
  <2>1. i \in Nat /\ (i = len) \in BOOLEAN
    OBVIOUS
  <2>2. t[i] = [cmd |-> cmd, pos |-> i, end |-> i = len]
    BY <1>3
  <2>3. t[i].cmd = cmd /\ t[i].pos = i /\ (t[i].end <=> i = len)
    <3>1. t[i].cmd = cmd /\ t[i].pos = i
      BY <2>2
    <3>2. ASSUME NEW e, NEW c, NEW p
          PROVE  [cmd |-> c, pos |-> p, end |-> e].end = e
      OBVIOUS
    <3>3. t[i].end = (i = len)
      <4>1. [cmd |-> cmd, pos |-> i, end |-> i = len].end = (i = len)
        BY <3>2, Zenon
      <4> QED BY <2>2, <4>1, Zenon
    <3> QED BY <3>1, <3>3, Zenon
  <2>4. t[i] \in Cells
    BY <2>1, <2>2 DEF Cells
  <2> QED BY <2>3, <2>4
<1> HIDE DEF t
<1>5. IsCommand(t, cmd, len)
  BY <1>2, <1>4 DEF IsCommand
<1> QED BY <1>5 DEF t

\* What a user receives of a command that is put whole.
LEMMA CommandText ==
    ASSUME NEW m \in Nat, NEW cmd \in {Own, m + 1}, NEW len \in Nat, len > 0
    PROVE  Text(Command(cmd, len), m)
<1>a. PICK t : t = Command(cmd, len)
  OBVIOUS
<1> SUFFICES Text(t, m)
  BY <1>a
<1>1. cmd \in Nat
  BY DEF Own
<1>2. t \in Seq(Cells) /\ Len(t) = len
  BY <1>1, <1>a, CommandCells DEF IsCommand
<1>4. \A i \in 1 .. len : /\ t[i].cmd = cmd /\ t[i].pos = i
                          /\ t[i].end => i = len
                          /\ i = len => t[i].end
                          /\ t[i] \in Cells
  BY <1>1, <1>a, CommandCells DEF IsCommand
<1>5. 1 \in 1 .. len /\ len \in 1 .. len
  OBVIOUS
<1>6. t[1].pos = 1 /\ t[len].end
  BY <1>4, <1>5
<1>7. \A i \in 1 .. len : t[i] \in Cells /\ t[i].cmd \in {Own, m + 1} /\ t[i].pos # 0
  BY <1>4
<1>8. \A i \in 1 .. len - 1 : Continues(t[i], t[i + 1])
  <2> SUFFICES ASSUME NEW i \in 1 .. len - 1 PROVE Continues(t[i], t[i + 1])
    OBVIOUS
  <2>1. i \in 1 .. len /\ i + 1 \in 1 .. len /\ i # len
    OBVIOUS
  <2> QED BY <1>4, <2>1 DEF Continues
<1>9. \A i, j \in 1 .. len : i < j => Later(t[i], t[j])
  <2> SUFFICES ASSUME NEW i \in 1 .. len, NEW j \in 1 .. len, i < j
               PROVE  Later(t[i], t[j])
    OBVIOUS
  <2>1. i # len
    OBVIOUS
  <2> QED BY <1>4, <2>1 DEF Later
<1> QED BY <1>2, <1>6, <1>7, <1>8, <1>9 DEF Text

\* The user's own search before or behind a command.
LEMMA TwoTexts ==
    ASSUME NEW m \in Nat, NEW u, NEW v, Text(u, m), Text(v, m),
           \/ /\ \A i \in 1 .. Len(u) : u[i].cmd = Own
              /\ \A i \in 1 .. Len(v) : v[i].cmd = m + 1
           \/ \A i \in 1 .. Len(v) : v[i].cmd = Own
    PROVE  Text(u \o v, m)
<1> DEFINE t == u \o v
           L == Len(u)
<1>1. /\ t \in Seq(Cells) /\ Len(t) = L + Len(v) /\ L \in Nat /\ L > 0
      /\ Len(v) \in Nat /\ Len(v) > 0
  BY ConcatProperties DEF Text
<1>2. /\ \A i \in 1 .. L : t[i] = u[i]
      /\ \A i \in 1 .. Len(v) : t[L + i] = v[i]
  BY DEF Text
<1> HIDE DEF t, L
<1>3. \A i \in 1 .. Len(t) : i \in 1 .. L \/ \E j \in 1 .. Len(v) : i = L + j
  <2> SUFFICES ASSUME NEW i \in 1 .. Len(t), i \notin 1 .. L
               PROVE  \E j \in 1 .. Len(v) : i = L + j
    OBVIOUS
  <2>1. i - L \in 1 .. Len(v) /\ i = L + (i - L)
    BY <1>1
  <2> QED BY <2>1
<1>u. /\ u[1].pos = 1 /\ u[L].end
      /\ \A i \in 1 .. L : u[i] \in Cells /\ u[i].cmd \in {Own, m + 1} /\ u[i].pos # 0
      /\ \A i \in 1 .. L - 1 : Continues(u[i], u[i + 1])
      /\ \A i, j \in 1 .. L : i < j => Later(u[i], u[j])
  BY DEF Text, L
<1>v. /\ v[1].pos = 1 /\ v[Len(v)].end
      /\ \A i \in 1 .. Len(v) :
            v[i] \in Cells /\ v[i].cmd \in {Own, m + 1} /\ v[i].pos # 0
      /\ \A i \in 1 .. Len(v) - 1 : Continues(v[i], v[i + 1])
      /\ \A i, j \in 1 .. Len(v) : i < j => Later(v[i], v[j])
  BY DEF Text
<1>4. 1 \in 1 .. L /\ 1 \in 1 .. Len(v) /\ L \in 1 .. L /\ Len(v) \in 1 .. Len(v)
  BY <1>1
<1>5. t[1].pos = 1 /\ t[Len(t)].end
  BY <1>1, <1>2, <1>4, <1>u, <1>v
<1>6. ASSUME NEW i \in 1 .. Len(t)
      PROVE  t[i] \in Cells /\ t[i].cmd \in {Own, m + 1} /\ t[i].pos # 0
  <2>1. CASE i \in 1 .. L
    <3>1. t[i] = u[i]
      BY <1>2, <2>1
    <3> QED BY <1>u, <2>1, <3>1
  <2>2. ASSUME NEW j \in 1 .. Len(v), i = L + j
        PROVE  t[i] \in Cells /\ t[i].cmd \in {Own, m + 1} /\ t[i].pos # 0
    <3>1. t[i] = v[j]
      BY <1>2, <2>2
    <3> QED BY <1>v, <3>1
  <2> QED BY <1>3, <2>1, <2>2
<1>7. ASSUME NEW i \in 1 .. Len(t) - 1
      PROVE  Continues(t[i], t[i + 1])
  <2>1. CASE i < L
    <3>1. i \in 1 .. L /\ i + 1 \in 1 .. L /\ i \in 1 .. L - 1
      BY <1>1, <2>1
    <3>2. t[i] = u[i] /\ t[i + 1] = u[i + 1]
      BY <1>2, <3>1
    <3> QED BY <1>u, <3>1, <3>2
  <2>2. CASE i = L
    <3>1. t[i].end /\ t[i + 1].pos = 1
      BY <1>2, <1>4, <1>u, <1>v, <2>2
    <3> QED BY <3>1 DEF Continues
  <2>3. ASSUME NEW j \in 1 .. Len(v), i = L + j
        PROVE  Continues(t[i], t[i + 1])
    <3>1. j \in 1 .. Len(v) - 1 /\ j + 1 \in 1 .. Len(v) /\ i + 1 = L + (j + 1)
      BY <1>1, <2>3
    <3>2. t[i] = v[j]
      BY <1>2, <2>3
    <3>3. t[i + 1] = v[j + 1]
      BY <1>2, <3>1
    <3>4. Continues(v[j], v[j + 1])
      BY <1>v, <3>1
    <3> QED BY <3>2, <3>3, <3>4
  <2>4. i \in 1 .. Len(t) /\ (i \in 1 .. L => i < L \/ i = L)
    BY <1>1
  <2> QED BY <1>3, <2>1, <2>2, <2>3, <2>4
<1>8. ASSUME NEW i \in 1 .. Len(t), NEW j \in 1 .. Len(t), i < j
      PROVE  Later(t[i], t[j])
  <2>1. CASE j \in 1 .. L
    <3>1. i \in 1 .. L
      BY <1>1, <1>8, <2>1
    <3> QED BY <1>2, <1>8, <1>u, <2>1, <3>1
  <2>2. ASSUME NEW y \in 1 .. Len(v), j = L + y
        PROVE  Later(t[i], t[j])
    <3>1. t[j] = v[y] /\ v[y].cmd \in {Own, m + 1}
      BY <1>2, <1>v, <2>2
    <3>2. CASE i \in 1 .. L
      <4>1. t[i] = u[i]
        BY <1>2, <3>2
      <4>2. v[y].cmd = Own \/ (u[i].cmd = Own /\ v[y].cmd = m + 1)
        BY <3>2 DEF L
      <4> QED BY <3>1, <4>1, <4>2 DEF Later, Own
    <3>3. ASSUME NEW x \in 1 .. Len(v), i = L + x
          PROVE  Later(t[i], t[j])
      <4>1. x < y
        BY <1>1, <1>8, <2>2, <3>3
      <4> QED BY <1>2, <1>v, <2>2, <3>3, <4>1
    <3> QED BY <1>3, <3>2, <3>3
  <2> QED BY <1>3, <2>1, <2>2
<1>9. Text(t, m)
  BY <1>1, <1>5, <1>6, <1>7, <1>8 DEF Text
<1> QED BY <1>9 DEF t

\* The stream in c is that in b, moved by o, without the s cells behind the
\* place x, which begin behind the end of a command and end with one.
Skips(l, b, h, c, g, o, x, s) ==
    /\ o \in Int /\ h = g + o
    /\ x \in g .. Len(c) /\ s \in Nat /\ Len(c) + o + s = Len(b)
    /\ \A j \in g + 1 .. x : c[j] = b[j + o]
    /\ \A j \in x + 1 .. Len(c) : c[j] = b[j + o + s]
    /\ s # 0 => /\ CellAt(l, b, h, x + o).end
                /\ CellAt(l, b, h, x + o + s).end

LEMMA SkipWhole ==
    ASSUME NEW l \in Cells, NEW b \in Seq(Cells), NEW h \in Nat,
           NEW m \in Nat, Whole(l, b, h, m), NEW n \in Nat, m <= n,
           NEW c \in Seq(Cells), NEW g \in Nat,
           NEW o, NEW x, NEW s, Skips(l, b, h, c, g, o, x, s)
    PROVE  Whole(l, c, g, n)
<1> DEFINE at(j) == IF j <= x THEN j + o ELSE j + o + s
           f == [j \in g .. Len(c) |-> at(j)]
<1>1. /\ Len(b) \in Nat /\ Len(c) \in Nat /\ g <= Len(c) /\ x \in Nat
      /\ o \in Int /\ h = g + o /\ g <= x /\ x <= Len(c)
      /\ s \in Nat /\ Len(c) + o + s = Len(b)
  BY LenProperties DEF Skips
<1>c. /\ \A j \in g + 1 .. x : c[j] = b[j + o]
      /\ \A j \in x + 1 .. Len(c) : c[j] = b[j + o + s]
      /\ s # 0 => /\ CellAt(l, b, h, x + o).end
                  /\ CellAt(l, b, h, x + o + s).end
  BY DEF Skips
<1>2. f \in [g .. Len(c) -> h .. Len(b)]
  <2> SUFFICES ASSUME NEW j \in g .. Len(c) PROVE at(j) \in h .. Len(b)
    OBVIOUS
  <2> QED BY <1>1
<1>3. \A j \in g .. Len(c) : /\ f[j] \in h .. Len(b)
                             /\ j <= x => f[j] = j + o
                             /\ j > x => f[j] = j + o + s
  <2> SUFFICES ASSUME NEW j \in g .. Len(c)
               PROVE  /\ f[j] \in h .. Len(b)
                      /\ j <= x => f[j] = j + o
                      /\ j > x => f[j] = j + o + s
    OBVIOUS
  <2>1. f[j] = at(j) /\ at(j) \in h .. Len(b)
    BY <1>2
  <2> HIDE DEF f
  <2> QED BY <1>1, <2>1
<1> HIDE DEF f
<1>4. ASSUME NEW j \in g .. Len(c)
      PROVE  CellAt(l, c, g, j) = CellAt(l, b, h, f[j])
  <2>1. CASE j = g
    <3>1. f[j] = h
      BY <1>1, <1>3, <2>1
    <3> QED BY <2>1, <3>1 DEF CellAt
  <2>2. CASE j # g /\ j <= x
    <3>1. j \in g + 1 .. x /\ f[j] = j + o /\ f[j] # h
      BY <1>1, <1>3, <1>c, <2>2
    <3> QED BY <1>c, <2>2, <3>1 DEF CellAt
  <2>3. CASE j > x
    <3>1. j \in x + 1 .. Len(c) /\ f[j] = j + o + s /\ f[j] # h /\ j # g
      BY <1>1, <1>3, <2>3
    <3> QED BY <1>c, <3>1 DEF CellAt
  <2> QED BY <1>1, <2>1, <2>2, <2>3
<1>5. ASSUME NEW j \in g .. Len(c) - 1
      PROVE  \/ f[j + 1] = f[j] + 1
             \/ CellAt(l, b, h, f[j]).end /\ CellAt(l, b, h, f[j + 1]).pos = 1
  <2>1. j \in g .. Len(c) /\ j + 1 \in g .. Len(c)
    BY <1>1
  <2>2. CASE j # x \/ s = 0
    <3>1. j < x => f[j] = j + o /\ f[j + 1] = j + 1 + o
      BY <1>1, <1>3, <2>1
    <3>2. j > x => f[j] = j + o + s /\ f[j + 1] = j + 1 + o + s
      BY <1>1, <1>3, <2>1
    <3>3. j = x => f[j] = j + o /\ f[j + 1] = j + 1 + o + s
      BY <1>1, <1>3, <2>1
    <3>4. f[j + 1] = f[j] + 1
      <4>1. CASE j < x
        BY <1>1, <3>1, <4>1
      <4>2. CASE j > x
        BY <1>1, <3>2, <4>2
      <4>3. CASE j = x
        BY <1>1, <2>2, <3>3, <4>3
      <4> QED BY <1>1, <2>1, <4>1, <4>2, <4>3
    <3> QED BY <3>4
  <2>3. CASE j = x /\ s # 0
    <3>1. f[j] = x + o /\ f[j + 1] = x + o + s + 1
      <4>1. f[j] = j + o /\ f[j + 1] = j + 1 + o + s
        BY <1>1, <1>3, <2>1, <2>3
      <4> QED BY <1>1, <2>3, <4>1
    <3>2. x + o + s \in h .. Len(b) - 1
      BY <1>1, <2>3
    <3>3. Continues(CellAt(l, b, h, x + o + s), CellAt(l, b, h, x + o + s + 1))
      BY <3>2 DEF Whole
    <3> QED BY <1>c, <2>3, <3>1, <3>3 DEF Continues
  <2> QED BY <2>2, <2>3
<1>6. ASSUME NEW i \in g .. Len(c), NEW j \in g .. Len(c), i < j
      PROVE  f[i] < f[j]
  <2>1. CASE j <= x
    BY <1>1, <1>3, <1>6, <2>1
  <2>2. CASE i > x
    BY <1>1, <1>3, <1>6, <2>2
  <2>3. CASE i <= x /\ j > x
    <3>1. f[i] = i + o /\ f[j] = j + o + s
      BY <1>3, <2>3
    <3> QED BY <1>1, <1>6, <3>1
  <2> QED BY <1>1, <2>1, <2>2, <2>3
<1>7. CellAt(l, b, h, f[Len(c)]).end
  <2>2. CASE x = Len(c) /\ s # 0
    BY <1>1, <1>3, <1>c, <2>2
  <2>3. CASE x # Len(c) \/ s = 0
    <3>1. f[Len(c)] = Len(b)
      BY <1>1, <1>3, <2>3
    <3> QED BY <3>1 DEF Whole
  <2> QED BY <2>2, <2>3
<1>9. Selects(f, l, c, g, l, b, h)
  BY <1>2, <1>4, <1>5, <1>6, <1>7 DEF Selects
<1> QED BY <1>1, <1>9, PartWhole

\* The elements of two parts of the buffer that are put together.
LEMMA TwoParts ==
    ASSUME NEW b \in Seq(Cells), NEW i \in Nat, NEW j \in Nat, i <= j, j <= Len(b),
           NEW h \in Nat, h <= i
    PROVE  LET c == SubSeq(b, h + 1, i) \o SubSeq(b, j + 1, Len(b))
           IN /\ c \in Seq(Cells)
              /\ Len(c) + h + (j - i) = Len(b)
              /\ \A k \in 1 .. i - h : c[k] = b[k + h]
              /\ \A k \in i - h + 1 .. Len(c) : c[k] = b[k + h + (j - i)]
<1> DEFINE u == SubSeq(b, h + 1, i)
           v == SubSeq(b, j + 1, Len(b))
           c == u \o v
<1>1. Len(b) \in Nat /\ h + 1 \in Nat \ {0} /\ j + 1 \in Nat \ {0}
  BY LenProperties
<1>2. /\ u \in Seq(Cells) /\ Len(u) = i - h
      /\ v \in Seq(Cells) /\ Len(v) = Len(b) - j
  <2>1. u \in Seq(Cells) /\ Len(u) = i - (h + 1) + 1
    <3>1. h + 1 \in Nat \ {0} /\ h + 1 <= i + 1 /\ i <= Len(b)
      BY <1>1
    <3> QED BY <3>1, PartType
  <2>2. v \in Seq(Cells) /\ Len(v) = Len(b) - (j + 1) + 1
    <3>1. j + 1 \in Nat \ {0} /\ j + 1 <= Len(b) + 1 /\ Len(b) \in Nat
      BY <1>1
    <3> QED BY <3>1, PartType
  <2>3. i - (h + 1) + 1 = i - h /\ Len(b) - (j + 1) + 1 = Len(b) - j
    BY <1>1
  <2> QED BY <2>1, <2>2, <2>3
<1>3. /\ \A k \in 1 .. i - h : u[k] = b[k + h]
      /\ \A k \in 1 .. Len(b) - j : v[k] = b[k + j]
  <2>1. \A k \in h + 1 .. i : b[k] \in Cells
    BY <1>1, ElementOfSeq
  <2>2. \A k \in j + 1 .. Len(b) : b[k] \in Cells
    BY <1>1, ElementOfSeq
  <2>3. \A k \in 1 .. i - (h + 1) + 1 : u[k] = b[(h + 1) + k - 1]
    BY <1>1, <2>1, SubSeqProperties, SMTT(30)
  <2>4. \A k \in 1 .. Len(b) - (j + 1) + 1 : v[k] = b[(j + 1) + k - 1]
    BY <1>1, <2>2, SubSeqProperties
  <2>5. ASSUME NEW k \in 1 .. i - h PROVE u[k] = b[k + h]
    <3>1. k \in 1 .. i - (h + 1) + 1 /\ (h + 1) + k - 1 = k + h
      OBVIOUS
    <3> QED BY <2>3, <3>1
  <2>6. ASSUME NEW k \in 1 .. Len(b) - j PROVE v[k] = b[k + j]
    <3>1. k \in 1 .. Len(b) - (j + 1) + 1 /\ (j + 1) + k - 1 = k + j
      BY <1>1
    <3> QED BY <2>4, <3>1
  <2> QED BY <2>5, <2>6
<1> HIDE DEF u, v
<1>4. /\ c \in Seq(Cells) /\ Len(c) = (i - h) + (Len(b) - j)
      /\ \A k \in 1 .. i - h : c[k] = u[k]
      /\ \A k \in i - h + 1 .. Len(c) : c[k] = v[k - (i - h)]
  <2>1. /\ c \in Seq(Cells) /\ Len(c) = Len(u) + Len(v)
    BY <1>2, ConcatProperties
  <2>2. \A k \in 1 .. Len(u) + Len(v) :
           c[k] = IF k <= Len(u) THEN u[k] ELSE v[k - Len(u)]
    BY <1>2, ConcatProperties
  <2> HIDE DEF c
  <2>3. Len(c) = (i - h) + (Len(b) - j) /\ Len(c) = Len(u) + Len(v)
    BY <1>2, <2>1
  <2>4. \A k \in 1 .. i - h : c[k] = u[k]
    BY <1>1, <1>2, <2>2, SMTT(60)
  <2>5. ASSUME NEW k \in i - h + 1 .. Len(c) PROVE c[k] = v[k - (i - h)]
    <3>1. k \in 1 .. Len(u) + Len(v) /\ ~(k <= Len(u)) /\ Len(u) = i - h
      BY <1>1, <1>2, <2>3
    <3>2. c[k] = IF k <= Len(u) THEN u[k] ELSE v[k - Len(u)]
      BY <2>2, <3>1
    <3> QED BY <3>1, <3>2
  <2> QED BY <2>1, <2>3, <2>4, <2>5
<1> HIDE DEF c
<1>5. ASSUME NEW k \in i - h + 1 .. Len(c) PROVE c[k] = b[k + h + (j - i)]
  <2>1. k - (i - h) \in 1 .. Len(b) - j /\ k - (i - h) + j = k + h + (j - i)
    BY <1>1, <1>4
  <2> QED BY <1>3, <1>4, <2>1
<1>6. Len(c) + h + (j - i) = Len(b)
  BY <1>1, <1>4
<1> QED BY <1>3, <1>4, <1>5, <1>6 DEF c, u, v

\* What lies before the head may be given up.
LEMMA PendingWhole ==
    ASSUME TypeOK, InBounds, StreamWhole
    PROVE  /\ Pending \in Seq(Cells) /\ Len(Pending) = Len(buf) - head
           /\ \A k \in 1 .. Len(Pending) : Pending[k] = buf[k + head]
           /\ Whole(last, Pending, 0, made)
<1>1. /\ buf \in Seq(Cells) /\ Len(buf) \in Nat /\ head \in Nat /\ head <= Len(buf)
      /\ last \in Cells /\ made \in Nat
  BY LenProperties, LimitsAssumption DEF TypeOK, InBounds
<1>2. Pending \in Seq(Cells) /\ Len(Pending) = Len(buf) - (head + 1) + 1
  BY <1>1, PartType DEF Pending
<1>3. \A k \in 1 .. Len(Pending) : Pending[k] = buf[k + head]
  <2>1. \A k \in head + 1 .. Len(buf) : buf[k] \in Cells
    BY <1>1, ElementOfSeq
  <2>2. \A k \in 1 .. Len(buf) - (head + 1) + 1 : Pending[k] = buf[(head + 1) + k - 1]
    BY <1>1, <2>1, SubSeqProperties DEF Pending
  <2>3. ASSUME NEW k \in 1 .. Len(Pending) PROVE Pending[k] = buf[k + head]
    <3>1. k \in 1 .. Len(buf) - (head + 1) + 1 /\ (head + 1) + k - 1 = k + head
      BY <1>1, <1>2
    <3> QED BY <2>2, <3>1
  <2> QED BY <2>3
<1>4. Len(Pending) = Len(buf) - head
  BY <1>1, <1>2
<1>5. Skips(last, buf, head, Pending, 0, head, Len(Pending), 0)
  BY <1>1, <1>3, <1>4 DEF Skips
<1>6. Whole(last, Pending, 0, made)
  <2>1. 0 \in Nat /\ made <= made
    BY <1>1
  <2> QED BY <1>1, <1>2, <1>5, <2>1, SkipWhole DEF StreamWhole
<1> QED BY <1>2, <1>3, <1>4, <1>6

\* What is kept of a slow user's buffer: whole commands, the one that is being
\* sent and some of those behind it.
LEMMA CutWhole ==
    ASSUME NEW l \in Cells, NEW b \in Seq(Cells), NEW h \in Nat, NEW m \in Nat,
           Whole(l, b, h, m),
           NEW i \in h + 1 .. Len(b), NEW j \in i .. Len(b), b[i].end, b[j].end
    PROVE  Whole(l, SubSeq(b, h + 1, i) \o SubSeq(b, j + 1, Len(b)), 0, m)
<1> DEFINE c == SubSeq(b, h + 1, i) \o SubSeq(b, j + 1, Len(b))
<1>1. Len(b) \in Nat /\ i \in Nat /\ j \in Nat /\ i <= j /\ j <= Len(b) /\ h <= i
  BY LenProperties
<1>2. /\ c \in Seq(Cells)
      /\ Len(c) + h + (j - i) = Len(b)
      /\ \A k \in 1 .. i - h : c[k] = b[k + h]
      /\ \A k \in i - h + 1 .. Len(c) : c[k] = b[k + h + (j - i)]
  BY <1>1, TwoParts, ZenonT(200)
<1> HIDE DEF c
<1>3. /\ i - h \in 0 .. Len(c) /\ j - i \in Nat /\ h \in Int /\ h = 0 + h
      /\ i - h + h = i /\ i - h + h + (j - i) = j /\ i # h /\ j # h
  <2>1. Len(c) \in Nat /\ h \in Int /\ h < i
    BY <1>1, <1>2, LenProperties
  <2>2. Len(c) = Len(b) - j + (i - h)
    BY <1>1, <1>2, <2>1
  <2>3. i - h \in 0 .. Len(c) /\ j - i \in Nat
    BY <1>1, <2>1, <2>2
  <2>4. /\ h = 0 + h /\ i - h + h = i /\ i - h + h + (j - i) = j
        /\ i # h /\ j # h
    BY <1>1, <2>1
  <2> QED BY <2>1, <2>3, <2>4
<1>4. CellAt(l, b, h, i - h + h).end /\ CellAt(l, b, h, i - h + h + (j - i)).end
  BY <1>3 DEF CellAt
<1>5. \A k \in 0 + 1 .. i - h : c[k] = b[k + h]
  BY <1>2
<1>6. Skips(l, b, h, c, 0, h, i - h, j - i)
  BY <1>2, <1>3, <1>4, <1>5 DEF Skips
<1>7. 0 \in Nat /\ m <= m
  OBVIOUS
<1> QED BY <1>2, <1>6, <1>7, SkipWhole DEF c

LEMMA KeptWhole ==
    ASSUME TypeOK, InBounds, StreamWhole, NEW n \in Nat, NEW limit \in Nat
    PROVE  Kept(n, limit) \in Seq(Cells) /\ Whole(last, Kept(n, limit), 0, made)
<1> DEFINE size == Len(buf)
           p == Least(EndsFrom(head))
           rest == SubSeq(buf, head + 1, p + 1)
           room == p + 1 + n
           from == IF size > bufLen \div 2 /\ room < bufLen \div 2
                   THEN bufLen \div 2 ELSE room
           ends == EndsFrom(from)
           K == Kept(n, limit)
<1>1. /\ buf \in Seq(Cells) /\ size \in Nat /\ head \in Nat /\ head <= size
      /\ bufLen \in Nat /\ last \in Cells /\ made \in Nat
  BY LenProperties, LimitsAssumption DEF TypeOK, InBounds
<1>2. CASE EndsFrom(head) = {}
  <2>1. K = Bar
    BY <1>2 DEF Kept
  <2>2. size = head
    <3> SUFFICES ASSUME size # head PROVE FALSE
      OBVIOUS
    <3>1. buf[size].end
      BY DEF StreamWhole, Whole, CellAt
    <3>2. size - 1 \in head .. size - 1 /\ size - 1 + 1 = size
      BY <1>1
    <3>3. size - 1 \in EndsFrom(head)
      BY <3>1, <3>2 DEF EndsFrom
    <3> QED BY <1>2, <3>3
  <2>3. last.end /\ last.cmd <= made /\ last.cmd \in Nat
    <3>1. head \in head .. size /\ CellAt(last, buf, head, head) = last
      BY <1>1 DEF CellAt
    <3>2. last.end /\ last.cmd <= made
      BY <2>2, <3>1 DEF StreamWhole, Whole
    <3> QED BY <1>1, <3>2 DEF Cells
  <2>4. /\ Bar \in Seq(Cells) /\ Len(Bar) = 1
        /\ Bar[1].cmd = 0 /\ Bar[1].pos = 1 /\ Bar[1].end
    BY DEF Bar, Cells
  <2> HIDE DEF K
  <2>5. /\ CellAt(last, Bar, 0, 0) = last /\ CellAt(last, Bar, 0, 1) = Bar[1]
        /\ \A i \in 0 .. 1 : i = 0 \/ i = 1
        /\ \A i \in 0 .. 1 - 1 : i = 0
    BY DEF CellAt
  <2>6. \A i \in 0 .. 1 : /\ CellAt(last, Bar, 0, i).cmd <= made
                          /\ CellAt(last, Bar, 0, i).pos = 0 => CellAt(last, Bar, 0, i).end
    BY <1>1, <2>3, <2>4, <2>5
  <2>7. Continues(last, Bar[1]) /\ Later(last, Bar[1])
    BY <2>3, <2>4 DEF Continues, Later, Own
  <2>8. \A i \in 0 .. 1 - 1 : Continues(CellAt(last, Bar, 0, i), CellAt(last, Bar, 0, i + 1))
    BY <2>5, <2>7
  <2>9. \A i, j \in 0 .. 1 : i < j => Later(CellAt(last, Bar, 0, i), CellAt(last, Bar, 0, j))
    BY <2>5, <2>7
  <2> QED BY <2>1, <2>4, <2>5, <2>6, <2>8, <2>9 DEF Whole, K
<1>3. CASE EndsFrom(head) # {}
  <2>1. EndsFrom(head) \subseteq Nat
    BY <1>1 DEF EndsFrom
  <2>2. p \in head .. size - 1 /\ buf[p + 1].end
    <3>1. p \in EndsFrom(head)
      BY <1>3, <2>1, LeastElement
    <3> QED BY <3>1 DEF EndsFrom
  <2>3. K = IF n < limit /\ size > room /\ ends # {}
            THEN rest \o SubSeq(buf, Least(ends) + 2, size)
            ELSE rest
    BY <1>3 DEF Kept
  <2> HIDE DEF K, p
  <2>4. room \in Nat /\ from \in Nat /\ p + 1 \in head + 1 .. size /\ p + 1 <= from
    BY <1>1, <2>2
  <2>5. CASE n < limit /\ size > room /\ ends # {}
    <3> HIDE DEF from
    <3>1. ends \subseteq Nat
      BY <1>1, <2>4 DEF EndsFrom
    <3>2. Least(ends) \in from .. size - 1 /\ buf[Least(ends) + 1].end
      <4>1. Least(ends) \in ends
        BY <2>5, <3>1, LeastElement
      <4> QED BY <4>1 DEF EndsFrom
    <3>3. PICK j \in p + 1 .. size : j = Least(ends) + 1 /\ buf[j].end
      BY <1>1, <2>2, <2>4, <3>2
    <3>4. K = SubSeq(buf, head + 1, p + 1) \o SubSeq(buf, j + 1, size)
      <4>1. Least(ends) + 2 = j + 1
        BY <1>1, <2>4, <3>2, <3>3
      <4> QED BY <2>3, <2>5, <4>1
    <3>5. Whole(last, K, 0, made)
      BY <1>1, <2>2, <2>4, <3>3, <3>4, CutWhole DEF StreamWhole
    <3>6. K \in Seq(Cells)
      <4>1. p + 1 \in Nat /\ j \in Nat /\ p + 1 <= j /\ j <= size /\ head <= p + 1
        BY <1>1, <2>2, <3>3
      <4> QED BY <1>1, <3>4, <4>1, TwoParts
    <3> QED BY <3>5, <3>6 DEF K
  <2>6. CASE ~(n < limit /\ size > room /\ ends # {})
    <3>1. size \in p + 1 .. size
      BY <1>1, <2>4
    <3>2. buf[size].end
      <4>1. size # head
        BY <1>1, <2>4
      <4> QED BY <4>1 DEF StreamWhole, Whole, CellAt
    <3>3. /\ rest \in Seq(Cells) /\ SubSeq(buf, size + 1, size) = << >>
      <4>1. rest \in Seq(Cells)
        BY <1>1, <2>4, PartType
      <4>2. /\ SubSeq(buf, size + 1, size) \in Seq(Cells)
            /\ Len(SubSeq(buf, size + 1, size)) = size - (size + 1) + 1
        BY <1>1, PartType
      <4>3. Len(SubSeq(buf, size + 1, size)) = 0
        BY <1>1, <4>2
      <4> QED BY <4>1, <4>2, <4>3, EmptySeq
    <3>4. K = rest \o SubSeq(buf, size + 1, size)
      BY <2>3, <2>6, <3>3
    <3>5. Whole(last, K, 0, made)
      BY <1>1, <2>2, <2>4, <3>1, <3>2, <3>4, CutWhole DEF StreamWhole
    <3> QED BY <2>3, <2>6, <3>3, <3>5 DEF K
  <2> QED BY <2>5, <2>6
<1> QED BY <1>2, <1>3

\* c is b with t behind it.
IsConcat(c, b, t) ==
    /\ c \in Seq(Cells) /\ Len(c) = Len(b) + Len(t)
    /\ \A i \in 1 .. Len(b) : c[i] = b[i]
    /\ \A i \in 1 .. Len(t) : c[Len(b) + i] = t[i]

LEMMA Concatenates ==
    ASSUME NEW b \in Seq(Cells), NEW t \in Seq(Cells)
    PROVE  IsConcat(b \o t, b, t)
<1> DEFINE c == b \o t
<1>1. c \in Seq(Cells) /\ Len(c) = Len(b) + Len(t) /\ Len(b) \in Nat /\ Len(t) \in Nat
  BY ConcatProperties, LenProperties
<1>2. \A i \in 1 .. Len(b) + Len(t) : c[i] = IF i <= Len(b) THEN b[i] ELSE t[i - Len(b)]
  BY ConcatProperties
<1> HIDE DEF c
<1>3. \A i \in 1 .. Len(b) : c[i] = b[i]
  BY <1>1, <1>2
<1>4. ASSUME NEW i \in 1 .. Len(t) PROVE c[Len(b) + i] = t[i]
  <2>1. Len(b) + i \in 1 .. Len(b) + Len(t) /\ ~(Len(b) + i <= Len(b)) /\ Len(b) + i - Len(b) = i
    BY <1>1
  <2>2. c[Len(b) + i] = IF Len(b) + i <= Len(b) THEN b[Len(b) + i] ELSE t[Len(b) + i - Len(b)]
    BY <1>2, <2>1
  <2> QED BY <2>1, <2>2
<1> QED BY <1>1, <1>3, <1>4 DEF IsConcat, c

\* What PutInSendBuf leaves of the buffer, before it appends n bytes.
Base(b, h, n, limit, keep) ==
    /\ b \in Seq(Cells) /\ h \in Nat /\ h <= Len(b)
    /\ Whole(last, b, h, made)
    /\ \/ b = buf /\ h = head
       \/ b = Pending /\ h = 0 /\ head > n
       \/ h = 0 /\ Thins(n, limit, keep)

LEMMA PutCases ==
    ASSUME TypeOK, InBounds, StreamWhole, NEW t, Text(t, made),
           NEW limit \in Nat, NEW keep \in BOOLEAN
    PROVE  LET r == PutInSendBuf(t, limit, keep)
           IN /\ Holds(r, t)
              /\ ~r.error => \E b, h : /\ Base(b, h, Len(t), limit, keep)
                                       /\ IsConcat(r.buf, b, t) /\ r.head = h
<1>a. PICK n : n = Len(t)
  OBVIOUS
<1>b. PICK r : r = PutInSendBuf(t, limit, keep)
  OBVIOUS
<1>1. /\ t \in Seq(Cells) /\ n \in Nat /\ n > 0 /\ t # << >>
      /\ buf \in Seq(Cells) /\ Len(buf) \in Nat /\ head \in Nat /\ head <= Len(buf)
  BY <1>a, EmptySeq, LenProperties DEF Text, TypeOK, InBounds
<1>2. Holds(r, t)
  BY <1>1, <1>b, PutHolds
<1>3. ASSUME NEW b, NEW h, NEW l, Base(b, h, n, limit, keep), r = Buffer(b \o t, h, l)
      PROVE  /\ Base(b, h, n, limit, keep)
             /\ IsConcat(r.buf, b, t) /\ r.head = h
  BY <1>1, <1>3, Concatenates DEF Base, Buffer
<1>4. Base(buf, head, n, limit, keep)
  BY <1>1 DEF Base, StreamWhole
<1>5. CASE ~Full(n)
  <2>1. \E l : r = Buffer(buf \o t, head, l)
    BY <1>5, <1>a, <1>b DEF PutInSendBuf
  <2> QED BY <1>2, <1>3, <1>4, <1>a, <1>b, <2>1
<1>6. CASE Full(n) /\ Compacts(n)
  <2>1. r = Buffer(Pending \o t, 0, bufLen)
    BY <1>6, <1>a, <1>b DEF PutInSendBuf
  <2>2. 0 \in Nat /\ 0 <= Len(Pending) /\ head > n
    BY <1>1, <1>6, PendingWhole DEF Compacts
  <2>3. Base(Pending, 0, n, limit, keep)
    BY <2>2, PendingWhole DEF Base
  <2> QED BY <1>2, <1>3, <1>a, <1>b, <2>1, <2>3
<1>7. CASE Full(n) /\ ~Compacts(n) /\ ~Limited(n, limit)
  <2>1. \E l : r = Buffer(buf \o t, head, l)
    BY <1>7, <1>a, <1>b DEF PutInSendBuf
  <2> QED BY <1>2, <1>3, <1>4, <1>a, <1>b, <2>1
<1>8. CASE Full(n) /\ ~Compacts(n) /\ Limited(n, limit) /\ keep
  <2>1. \E l : r = Buffer(Kept(n, limit) \o t, 0, l)
    BY <1>8, <1>a, <1>b DEF PutInSendBuf, Thins
  <2>2. Kept(n, limit) \in Seq(Cells) /\ Whole(last, Kept(n, limit), 0, made)
    BY <1>1, KeptWhole
  <2>3. 0 \in Nat /\ 0 <= Len(Kept(n, limit))
    BY <2>2, LenProperties
  <2>4. Base(Kept(n, limit), 0, n, limit, keep)
    BY <1>8, <2>2, <2>3 DEF Base, Thins
  <2> QED BY <1>2, <1>3, <1>a, <1>b, <2>1, <2>4
<1>9. CASE Full(n) /\ ~Compacts(n) /\ Limited(n, limit) /\ ~keep
  <2>1. r.error
    BY <1>9, <1>a, <1>b DEF PutInSendBuf, Thins, Overflow
  <2> QED BY <1>2, <1>b, <2>1
<1> QED BY <1>5, <1>6, <1>7, <1>8, <1>9

\* Where RemFromSendBuf finds the search.
FoundAt(b, cmd, from, i) ==
    /\ i \in Nat /\ from <= i /\ i + Len(cmd) <= Len(b)
    /\ \A k \in 1 .. Len(cmd) : b[i + k] = cmd[k]

LEMMA FoundWhere ==
    ASSUME NEW b \in Seq(Cells), NEW cmd \in Seq(Cells), NEW from \in Nat, NEW i \in Nat
    PROVE  /\ i \in from .. Len(b) /\ i + Len(cmd) <= Len(b)
              /\ SubSeq(b, i + 1, i + Len(cmd)) = cmd => FoundAt(b, cmd, from, i)
           /\ FoundAt(b, cmd, from, i) =>
              /\ i \in from .. Len(b) /\ i + Len(cmd) <= Len(b)
              /\ SubSeq(b, i + 1, i + Len(cmd)) = cmd
<1> DEFINE n == Len(cmd)
           s == SubSeq(b, i + 1, i + n)
<1>1. Len(b) \in Nat /\ n \in Nat
  BY LenProperties
<1>2. ASSUME i + n <= Len(b)
      PROVE  s \in Seq(Cells) /\ Len(s) = n /\ \A k \in 1 .. n : s[k] = b[i + k]
  <2>1. \A k \in i + 1 .. i + n : b[k] \in Cells
    BY <1>1, <1>2, ElementOfSeq
  <2>2. s \in Seq(Cells) /\ Len(s) = i + n - (i + 1) + 1
    <3>1. i + 1 \in Nat \ {0} /\ i + n \in Nat /\ i + 1 <= i + n + 1
      BY <1>1
    <3> QED BY <1>2, <3>1, PartType
  <2>3. \A k \in 1 .. i + n - (i + 1) + 1 : s[k] = b[(i + 1) + k - 1]
    <3>1. PICK lo \in Int : lo = i + 1
      BY <1>1
    <3>2. PICK hi \in Int : hi = i + n
      BY <1>1
    <3>3. \A k \in 1 .. hi - lo + 1 : SubSeq(b, lo, hi)[k] = b[lo + k - 1]
      BY <2>1, <3>1, <3>2, SubSeqProperties
    <3> QED BY <3>1, <3>2, <3>3
  <2> HIDE DEF s
  <2>4. ASSUME NEW k \in 1 .. n PROVE s[k] = b[i + k]
    <3>1. k \in 1 .. i + n - (i + 1) + 1 /\ (i + 1) + k - 1 = i + k
      BY <1>1
    <3> QED BY <2>3, <3>1
  <2> QED BY <1>1, <2>2, <2>4
<1> HIDE DEF s
<1>3. ASSUME i \in from .. Len(b), i + n <= Len(b), s = cmd
      PROVE  FoundAt(b, cmd, from, i)
  BY <1>1, <1>2, <1>3 DEF FoundAt
<1>4. ASSUME FoundAt(b, cmd, from, i)
      PROVE  i \in from .. Len(b) /\ i + n <= Len(b) /\ s = cmd
  <2>1. i + n <= Len(b) /\ from <= i /\ \A k \in 1 .. n : b[i + k] = cmd[k]
    BY <1>4 DEF FoundAt
  <2>2. s \in Seq(Cells) /\ Len(s) = n /\ \A k \in 1 .. n : s[k] = cmd[k]
    BY <1>2, <2>1
  <2>3. s = cmd
    BY <2>2, SeqEqual
  <2> QED BY <1>1, <2>1, <2>3
<1> QED BY <1>3, <1>4 DEF s

\* c is b without the search, cut out from one of the places it is found at.
CutOut(c, b, cmd, from) ==
    \E i \in Nat :
       /\ FoundAt(b, cmd, from, i)
       /\ c \in Seq(Cells) /\ Len(c) + Len(cmd) = Len(b)
       /\ \A k \in 1 .. i : c[k] = b[k]
       /\ \A k \in i + 1 .. Len(c) : c[k] = b[k + Len(cmd)]

\* RemFromSendBuf cuts the search out where it finds it.
LEMMA RemovesFirst ==
    ASSUME NEW b \in Seq(Cells), NEW cmd \in Seq(Cells), NEW from \in Nat,
           NEW c, c = RemFromSendBuf(b, cmd, from)
    PROVE  /\ c = b \/ CutOut(c, b, cmd, from)
           /\ \A i \in Nat : FoundAt(b, cmd, from, i) => CutOut(c, b, cmd, from)
<1> DEFINE n == Len(cmd)
<1> DEFINE found == {i \in from .. Len(b) : /\ i + Len(cmd) <= Len(b)
                                            /\ SubSeq(b, i + 1, i + Len(cmd)) = cmd}
<1>1. Len(b) \in Nat /\ n \in Nat
  BY LenProperties
<1>2. found \subseteq Nat
  BY <1>1
<1>3. \A i \in Nat : i \in found <=> FoundAt(b, cmd, from, i)
  BY FoundWhere
<1>4. c = IF found = {} THEN b
          ELSE SubSeq(b, 1, Least(found)) \o SubSeq(b, Least(found) + Len(cmd) + 1, Len(b))
  BY DEF RemFromSendBuf
<1> HIDE DEF found
<1>5. CASE found = {}
  BY <1>3, <1>4, <1>5
<1>6. CASE found # {}
  <2>1. PICK i \in Nat : i = Least(found) /\ i \in found
    BY <1>2, <1>6, LeastElement
  <2>2. FoundAt(b, cmd, from, i) /\ i + n <= Len(b)
    BY <1>1, <1>3, <2>1 DEF FoundAt
  <2>3. PICK j \in Nat : j = i + n
    BY <1>1
  <2>z. PICK z \in Nat : z = 0
    OBVIOUS
  <2>4. c = SubSeq(b, z + 1, i) \o SubSeq(b, j + 1, Len(b))
    <3>1. c = SubSeq(b, 1, i) \o SubSeq(b, i + n + 1, Len(b))
      <4>1. c = SubSeq(b, 1, i) \o SubSeq(b, i + Len(cmd) + 1, Len(b))
        BY <1>4, <1>6, <2>1, Zenon
      <4> QED BY <4>1, Zenon
    <3>2. z + 1 = 1 /\ i + n + 1 = j + 1
      BY <2>3, <2>z
    <3> QED BY <3>1, <3>2, Zenon
  <2>5. i <= j /\ j <= Len(b) /\ z <= i
    BY <1>1, <2>2, <2>3, <2>z
  <2>6. /\ c \in Seq(Cells)
        /\ Len(c) + z + (j - i) = Len(b)
        /\ \A k \in 1 .. i - z : c[k] = b[k + z]
        /\ \A k \in i - z + 1 .. Len(c) : c[k] = b[k + z + (j - i)]
    <3> DEFINE d == SubSeq(b, z + 1, i) \o SubSeq(b, j + 1, Len(b))
    <3>1. /\ d \in Seq(Cells)
          /\ Len(d) + z + (j - i) = Len(b)
          /\ \A k \in 1 .. i - z : d[k] = b[k + z]
          /\ \A k \in i - z + 1 .. Len(d) : d[k] = b[k + z + (j - i)]
      BY <2>5, TwoParts, ZenonT(200)
    <3>2. c = d
      BY <2>4, Zenon
    <3> HIDE DEF d
    <3> QED BY <3>1, <3>2
  <2>7. Len(c) \in Nat
    BY <2>6, LenProperties
  <2>8. Len(c) + n = Len(b) /\ \A k \in 1 .. i : c[k] = b[k]
    <3>1. Len(c) + n = Len(b)
      BY <1>1, <2>3, <2>6, <2>7, <2>z
    <3>2. ASSUME NEW k \in 1 .. i PROVE c[k] = b[k]
      <4>1. k \in 1 .. i - z /\ k + z = k
        BY <2>z
      <4> QED BY <2>6, <4>1
    <3> QED BY <3>1, <3>2
  <2>9. \A k \in i + 1 .. Len(c) : c[k] = b[k + n]
    <3> SUFFICES ASSUME NEW k \in i + 1 .. Len(c) PROVE c[k] = b[k + n]
      OBVIOUS
    <3>1. k \in i - z + 1 .. Len(c) /\ k + z + (j - i) = k + n
      BY <1>1, <2>3, <2>7, <2>z
    <3> QED BY <2>6, <3>1
  <2> QED BY <2>2, <2>6, <2>8, <2>9 DEF CutOut
<1> QED BY <1>5, <1>6

\* What RemFromSendBuf leaves are whole commands, wherever it finds the search.
LEMMA RemoveWhole ==
    ASSUME NEW l \in Cells, NEW b \in Seq(Cells), NEW h \in Nat, h <= Len(b),
           NEW m \in Nat, Whole(l, b, h, m), NEW n \in Nat, n > 0,
           NEW from \in Nat, h <= from
    PROVE  Whole(l, RemFromSendBuf(b, Command(Own, n), from), h, m)
<1> DEFINE own == Command(Own, n)
           c == RemFromSendBuf(b, own, from)
<1>d. own = Command(Own, n) /\ c = RemFromSendBuf(b, own, from)
  OBVIOUS
<1> HIDE DEF own, c
<1>1. /\ own \in Seq(Cells) /\ n = Len(own)
      /\ \A k \in 1 .. n : own[k].pos = k /\ (own[k].end => k = n) /\ (k = n => own[k].end)
  <2>1. Own \in Nat
    BY DEF Own
  <2> QED BY <1>d, <2>1, CommandCells DEF IsCommand
<1>2. c = b => Whole(l, c, h, m)
  OBVIOUS
<1>3. ASSUME NEW i \in Nat, FoundAt(b, own, from, i),
             c \in Seq(Cells), Len(c) + n = Len(b),
             \A k \in 1 .. i : c[k] = b[k],
             \A k \in i + 1 .. Len(c) : c[k] = b[k + n]
      PROVE  Whole(l, c, h, m)
  <2>1. /\ Len(b) \in Nat /\ Len(c) \in Nat /\ h <= i /\ i + n <= Len(b)
        /\ \A k \in 1 .. n : b[i + k] = own[k]
    BY <1>1, <1>3, LenProperties DEF FoundAt
  <2>2. b[i + 1].pos = 1 /\ b[i + n].end
    <3>1. 1 \in 1 .. n /\ n \in 1 .. n
      OBVIOUS
    <3> QED BY <1>1, <2>1, <3>1
  <2>3. CellAt(l, b, h, i + n).end
    <3>1. i + n # h
      BY <2>1
    <3> QED BY <2>2, <3>1 DEF CellAt
  <2>4. CellAt(l, b, h, i).end
    <3>1. i \in h .. Len(b) /\ i \in h .. Len(b) - 1 /\ i + 1 # h
      BY <2>1
    <3>2. CellAt(l, b, h, i + 1).pos = 1
      BY <2>2, <3>1 DEF CellAt
    <3>3. CellAt(l, b, h, i) \in Cells
      BY <3>1, CellType
    <3>4. /\ Continues(CellAt(l, b, h, i), CellAt(l, b, h, i + 1))
          /\ CellAt(l, b, h, i).pos = 0 => CellAt(l, b, h, i).end
      BY <3>1 DEF Whole
    <3>5. CellAt(l, b, h, i).pos \in Nat
      BY <3>3 DEF Cells
    <3> QED BY <3>2, <3>4, <3>5 DEF Continues
  <2>5. /\ i \in h .. Len(c) /\ i + 0 = i /\ i + 0 + n = i + n /\ 0 \in Int /\ h = h + 0
        /\ Len(c) + 0 + n = Len(b)
    BY <1>3, <2>1
  <2>6. /\ \A j \in h + 1 .. i : c[j] = b[j + 0]
        /\ \A j \in i + 1 .. Len(c) : c[j] = b[j + 0 + n]
    <3>1. ASSUME NEW j \in h + 1 .. i PROVE c[j] = b[j + 0]
      <4>1. j \in 1 .. i /\ j + 0 = j
        BY <2>1
      <4> QED BY <1>3, <4>1
    <3>2. ASSUME NEW j \in i + 1 .. Len(c) PROVE c[j] = b[j + 0 + n]
      <4>1. j + 0 + n = j + n
        BY <2>1
      <4> QED BY <1>3, <4>1
    <3> QED BY <3>1, <3>2
  <2>7. Skips(l, b, h, c, h, 0, i, n)
    BY <2>3, <2>4, <2>5, <2>6 DEF Skips
  <2>8. m <= m
    OBVIOUS
  <2> QED BY <1>3, <2>7, <2>8, SkipWhole
<1>4. c = b \/ CutOut(c, b, own, from)
  BY <1>1, <1>d, RemovesFirst
<1>5. CutOut(c, b, own, from) => Whole(l, c, h, m)
  BY <1>1, <1>3 DEF CutOut
<1>6. Whole(l, c, h, m)
  BY <1>2, <1>4, <1>5
<1> QED BY <1>6 DEF c, own

\* Behind a buffer without own searches, the search that was just put is what
\* RemFromSendBuf finds, and what it leaves is the other command.
LEMMA RemovesOwn ==
    ASSUME NEW b \in Seq(Cells), \A i \in 1 .. Len(b) : b[i].cmd # Own,
           NEW n \in Nat, n > 0, NEW other \in Seq(Cells),
           \A i \in 1 .. Len(other) : other[i].cmd # Own,
           NEW from \in Nat, from <= Len(b), NEW t, NEW c, IsConcat(c, b, t),
           t \in {Command(Own, n) \o other, other \o Command(Own, n)}
    PROVE  IsConcat(RemFromSendBuf(c, Command(Own, n), from), b, other)
<1> DEFINE own == Command(Own, n)
           r == RemFromSendBuf(c, own, from)
           L == Len(b)
           z == Len(other)
<1>r. own = Command(Own, n) /\ r = RemFromSendBuf(c, own, from)
  OBVIOUS
<1> HIDE DEF own, r
<1>1. /\ own \in Seq(Cells) /\ n = Len(own)
      /\ \A k \in 1 .. n : own[k].cmd = Own /\ own[k].pos = k
  <2>1. IsCommand(own, Own, n)
    <3>1. Own \in Nat
      BY DEF Own
    <3> QED BY <1>r, <3>1, CommandCells
  <2> QED BY <2>1 DEF IsCommand
<1>2. L \in Nat /\ z \in Nat
  BY LenProperties
<1>3. \E d \in {0, z} :
         /\ Len(t) = n + z
         /\ \A k \in 1 .. n : t[d + k] = own[k]
         /\ \A k \in 1 .. d : t[k] = other[k]
         /\ \A k \in d + 1 .. z : t[k + n] = other[k]
  <2>1. CASE t = own \o other
    <3>1. IsConcat(t, own, other)
      BY <1>1, <2>1, Concatenates
    <3>2. Len(t) = n + z /\ (\A k \in 1 .. n : t[0 + k] = own[k])
          /\ \A k \in 1 .. z : t[n + k] = other[k]
      BY <1>1, <3>1 DEF IsConcat
    <3>3. /\ \A k \in 1 .. 0 : t[k] = other[k]
          /\ \A k \in 0 + 1 .. z : t[k + n] = other[k]
      BY <1>2, <3>2
    <3> QED BY <3>2, <3>3
  <2>2. CASE t = other \o own
    <3>1. IsConcat(t, other, own)
      BY <1>1, <2>2, Concatenates
    <3>2. Len(t) = n + z /\ (\A k \in 1 .. n : t[z + k] = own[k])
          /\ \A k \in 1 .. z : t[k] = other[k]
      BY <1>1, <1>2, <3>1 DEF IsConcat
    <3>3. \A k \in z + 1 .. z : t[k + n] = other[k]
      BY <1>2
    <3> QED BY <3>2, <3>3
  <2> QED BY <2>1, <2>2 DEF own
<1>4. PICK d \in {0, z} :
         /\ Len(t) = n + z
         /\ \A k \in 1 .. n : t[d + k] = own[k]
         /\ \A k \in 1 .. d : t[k] = other[k]
         /\ \A k \in d + 1 .. z : t[k + n] = other[k]
  BY <1>3
<1>5. /\ c \in Seq(Cells) /\ Len(c) = L + (n + z) /\ Len(c) \in Nat
      /\ \A i \in 1 .. L : c[i] = b[i]
      /\ \A i \in 1 .. n + z : c[L + i] = t[i]
      /\ d \in Nat /\ d <= z
  BY <1>2, <1>4, LenProperties DEF IsConcat
<1>6. FoundAt(c, own, from, L + d)
  <2>1. ASSUME NEW k \in 1 .. n PROVE c[L + d + k] = own[k]
    <3>1. d + k \in 1 .. n + z /\ L + d + k = L + (d + k)
      BY <1>2, <1>5
    <3> QED BY <1>4, <1>5, <3>1
  <2> QED BY <1>1, <1>2, <1>5, <2>1 DEF FoundAt
<1>7. \A i \in Nat : FoundAt(c, own, from, i) => i = L + d
  <2> SUFFICES ASSUME NEW i \in Nat, FoundAt(c, own, from, i) PROVE i = L + d
    OBVIOUS
  <2>1. c[i + 1].cmd = Own /\ c[i + 1].pos = 1 /\ i + 1 <= Len(c)
    <3>1. 1 \in 1 .. n
      OBVIOUS
    <3> QED BY <1>1, <1>5, <3>1 DEF FoundAt
  <2>2. i + 1 > L
    <3>1. i + 1 \in 1 .. L => c[i + 1].cmd # Own
      BY <1>5
    <3> QED BY <1>2, <2>1, <3>1
  <2>3. PICK j \in 1 .. n + z : i + 1 = L + j
    <3>1. i + 1 - L \in 1 .. n + z /\ i + 1 = L + (i + 1 - L)
      BY <1>2, <1>5, <2>1, <2>2
    <3> QED BY <3>1
  <2>4. t[j].cmd = Own /\ t[j].pos = 1
    BY <1>5, <2>1, <2>3
  <2>5. ~(j <= d)
    <3>1. j <= d => j \in 1 .. d /\ j \in 1 .. z
      BY <1>2, <1>5
    <3> QED BY <1>4, <2>4, <3>1
  <2>6. ~(j > d + n)
    <3> SUFFICES ASSUME j > d + n PROVE FALSE
      OBVIOUS
    <3>1. j - n \in d + 1 .. z /\ j - n + n = j /\ j - n \in 1 .. z
      BY <1>2, <1>5
    <3> QED BY <1>4, <2>4, <3>1
  <2>7. j - d \in 1 .. n /\ d + (j - d) = j
    BY <1>2, <1>5, <2>5, <2>6
  <2>8. own[j - d].pos = 1
    BY <1>4, <2>4, <2>7
  <2>9. j - d = 1
    BY <1>1, <2>7, <2>8
  <2>10. d \in Nat /\ L \in Nat /\ j \in Int
    BY <1>2, <1>5
  <2> HIDE DEF L
  <2> QED BY <2>3, <2>9, <2>10
<1>8. /\ r \in Seq(Cells) /\ Len(r) + n = Len(c)
      /\ \A k \in 1 .. L + d : r[k] = c[k]
      /\ \A k \in L + d + 1 .. Len(r) : r[k] = c[k + n]
  <2>1. L + d \in Nat
    BY <1>2, <1>5
  <2>2. \E i \in Nat : /\ FoundAt(c, own, from, i)
                       /\ r \in Seq(Cells) /\ Len(r) + n = Len(c)
                       /\ \A k \in 1 .. i : r[k] = c[k]
                       /\ \A k \in i + 1 .. Len(r) : r[k] = c[k + n]
    <3>1. CutOut(r, c, own, from)
      BY <1>1, <1>5, <1>6, <1>r, <2>1, RemovesFirst
    <3> QED BY <1>1, <3>1 DEF CutOut
  <2> QED BY <1>7, <2>2
<1>9. Len(r) \in Nat /\ Len(r) = L + z
  BY <1>2, <1>5, <1>8, LenProperties
<1>10. \A i \in 1 .. L : r[i] = b[i]
  <2> SUFFICES ASSUME NEW i \in 1 .. L PROVE r[i] = b[i]
    OBVIOUS
  <2>1. i \in 1 .. L + d
    BY <1>2, <1>5
  <2> QED BY <1>5, <1>8, <2>1
<1>11. ASSUME NEW i \in 1 .. z PROVE r[L + i] = other[i]
  <2>1. CASE i <= d
    <3>1. L + i \in 1 .. L + d /\ i \in 1 .. n + z /\ i \in 1 .. d
      BY <1>2, <1>5, <2>1
    <3> QED BY <1>4, <1>5, <1>8, <3>1
  <2>2. CASE i > d
    <3>1. /\ L + i \in L + d + 1 .. Len(r) /\ L + i + n = L + (i + n)
          /\ i + n \in 1 .. n + z /\ i \in d + 1 .. z
      BY <1>2, <1>5, <1>9, <2>2
    <3>2. r[L + i] = c[L + i + n]
      BY <1>8, <3>1
    <3>3. c[L + (i + n)] = t[i + n]
      BY <1>5, <3>1
    <3>4. t[i + n] = other[i]
      BY <1>4, <3>1
    <3> QED BY <3>1, <3>2, <3>3, <3>4
  <2> QED BY <1>2, <1>5, <2>1, <2>2
<1> QED BY <1>8, <1>9, <1>10, <1>11 DEF IsConcat, r, own

LEMMA MoreWhole ==
    ASSUME NEW l, NEW b \in Seq(Cells), NEW h \in Nat, NEW m \in Nat, l \in Cells,
           Whole(l, b, h, m)
    PROVE  Whole(l, b, h, m + 1)
<1>1. \A i \in h .. Len(b) : CellAt(l, b, h, i).cmd <= m + 1
  <2> SUFFICES ASSUME NEW i \in h .. Len(b) PROVE CellAt(l, b, h, i).cmd <= m + 1
    OBVIOUS
  <2>1. CellAt(l, b, h, i).cmd <= m /\ CellAt(l, b, h, i).cmd \in Nat
    BY CellType DEF Whole, Cells
  <2> QED BY <2>1
<1> QED BY <1>1 DEF Whole

\* The next command behind a buffer that misses none.
LEMMA AppendGapless ==
    ASSUME NEW l, NEW b \in Seq(Cells), NEW h \in Nat, h <= Len(b), NEW m \in Nat,
           Gapless(l, b, h), CellAt(l, b, h, Len(b)).cmd = m,
           NEW len \in Nat, len > 0, NEW c, IsConcat(c, b, Command(m + 1, len))
    PROVE  Gapless(l, c, h) /\ CellAt(l, c, h, Len(c)).cmd = m + 1
<1> DEFINE L == Len(b)
<1>1. PICK t \in Seq(Cells) :
         /\ Len(t) = len /\ IsConcat(c, b, t)
         /\ \A i \in 1 .. len : t[i].cmd = m + 1 /\ (t[i].end => i = len)
  <2>1. m + 1 \in Nat
    OBVIOUS
  <2>2. PICK t : t = Command(m + 1, len)
    OBVIOUS
  <2>3. /\ t \in Seq(Cells) /\ Len(t) = len
        /\ \A i \in 1 .. len : t[i].cmd = m + 1 /\ (t[i].end => i = len)
    BY <2>1, <2>2, CommandCells DEF IsCommand
  <2> QED BY <2>2, <2>3
<1>2. /\ L \in Nat /\ Len(c) = L + len /\ c \in Seq(Cells)
      /\ \A i \in 1 .. L : c[i] = b[i]
      /\ \A i \in 1 .. len : c[L + i] = t[i]
  BY <1>1, LenProperties DEF IsConcat
<1>3. \A i \in L + 1 .. Len(c) : c[i].cmd = m + 1 /\ (c[i].end => i = Len(c))
  <2> SUFFICES ASSUME NEW i \in L + 1 .. Len(c)
               PROVE  c[i].cmd = m + 1 /\ (c[i].end => i = Len(c))
    OBVIOUS
  <2>1. i - L \in 1 .. len /\ L + (i - L) = i /\ (i - L = len => i = Len(c))
    BY <1>2
  <2> QED BY <1>1, <1>2, <2>1
<1>4. \A i \in 1 .. Len(c) : c[i].cmd # Own
  <2> SUFFICES ASSUME NEW i \in 1 .. Len(c) PROVE c[i].cmd # Own
    OBVIOUS
  <2>1. i \in 1 .. L \/ i \in L + 1 .. Len(c)
    BY <1>2
  <2> QED BY <1>2, <1>3, <2>1 DEF Gapless, Own
<1>5. \A i \in h .. L : CellAt(l, c, h, i) = CellAt(l, b, h, i)
  <2> SUFFICES ASSUME NEW i \in h .. L PROVE CellAt(l, c, h, i) = CellAt(l, b, h, i)
    OBVIOUS
  <2>1. i # h => i \in 1 .. L
    BY <1>2
  <2> QED BY <1>2, <2>1 DEF CellAt
<1>6. \A i \in L + 1 .. Len(c) : CellAt(l, c, h, i) = c[i]
  <2> SUFFICES ASSUME NEW i \in L + 1 .. Len(c) PROVE CellAt(l, c, h, i) = c[i]
    OBVIOUS
  <2>1. i # h
    BY <1>2
  <2> QED BY <2>1 DEF CellAt
<1>7. ASSUME NEW i \in h .. Len(c) - 1, CellAt(l, c, h, i).end
      PROVE  CellAt(l, c, h, i + 1).cmd = CellAt(l, c, h, i).cmd + 1
  <2>1. CASE i < L
    <3>1. i \in h .. L /\ i + 1 \in h .. L /\ i \in h .. L - 1
      BY <1>2, <2>1
    <3> QED BY <1>5, <1>7, <3>1 DEF Gapless
  <2>2. CASE i = L
    <3>1. i \in h .. L /\ i + 1 \in L + 1 .. Len(c)
      BY <1>2, <2>2
    <3>2. CellAt(l, c, h, i).cmd = m /\ CellAt(l, c, h, i + 1).cmd = m + 1
      BY <1>3, <1>5, <1>6, <2>2, <3>1
    <3> QED BY <3>2
  <2>3. CASE i > L
    <3>1. i \in L + 1 .. Len(c) /\ i # Len(c)
      BY <1>2, <2>3
    <3> QED BY <1>3, <1>6, <1>7, <3>1
  <2> QED BY <1>2, <2>1, <2>2, <2>3
<1>8. CellAt(l, c, h, Len(c)).cmd = m + 1
  <2>1. Len(c) \in L + 1 .. Len(c)
    BY <1>2
  <2> QED BY <1>3, <1>6, <2>1
<1> QED BY <1>4, <1>7, <1>8 DEF Gapless

\* The pending part of such a buffer misses none either.
LEMMA PendingGapless ==
    ASSUME TypeOK, InBounds, StreamWhole, Gapless(last, buf, head)
    PROVE  /\ Gapless(last, Pending, 0)
           /\ CellAt(last, Pending, 0, Len(Pending)) = CellAt(last, buf, head, Len(buf))
<1>1. /\ Len(Pending) = Len(buf) - head /\ Len(buf) \in Nat /\ head \in Nat
      /\ head <= Len(buf)
      /\ \A k \in 1 .. Len(Pending) : Pending[k] = buf[k + head]
  BY PendingWhole, LenProperties DEF TypeOK, InBounds
<1>2. ASSUME NEW k \in 0 .. Len(Pending)
      PROVE  CellAt(last, Pending, 0, k) = CellAt(last, buf, head, k + head)
  <2>1. CASE k = 0
    <3>1. k + head = head
      BY <1>1, <2>1
    <3> QED BY <2>1, <3>1 DEF CellAt
  <2>2. CASE k # 0
    <3>1. k \in 1 .. Len(Pending) /\ k + head # head
      BY <1>1, <2>2
    <3> QED BY <1>1, <2>2, <3>1 DEF CellAt
  <2> QED BY <2>1, <2>2
<1>3. \A k \in 1 .. Len(Pending) : Pending[k].cmd # Own
  <2> SUFFICES ASSUME NEW k \in 1 .. Len(Pending) PROVE Pending[k].cmd # Own
    OBVIOUS
  <2>1. k + head \in 1 .. Len(buf)
    BY <1>1
  <2> QED BY <1>1, <2>1 DEF Gapless
<1>4. ASSUME NEW k \in 0 .. Len(Pending) - 1, CellAt(last, Pending, 0, k).end
      PROVE  CellAt(last, Pending, 0, k + 1).cmd = CellAt(last, Pending, 0, k).cmd + 1
  <2>1. /\ k \in 0 .. Len(Pending) /\ k + 1 \in 0 .. Len(Pending)
        /\ k + head \in head .. Len(buf) - 1 /\ k + 1 + head = k + head + 1
    BY <1>1
  <2>2. /\ CellAt(last, Pending, 0, k) = CellAt(last, buf, head, k + head)
        /\ CellAt(last, Pending, 0, k + 1) = CellAt(last, buf, head, k + head + 1)
    <3>1. CellAt(last, Pending, 0, k + 1) = CellAt(last, buf, head, k + 1 + head)
      BY <1>2, <2>1
    <3> QED BY <1>2, <2>1, <3>1
  <2> QED BY <1>4, <2>1, <2>2 DEF Gapless
<1>5. CellAt(last, Pending, 0, Len(Pending)) = CellAt(last, buf, head, Len(buf))
  <2>1. Len(Pending) \in 0 .. Len(Pending) /\ Len(Pending) + head = Len(buf)
    BY <1>1
  <2> QED BY <1>2, <2>1
<1> QED BY <1>3, <1>4, <1>5 DEF Gapless

\* Where ProcessQueues looks for the search it has just put.
LEMMA SearchPlace ==
    ASSUME TypeOK, InBounds, StreamWhole, NEW n \in Nat, n > 0,
           NEW limit, NEW keep, NEW b, NEW h, Base(b, h, n, limit, keep),
           NEW from, from = SearchFrom(Len(buf), Len(b) + n)
    PROVE  /\ from \in Nat /\ h <= from
           /\ ~Thins(n, limit, keep) => from <= Len(b)
<1>1. /\ Len(buf) \in Nat /\ head \in Nat /\ head <= Len(buf)
      /\ Len(Pending) = Len(buf) - head
      /\ b \in Seq(Cells) /\ Len(b) \in Nat /\ h \in Nat /\ h <= Len(b)
  BY PendingWhole, LenProperties DEF TypeOK, InBounds, Base
<1>2. CASE b = buf /\ h = head
  <2>1. from = Len(buf)
    BY <1>1, <1>2 DEF SearchFrom
  <2> QED BY <1>1, <1>2, <2>1
<1>3. CASE b = Pending /\ h = 0 /\ head > n
  <2>1. from = 0
    BY <1>1, <1>3 DEF SearchFrom
  <2> QED BY <1>1, <1>3, <2>1
<1>4. CASE h = 0 /\ Thins(n, limit, keep)
  <2>1. from \in {0, Len(buf)}
    BY DEF SearchFrom
  <2> QED BY <1>1, <1>4, <2>1
<1> QED BY <1>2, <1>3, <1>4 DEF Base

\* What is left of a buffer that misses nothing, unless something is thrown away.
LEMMA BaseGapless ==
    ASSUME TypeOK, InBounds, StreamWhole, Gapless(last, buf, head),
           CellAt(last, buf, head, Len(buf)).cmd = made,
           NEW n, NEW limit, NEW keep, NEW b, NEW h, Base(b, h, n, limit, keep),
           ~Thins(n, limit, keep)
    PROVE  Gapless(last, b, h) /\ CellAt(last, b, h, Len(b)).cmd = made
BY PendingGapless DEF Base

\* A text that does not fit: the buffer stays as it is.
LEMMA OverflowStep ==
    ASSUME StreamInv, buf' = buf, head' = head, last' = last, made' = made + 1,
           error', thinned' \in BOOLEAN, thinned => thinned'
    PROVE  StreamWhole' /\ AllThere'
<1>1. /\ last \in Cells /\ buf \in Seq(Cells) /\ head \in Nat /\ made \in Nat
      /\ Whole(last, buf, head, made)
  BY LimitsAssumption DEF StreamInv, TypeOK, StreamWhole
<1>2. Whole(last, buf, head, made + 1)
  BY <1>1, MoreWhole
<1>3. StreamWhole'
  BY <1>2 DEF StreamWhole
<1>4. AllThere'
  BY DEF StreamInv, AllThere
<1> QED BY <1>3, <1>4

\* The next command is put behind what PutInSendBuf leaves.
LEMMA CommandBehind ==
    ASSUME StreamInv, ~error, NEW n, NEW limit, NEW keep, NEW b, NEW h,
           Base(b, h, n, limit, keep), NEW len \in Nat, len > 0,
           IsConcat(buf', b, Command(made + 1, len)), head' = h,
           last' = last, made' = made + 1,
           thinned' = (thinned \/ Thins(n, limit, keep))
    PROVE  StreamWhole' /\ AllThere'
<1>1. /\ last \in Cells /\ made \in Nat /\ b \in Seq(Cells) /\ h \in Nat /\ h <= Len(b)
      /\ Whole(last, b, h, made) /\ TypeOK /\ InBounds /\ StreamWhole
  BY LimitsAssumption DEF StreamInv, TypeOK, Base
<1>2. PICK t : t = Command(made + 1, len)
  OBVIOUS
<1>3. Text(t, made) /\ IsConcat(buf', b, t)
  <2>1. made + 1 \in {Own, made + 1}
    OBVIOUS
  <2> QED BY <1>1, <1>2, <2>1, CommandText
<1>4. StreamWhole'
  <2>1. Whole(last, buf', h, made + 1)
    <3>1. /\ buf' \in Seq(Cells) /\ Len(buf') = Len(b) + Len(t)
          /\ \A i \in 1 .. Len(b) : buf'[i] = b[i]
          /\ \A i \in 1 .. Len(t) : buf'[Len(b) + i] = t[i]
      BY <1>3 DEF IsConcat
    <3> QED BY <1>1, <1>3, <3>1, AppendWhole
  <2> QED BY <2>1 DEF StreamWhole
<1>5. AllThere'
  <2> SUFFICES ASSUME ~thinned, ~Thins(n, limit, keep)
               PROVE  /\ Gapless(last, buf', h)
                      /\ CellAt(last, buf', h, Len(buf')).cmd = made + 1
    BY DEF AllThere
  <2>1. Gapless(last, b, h) /\ CellAt(last, b, h, Len(b)).cmd = made
    BY <1>1, BaseGapless DEF StreamInv, AllThere
  <2> QED BY <1>1, <2>1, AppendGapless
<1> QED BY <1>4, <1>5

LEMMA SendCommandStream ==
    ASSUME StreamInv, NEW len \in Lengths, NEW limit \in Limits,
           NEW keep \in KeepSlow, NEW listing \in BOOLEAN,
           SendCommand(len, limit, keep, listing)
    PROVE  StreamWhole' /\ AllThere'
<1>1. /\ len \in Nat /\ len > 0 /\ limit \in Nat /\ made \in Nat /\ made + 1 \in Nat
      /\ keep \in BOOLEAN /\ TypeOK /\ InBounds /\ StreamWhole /\ ~error
      /\ thinned \in BOOLEAN
  BY LengthsAssumption, LimitsAssumption, SwitchesAssumption
  DEF SendCommand, StreamInv, TypeOK
<1>2. PICK t : t = Command(made + 1, len)
  OBVIOUS
<1>3. Text(t, made) /\ Len(t) = len
  <2>1. made + 1 \in {Own, made + 1}
    OBVIOUS
  <2>2. Text(t, made)
    BY <1>1, <1>2, <2>1, CommandText
  <2>3. Len(t) = len
    BY <1>1, <1>2, CommandCells DEF IsCommand
  <2> QED BY <2>2, <2>3
<1>4. PICK r : r = PutInSendBuf(t, limit, keep)
  OBVIOUS
<1>5. /\ buf' = r.buf /\ head' = r.head /\ error' = r.error /\ made' = made + 1
      /\ thinned' = (thinned \/ Thins(len, limit, keep))
      /\ last' = last
  BY <1>2, <1>4 DEF SendCommand, Becomes
<1>6. /\ Holds(r, t)
      /\ ~r.error => \E b, h : /\ Base(b, h, len, limit, keep)
                               /\ IsConcat(r.buf, b, t) /\ r.head = h
  BY <1>1, <1>3, <1>4, PutCases
<1>7. CASE r.error
  <2>1. r.buf = buf /\ r.head = head
    BY <1>6, <1>7 DEF Holds, Overflow
  <2>2. thinned' \in BOOLEAN /\ (thinned => thinned')
    BY <1>5
  <2> QED BY <1>5, <1>7, <2>1, <2>2, OverflowStep
<1>8. CASE ~r.error
  BY <1>1, <1>2, <1>5, <1>6, <1>8, CommandBehind
<1> QED BY <1>7, <1>8

LEMMA SendSearchesStream ==
    ASSUME StreamInv, NEW len \in Lengths, NEW ownLen \in Lengths,
           NEW limit \in Limits, NEW keep \in KeepSlow, NEW ownFirst \in BOOLEAN,
           SendSearches(len, ownLen, ownFirst, limit, keep)
    PROVE  StreamWhole' /\ AllThere'
<1>1. /\ len \in Nat /\ len > 0 /\ ownLen \in Nat /\ ownLen > 0 /\ limit \in Nat
      /\ made \in Nat /\ made + 1 \in Nat /\ len + ownLen \in Nat /\ len + ownLen > 0
      /\ keep \in BOOLEAN /\ TypeOK /\ InBounds /\ StreamWhole /\ ~error
      /\ thinned \in BOOLEAN /\ last \in Cells
  BY LengthsAssumption, LimitsAssumption, SwitchesAssumption
  DEF SendSearches, StreamInv, TypeOK
<1>o. Own \in Nat
  BY DEF Own
<1>2. PICK own : own = Command(Own, ownLen)
  OBVIOUS
<1>3. PICK other : other = Command(made + 1, len)
  OBVIOUS
<1>4. /\ Text(own, made) /\ Len(own) = ownLen /\ own \in Seq(Cells)
      /\ \A i \in 1 .. Len(own) : own[i].cmd = Own
  <2>1. Own \in {Own, made + 1}
    OBVIOUS
  <2>2. Text(own, made)
    BY <1>1, <1>2, <2>1, CommandText
  <2>3. /\ own \in Seq(Cells) /\ Len(own) = ownLen
        /\ \A i \in 1 .. ownLen : own[i].cmd = Own
    <3>1. IsCommand(own, Own, ownLen)
      BY <1>1, <1>2, <1>o, CommandCells
    <3> QED BY <3>1 DEF IsCommand
  <2> QED BY <2>2, <2>3
<1>5. /\ Text(other, made) /\ Len(other) = len /\ other \in Seq(Cells)
      /\ \A i \in 1 .. Len(other) : other[i].cmd = made + 1
  <2>1. made + 1 \in {Own, made + 1}
    OBVIOUS
  <2>2. Text(other, made)
    BY <1>1, <1>3, <2>1, CommandText
  <2>3. /\ other \in Seq(Cells) /\ Len(other) = len
        /\ \A i \in 1 .. len : other[i].cmd = made + 1
    <3>1. IsCommand(other, made + 1, len)
      BY <1>1, <1>3, CommandCells
    <3> QED BY <3>1 DEF IsCommand
  <2> QED BY <2>2, <2>3
<1>6. PICK t : t = IF ownFirst THEN own \o other ELSE other \o own
  OBVIOUS
<1>7. Text(t, made)
  BY <1>1, <1>4, <1>5, <1>6, TwoTexts
<1>8. Len(t) = len + ownLen /\ t \in {own \o other, other \o own}
  <2>1. Len(own \o other) = len + ownLen /\ Len(other \o own) = len + ownLen
    <3>1. /\ Len(own \o other) = Len(own) + Len(other)
          /\ Len(other \o own) = Len(other) + Len(own)
      BY <1>4, <1>5, ConcatProperties
    <3> QED BY <1>1, <1>4, <1>5, <3>1
  <2> QED BY <1>6, <2>1
<1>9. PICK r : r = PutInSendBuf(t, limit, keep)
  OBVIOUS
<1>10. /\ buf' = IF r.error THEN r.buf
                ELSE RemFromSendBuf(r.buf, own, SearchFrom(Len(buf), Len(r.buf)))
       /\ head' = r.head /\ error' = r.error /\ made' = made + 1
       /\ thinned' = (thinned \/ Thins(len + ownLen, limit, keep))
       /\ last' = last
  BY <1>2, <1>3, <1>6, <1>9 DEF SendSearches, Becomes
<1>11. /\ Holds(r, t)
       /\ ~r.error => \E b, h : /\ Base(b, h, Len(t), limit, keep)
                                /\ IsConcat(r.buf, b, t) /\ r.head = h
  BY <1>1, <1>7, <1>9, PutCases
<1>12. CASE r.error
  <2>1. r.buf = buf /\ r.head = head
    BY <1>11, <1>12 DEF Holds, Overflow
  <2>2. thinned' \in BOOLEAN /\ (thinned => thinned')
    BY <1>10
  <2> QED BY <1>10, <1>12, <2>1, <2>2, OverflowStep
<1>13. CASE ~r.error
  <2>1. PICK b, h : /\ Base(b, h, Len(t), limit, keep)
                    /\ IsConcat(r.buf, b, t) /\ r.head = h
    BY <1>11, <1>13
  <2>2. /\ b \in Seq(Cells) /\ h \in Nat /\ h <= Len(b) /\ Len(b) \in Nat
        /\ Whole(last, b, h, made)
        /\ r.buf \in Seq(Cells) /\ Len(r.buf) = Len(b) + Len(t) /\ h <= Len(r.buf)
    BY <1>1, <1>8, <2>1, LenProperties DEF Base, IsConcat
  <2>3. PICK from : from = SearchFrom(Len(buf), Len(r.buf))
    OBVIOUS
  <2>4. /\ from \in Nat /\ h <= from
        /\ ~Thins(Len(t), limit, keep) => from <= Len(b)
    BY <1>1, <1>8, <2>1, <2>2, <2>3, SearchPlace
  <2>5. buf' = RemFromSendBuf(r.buf, own, from)
    BY <1>10, <1>13, <2>3
  <2>6. StreamWhole'
    <3>1. Whole(last, r.buf, h, made + 1)
      BY <1>1, <1>7, <2>1, <2>2, AppendWhole, ZenonT(60) DEF IsConcat
    <3>2. Whole(last, buf', h, made + 1)
      BY <1>1, <1>2, <2>2, <2>4, <2>5, <3>1, RemoveWhole
    <3> QED BY <1>10, <2>1, <3>2 DEF StreamWhole
  <2>7. AllThere'
    <3> SUFFICES ASSUME ~thinned, ~Thins(len + ownLen, limit, keep)
                 PROVE  /\ Gapless(last, buf', h)
                        /\ CellAt(last, buf', h, Len(buf')).cmd = made + 1
      BY <1>10, <2>1 DEF AllThere
    <3>1. Gapless(last, b, h) /\ CellAt(last, b, h, Len(b)).cmd = made
      BY <1>1, <1>8, <2>1, BaseGapless DEF StreamInv, AllThere
    <3>2. \A i \in 1 .. Len(b) : b[i].cmd # Own
      BY <3>1 DEF Gapless
    <3>3. \A i \in 1 .. Len(other) : other[i].cmd # Own
      BY <1>1, <1>5 DEF Own
    <3>4. IsConcat(buf', b, other)
      BY <1>1, <1>2, <1>5, <1>8, <2>1, <2>2, <2>4, <2>5, <3>2, <3>3, RemovesOwn
    <3> QED BY <1>1, <1>3, <2>2, <3>1, <3>4, AppendGapless
  <2> QED BY <2>6, <2>7
<1> QED BY <1>12, <1>13

LEMMA TrySendStream ==
    ASSUME StreamInv, NEW k \in 1 .. Len(buf), SendsPart(k) \/ SendsAll(k)
    PROVE  StreamWhole' /\ AllThere'
<1>1. /\ buf \in Seq(Cells) /\ Len(buf) \in Nat /\ head \in Nat /\ head <= Len(buf)
      /\ k \in Nat /\ k > 0 /\ made \in Nat /\ last \in Cells
      /\ TypeOK /\ InBounds /\ StreamWhole /\ ~error
  BY LenProperties, LimitsAssumption
  DEF StreamInv, TypeOK, InBounds, SendsPart, SendsAll, Sends
<1>2. Len(Pending) = Len(buf) - head
  BY <1>1, PendingWhole
<1>3. /\ last' = buf[head + k] /\ thinned' = thinned /\ made' = made /\ error' = error
      /\ k <= Len(buf) - head
  BY <1>1, <1>2 DEF SendsPart, SendsAll, Sends
<1>4. CASE SendsPart(k)
  <2>1. head' = head + k /\ buf' = buf /\ k < Len(buf) - head
    BY <1>2, <1>4 DEF SendsPart
  <2>2. ASSUME NEW i \in head + k .. Len(buf)
        PROVE  /\ CellAt(buf[head + k], buf, head + k, i) = CellAt(last, buf, head, i)
               /\ i \in head .. Len(buf)
    <3>1. i # head /\ i \in head .. Len(buf)
      BY <1>1
    <3> QED BY <3>1 DEF CellAt
  <2>3. /\ Len(buf) \in head + k .. Len(buf) /\ Len(buf) + 0 = Len(buf)
        /\ \A i \in head + k .. Len(buf) - 1 :
              /\ i \in head + k .. Len(buf) /\ i + 1 \in head + k .. Len(buf)
              /\ i \in head .. Len(buf) - 1
    BY <1>1, <2>1
  <2>4. Whole(buf[head + k], buf, head + k, made)
    <3>1. \A i \in head + k .. Len(buf) :
             /\ CellAt(buf[head + k], buf, head + k, i).cmd <= made
             /\ CellAt(buf[head + k], buf, head + k, i).pos = 0 =>
                    CellAt(buf[head + k], buf, head + k, i).end
      BY <1>1, <2>2 DEF StreamWhole, Whole
    <3>2. \A i \in head + k .. Len(buf) - 1 :
             Continues(CellAt(buf[head + k], buf, head + k, i),
                   CellAt(buf[head + k], buf, head + k, i + 1))
      BY <1>1, <2>2, <2>3 DEF StreamWhole, Whole
    <3>3. \A i, j \in head + k .. Len(buf) : i < j =>
             Later(CellAt(buf[head + k], buf, head + k, i),
                   CellAt(buf[head + k], buf, head + k, j))
      BY <1>1, <2>2 DEF StreamWhole, Whole
    <3>4. CellAt(buf[head + k], buf, head + k, Len(buf)).end
      BY <1>1, <2>2, <2>3 DEF StreamWhole, Whole
    <3> QED BY <3>1, <3>2, <3>3, <3>4 DEF Whole
  <2>5. StreamWhole'
    BY <1>3, <2>1, <2>4 DEF StreamWhole
  <2>6. AllThere'
    <3> SUFFICES ASSUME ~thinned
                 PROVE  /\ Gapless(buf[head + k], buf, head + k)
                        /\ CellAt(buf[head + k], buf, head + k, Len(buf)).cmd = made
      BY <1>3, <2>1 DEF AllThere
    <3>1. Gapless(last, buf, head) /\ CellAt(last, buf, head, Len(buf)).cmd = made
      BY <1>1 DEF StreamInv, AllThere
    <3>2. \A i \in head + k .. Len(buf) - 1 :
             CellAt(buf[head + k], buf, head + k, i).end =>
             CellAt(buf[head + k], buf, head + k, i + 1).cmd =
             CellAt(buf[head + k], buf, head + k, i).cmd + 1
      BY <2>2, <2>3, <3>1 DEF Gapless
    <3>3. CellAt(buf[head + k], buf, head + k, Len(buf)).cmd = made
      BY <2>2, <2>3, <3>1
    <3> QED BY <3>1, <3>2, <3>3 DEF Gapless
  <2> QED BY <2>5, <2>6
<1>5. CASE SendsAll(k)
  <2>1. buf' = << >> /\ head' = 0 /\ last' = CellAt(last, buf, head, Len(buf))
    <3>1. head + k = Len(buf) /\ Len(buf) # head
      BY <1>1, <1>2, <1>5 DEF SendsAll
    <3> QED BY <1>3, <1>5, <3>1 DEF SendsAll, CellAt
  <2>2. /\ last'.end /\ last'.cmd <= made
        /\ Len(buf) \in head .. Len(buf)
    BY <1>1, <2>1 DEF StreamWhole, Whole
  <2>3. /\ Len(<< >>) = 0 /\ CellAt(last', << >>, 0, 0) = last'
        /\ \A i \in 0 .. 0 : i = 0
        /\ \A i \in 0 .. 0 - 1 : FALSE
    BY DEF CellAt
  <2>4. Whole(last', << >>, 0, made)
    <3>1. \A i \in 0 .. 0 : /\ CellAt(last', << >>, 0, i).cmd <= made
                            /\ CellAt(last', << >>, 0, i).end
      BY <2>2, <2>3
    <3>2. \A i, j \in 0 .. 0 : ~(i < j)
      OBVIOUS
    <3> QED BY <2>2, <2>3, <3>1, <3>2 DEF Whole
  <2>5. StreamWhole'
    BY <1>3, <2>1, <2>4 DEF StreamWhole
  <2>6. AllThere'
    <3> SUFFICES ASSUME ~thinned
                 PROVE  /\ Gapless(last', << >>, 0)
                        /\ CellAt(last', << >>, 0, 0).cmd = made
      BY <1>3, <2>1, <2>3 DEF AllThere
    <3>1. CellAt(last, buf, head, Len(buf)).cmd = made
      BY <1>1 DEF StreamInv, AllThere
    <3>2. Gapless(last', << >>, 0)
      <4>1. \A i \in 1 .. 0 : FALSE
        OBVIOUS
      <4> QED BY <2>3, <4>1 DEF Gapless
    <3> QED BY <2>1, <2>3, <3>1, <3>2
  <2> QED BY <2>5, <2>6
<1> QED BY <1>4, <1>5

LEMMA StreamInit == Init => StreamInv
<1> SUFFICES ASSUME Init PROVE StreamInv
  OBVIOUS
<1>1. TypeOK /\ InBounds
  BY BufferStarts
<1>2. /\ buf = << >> /\ head = 0 /\ last = Nothing /\ made = 0 /\ Len(buf) = 0
  BY DEF Init
<1>3. /\ CellAt(last, buf, head, 0) = last
      /\ last.cmd = 0 /\ last.end
      /\ \A i \in 0 .. 0 : i = 0
      /\ \A i \in 0 .. 0 - 1 : FALSE
      /\ \A i \in 1 .. 0 : FALSE
      /\ \A i, j \in 0 .. 0 : ~(i < j)
  BY <1>2 DEF CellAt, Nothing
<1>4. StreamWhole
  BY <1>2, <1>3 DEF StreamWhole, Whole
<1>5. AllThere
  BY <1>2, <1>3 DEF AllThere, Gapless
<1> QED BY <1>1, <1>4, <1>5 DEF StreamInv

LEMMA StreamStep == StreamInv /\ [Next]_vars => StreamInv'
<1> SUFFICES ASSUME StreamInv, [Next]_vars PROVE StreamInv'
  OBVIOUS
<1>1. TypeOK' /\ InBounds'
  BY BufferStep DEF StreamInv
<1>2. StreamWhole' /\ AllThere'
  <2>1. CASE SendFails
    <3>1. /\ UNCHANGED <<buf, head, last, made, thinned>> /\ error'
      BY <2>1 DEF SendFails
    <3> QED BY <3>1 DEF StreamInv, StreamWhole, AllThere
  <2>2. CASE UNCHANGED vars
    BY <2>2 DEF vars, StreamInv, StreamWhole, AllThere
  <2> QED BY <2>1, <2>2, SendCommandStream, SendSearchesStream, TrySendStream DEF Next
<1> QED BY <1>1, <1>2 DEF StreamInv

\* The stream as a sequence.
LEMMA StreamCells ==
    ASSUME StreamInv, NEW s, s = <<last>> \o Pending, NEW i \in 1 .. Len(s) - 1
    PROVE  \E j \in head .. Len(buf) - 1 :
              /\ s[i] = CellAt(last, buf, head, j)
              /\ s[i + 1] = CellAt(last, buf, head, j + 1)
<1>1. /\ Pending \in Seq(Cells) /\ Len(Pending) = Len(buf) - head
      /\ \A k \in 1 .. Len(Pending) : Pending[k] = buf[k + head]
      /\ last \in Cells /\ Len(buf) \in Nat /\ head \in Nat /\ head <= Len(buf)
  BY PendingWhole, LenProperties DEF StreamInv, TypeOK, InBounds
<1>2. PICK f \in Seq(Cells) : f = <<last>> /\ Len(f) = 1 /\ f[1] = last
  <2>1. <<last>> \in Seq(Cells)
    BY <1>1
  <2>2. Len(<<last>>) = 1 /\ <<last>>[1] = last
    OBVIOUS
  <2> QED BY <2>1, <2>2, Zenon
<1>3. IsConcat(s, f, Pending)
  BY <1>1, <1>2, Concatenates
<1>4. /\ Len(s) = 1 + Len(Pending) /\ s[1] = last
      /\ \A k \in 1 .. Len(Pending) : s[1 + k] = Pending[k]
  BY <1>2, <1>3 DEF IsConcat
<1>5. ASSUME NEW k \in 1 .. Len(s)
      PROVE  s[k] = CellAt(last, buf, head, head + (k - 1))
  <2>1. CASE k = 1
    <3>1. head + (k - 1) = head
      BY <1>1, <2>1
    <3> QED BY <1>4, <2>1, <3>1 DEF CellAt
  <2>2. CASE k # 1
    <3>1. /\ k - 1 \in 1 .. Len(Pending) /\ 1 + (k - 1) = k
          /\ k - 1 + head = head + (k - 1) /\ head + (k - 1) # head
      BY <1>1, <1>4, <2>2
    <3> QED BY <1>1, <1>4, <3>1 DEF CellAt
  <2> QED BY <2>1, <2>2
<1>6. /\ i \in 1 .. Len(s) /\ i + 1 \in 1 .. Len(s)
      /\ head + (i - 1) \in head .. Len(buf) - 1
      /\ head + (i + 1 - 1) = head + (i - 1) + 1
  BY <1>1, <1>4
<1>7. s[i + 1] = CellAt(last, buf, head, head + (i - 1) + 1)
  <2>1. s[i + 1] = CellAt(last, buf, head, head + (i + 1 - 1))
    BY <1>5, <1>6
  <2> QED BY <1>6, <2>1
<1> QED BY <1>5, <1>6, <1>7

\* What a user receives are whole commands in the order they were put, whatever
\* was compacted, thrown away to keep it and cut out of the buffer.
THEOREM CommandsWhole == Spec => []WholeCommands
<1>1. StreamInv => WholeCommands
  <2> SUFFICES ASSUME StreamInv PROVE WholeCommands
    OBVIOUS
  <2>1. PICK s : s = <<last>> \o Pending
    OBVIOUS
  <2>2. ASSUME NEW i \in 1 .. Len(s) - 1
        PROVE  IF s[i].end THEN s[i + 1].pos = 1 /\ (s[i].cmd < s[i + 1].cmd \/ s[i + 1].cmd = Own)
               ELSE s[i + 1].cmd = s[i].cmd /\ s[i + 1].pos = s[i].pos + 1
    <3>1. PICK j \in head .. Len(buf) - 1 :
             /\ s[i] = CellAt(last, buf, head, j)
             /\ s[i + 1] = CellAt(last, buf, head, j + 1)
      BY <2>1, StreamCells
    <3>2. j \in head .. Len(buf) /\ j + 1 \in head .. Len(buf) /\ j < j + 1
      BY LenProperties DEF StreamInv, TypeOK
    <3>3. /\ Continues(s[i], s[i + 1]) /\ Later(s[i], s[i + 1])
      BY <3>1, <3>2 DEF StreamInv, StreamWhole, Whole
    <3> QED BY <3>3 DEF Continues, Later
  <2> QED BY <2>1, <2>2 DEF WholeCommands, Adjacent
<1> QED BY <1>1, StreamInit, StreamStep, PTL DEF Spec

\* A user at whose price nothing was thrown away receives every command that was
\* put, and none twice.
THEOREM AllReceived == Spec => []NothingLost
<1>1. StreamInv => NothingLost
  <2> SUFFICES ASSUME StreamInv, ~thinned
               PROVE  Adjacent(LAMBDA a, b :
                         IF a.end THEN b.pos = 1 /\ b.cmd = a.cmd + 1
                         ELSE b.cmd = a.cmd /\ b.pos = a.pos + 1)
    BY DEF NothingLost
  <2>1. PICK s : s = <<last>> \o Pending
    OBVIOUS
  <2>2. ASSUME NEW i \in 1 .. Len(s) - 1
        PROVE  IF s[i].end THEN s[i + 1].pos = 1 /\ s[i + 1].cmd = s[i].cmd + 1
               ELSE s[i + 1].cmd = s[i].cmd /\ s[i + 1].pos = s[i].pos + 1
    <3>1. PICK j \in head .. Len(buf) - 1 :
             /\ s[i] = CellAt(last, buf, head, j)
             /\ s[i + 1] = CellAt(last, buf, head, j + 1)
      BY <2>1, StreamCells
    <3>2. Continues(s[i], s[i + 1]) /\ (s[i].end => s[i + 1].cmd = s[i].cmd + 1)
      BY <3>1 DEF StreamInv, StreamWhole, Whole, AllThere, Gapless
    <3> QED BY <3>2 DEF Continues
  <2> QED BY <2>1, <2>2 DEF Adjacent
<1> QED BY <1>1, StreamInit, StreamStep, PTL DEF Spec

\* The search of a user itself is cut out again wherever compaction and growth
\* have put it.
THEOREM OwnSearchCutOut == Spec => []OwnSearchRemoved
<1>1. StreamInv => OwnSearchRemoved
  BY DEF StreamInv, AllThere, Gapless, OwnSearchRemoved
<1> QED BY <1>1, StreamInit, StreamStep, PTL DEF Spec

(***************************************************************************)
(* The lists and the global queue (Broadcast).                             *)
(*                                                                         *)
(* What a client believes of a nick is the last word of what it heard, so  *)
(* the invariant speaks of last words: that of the waiting news is true    *)
(* and no hello, since a queue may be built for members who get none.      *)
(***************************************************************************)

(* What a queue says last of a nick is what its hearers believe of it.     *)

Silent(its, n) == \A i \in DOMAIN its : its[i].nick # n
Last(its, n, i) == /\ i \in DOMAIN its /\ its[i].nick = n
                   /\ \A j \in DOMAIN its : j > i => its[j].nick # n
Word(its, n) == IF Silent(its, n) THEN "none" ELSE its[CHOOSE i : Last(its, n, i)].kind

LEMMA ItemFields ==
    ASSUME NEW x \in Item
    PROVE  x.kind \in {"hello", "myinfo", "quit"} /\ x.nick \in Names
BY DEF Item

LEMMA LastExists ==
    ASSUME NEW its \in Seq(Item), NEW n, ~Silent(its, n)
    PROVE  \E i : Last(its, n, i)
<1> DEFINE S == {Len(its) - i : i \in {j \in DOMAIN its : its[j].nick = n}}
<1>1. Len(its) \in Nat /\ DOMAIN its = 1 .. Len(its)
  BY LenProperties
<1>2. S \subseteq Nat /\ S # {}
  <2>1. PICK i \in DOMAIN its : its[i].nick = n
    BY DEF Silent
  <2>2. Len(its) - i \in S
    BY <2>1
  <2> QED BY <1>1, <2>2
<1>3. Least(S) \in S /\ \A j \in S : Least(S) <= j
  <2> HIDE DEF S
  <2> QED BY <1>2, LeastElement
<1>4. PICK i \in DOMAIN its : its[i].nick = n /\ Least(S) = Len(its) - i
  BY <1>3
<1>5. ASSUME NEW j \in DOMAIN its, j > i, its[j].nick = n PROVE FALSE
  <2>1. Len(its) - j \in S
    BY <1>5
  <2>2. Len(its) - i <= Len(its) - j
    BY <1>3, <1>4, <2>1
  <2> QED BY <1>1, <1>5, <2>2
<1> QED BY <1>4, <1>5 DEF Last

LEMMA LastOnce ==
    ASSUME NEW its \in Seq(Item), NEW n, NEW i, NEW j, Last(its, n, i), Last(its, n, j)
    PROVE  i = j
<1>1. i \in DOMAIN its /\ j \in DOMAIN its /\ DOMAIN its = 1 .. Len(its) /\ Len(its) \in Nat
  BY LenProperties DEF Last
<1>2. ~(j > i) /\ ~(i > j)
  BY DEF Last
<1> QED BY <1>1, <1>2

LEMMA LastWord ==
    ASSUME NEW its \in Seq(Item), NEW n, NEW i, Last(its, n, i)
    PROVE  ~Silent(its, n) /\ Word(its, n) = its[i].kind
<1>1. ~Silent(its, n)
  BY DEF Silent, Last
<1>2. (CHOOSE j : Last(its, n, j)) = i
  <2>1. Last(its, n, CHOOSE j : Last(its, n, j))
    OBVIOUS
  <2> QED BY <2>1, LastOnce
<1> QED BY <1>1, <1>2 DEF Word

LEMMA WordType ==
    ASSUME NEW its \in Seq(Item), NEW n
    PROVE  /\ Word(its, n) \in {"none", "hello", "myinfo", "quit"}
           /\ Word(its, n) = "none" <=> Silent(its, n)
<1>1. CASE Silent(its, n)
  BY <1>1 DEF Word
<1>2. CASE ~Silent(its, n)
  <2>1. PICK i : Last(its, n, i)
    BY <1>2, LastExists
  <2>2. its[i] \in Item
    BY <2>1, ElementOfSeq, LenProperties DEF Last
  <2>3. its[i].kind \in {"hello", "myinfo", "quit"}
    BY <2>2, ItemFields
  <2> QED BY <1>2, <2>1, <2>3, LastWord
<1> QED BY <1>1, <1>2

LEMMA EmptyWord == ASSUME NEW n PROVE Word(<<>>, n) = "none"
BY DEF Word, Silent

LEMMA WordAppended ==
    ASSUME NEW its \in Seq(Item), NEW x \in Item, NEW n
    PROVE  Word(Append(its, x), n) = IF x.nick = n THEN x.kind ELSE Word(its, n)
<1> DEFINE t == Append(its, x)
           k == Len(its) + 1
<1>1. /\ t \in Seq(Item) /\ DOMAIN t = 1 .. k /\ t[k] = x /\ k \in Nat \ {0}
      /\ DOMAIN its = 1 .. k - 1
      /\ \A i \in 1 .. k - 1 : t[i] = its[i]
  BY AppendProperties, LenProperties
<1> HIDE DEF t, k
<1>2. CASE x.nick = n
  <2>1. Last(t, n, k)
    <3>1. k \in 1 .. k /\ \A j \in 1 .. k : ~(j > k)
      BY <1>1
    <3> QED BY <1>1, <1>2, <3>1 DEF Last
  <2>2. Word(t, n) = x.kind
    BY <1>1, <2>1, LastWord
  <2> QED BY <1>2, <2>2 DEF t
<1>3. CASE x.nick # n /\ Silent(its, n)
  <2>1. \A i \in 1 .. k : i = k \/ i \in 1 .. k - 1
    BY <1>1
  <2>2. Silent(t, n)
    BY <1>1, <1>3, <2>1 DEF Silent
  <2> QED BY <1>3, <2>2 DEF Word, t
<1>4. CASE x.nick # n /\ ~Silent(its, n)
  <2>1. PICK i : Last(its, n, i)
    BY <1>4, LastExists
  <2>2. i \in 1 .. k - 1 /\ t[i] = its[i]
    BY <1>1, <2>1 DEF Last
  <2>3. ASSUME NEW j \in 1 .. k, j > i PROVE t[j].nick # n
    <3>1. CASE j = k
      BY <1>1, <1>4, <3>1
    <3>2. CASE j \in 1 .. k - 1
      BY <1>1, <2>1, <2>3, <3>2 DEF Last
    <3> QED BY <1>1, <3>1, <3>2
  <2>4. Last(t, n, i)
    <3>1. i \in 1 .. k
      BY <1>1, <2>2
    <3>2. t[i].nick = n
      BY <2>1, <2>2 DEF Last
    <3> QED BY <1>1, <2>3, <3>1, <3>2 DEF Last
  <2>5. Word(t, n) = t[i].kind /\ Word(its, n) = its[i].kind
    BY <1>1, <2>1, <2>4, LastWord
  <2> QED BY <1>4, <2>2, <2>5 DEF t
<1> QED BY <1>2, <1>3, <1>4

\* A queue without hellos says the same, unless the last word is a hello.
LEMMA HearsWord ==
    ASSUME NEW its \in Seq(Item), NEW names, NEW h \in BOOLEAN, NEW n \in Names,
           h \/ Word(its, n) # "hello"
    PROVE  n \in Hear(names, [items |-> its, hellos |-> h])
             <=> IF Word(its, n) = "none" THEN n \in names ELSE Word(its, n) # "quit"
<1> DEFINE q == [items |-> its, hellos |-> h]
<1>1. q.items = its /\ q.hellos = h
  OBVIOUS
<1>2. \A i : i \in Of(q, n) <=> /\ i \in DOMAIN its /\ its[i].nick = n
                                /\ (its[i].kind = "hello" => h)
  BY <1>1 DEF Of
<1> HIDE DEF q
<1>3. CASE Silent(its, n)
  <2>1. Of(q, n) = {}
    BY <1>2, <1>3 DEF Silent
  <2>2. Word(its, n) = "none"
    BY <1>3, WordType
  <2> QED BY <2>1, <2>2 DEF Hear, q
<1>4. CASE ~Silent(its, n)
  <2>1. PICK i : Last(its, n, i)
    BY <1>4, LastExists
  <2>2. Word(its, n) = its[i].kind /\ Word(its, n) # "none"
    BY <1>4, <2>1, LastWord, WordType
  <2>3. i \in Of(q, n)
    BY <1>2, <2>1, <2>2 DEF Last
  <2>4. DOMAIN its \subseteq Nat
    BY LenProperties
  <2>5. \A j \in Of(q, n) : j <= i
    BY <1>2, <2>1, <2>4 DEF Last
  <2>6. ASSUME NEW j \in Of(q, n), \A k \in Of(q, n) : k <= j PROVE j = i
    <3>1. j <= i /\ i <= j /\ i \in Nat /\ j \in Nat
      BY <1>2, <2>3, <2>4, <2>5, <2>6
    <3> QED BY <3>1
  <2>7. n \in Hear(names, q) <=> its[i].kind # "quit"
    BY <1>1, <2>3, <2>5, <2>6 DEF Hear
  <2> QED BY <2>2, <2>7 DEF q
<1> QED BY <1>3, <1>4
-----------------------------------------------------------------------------
(* The inductive invariant.                                                *)

Clients == [st : {"none", "waits", "entering", "in"}, hidden : BOOLEAN, asks : BOOLEAN]
Visible(c) == Listed(c) /\ ~user[c].hidden

\* A nick has one connection, and stands on the lists while that is visible.
OneNick == \A c, d \in Conns :
    user[c].st # "none" /\ user[d].st # "none" /\ Nick[c] = Nick[d] => c = d
ListedRight == \A n \in Names :
    n \in listed <=> n \in bots \/ \E c \in Conns : Visible(c) /\ Nick[c] = n
CopiesRight == \A l \in ListsOf : deflated[l] \in {Stale, listed}
Loop == ~sending => todo = {} /\ DOMAIN built = {}
Visits == \A c \in Conns : (c \in todo => Listed(c)) /\ (~In(c) => known[c] = {})

\* What is said last of a nick is true of it, and no hello: members whose
\* queue is without hellos hear it too.
NewsRight == \A n \in Names \ untold :
    Word(news, n) # "none" => (Word(news, n) # "quit" <=> n \in listed)
HellosFollowed == \A n \in Names \ untold :
    Word(news, n) # "hello" /\ (Word(news, n) = "none" => Word(items, n) # "hello")

\* ViewsExact, nick by nick.
View(c, n) ==
    IF Word(news, n) # "none" THEN Word(news, n) # "quit"
    ELSE IF c \in todo /\ Word(items, n) # "none" THEN Word(items, n) # "quit"
    ELSE n \in known[c]
Views == \A c \in Conns, n \in Names \ untold : In(c) => (View(c, n) <=> n \in listed)

Membership == OneNick /\ ListedRight /\ Visits
Messages == NewsRight /\ HellosFollowed /\ Views
BroadcastInv == BroadcastTypeOK /\ Membership /\ Loop /\ CopiesRight /\ Messages

LEMMA ViewsAreExact ==
    ASSUME BroadcastTypeOK, Views
    PROVE  ViewsExact
<1> SUFFICES ASSUME NEW c \in Conns, In(c), NEW n \in Names \ untold
             PROVE  n \in WillKnow(c) <=> n \in listed
  <2>1. \A c \in Conns : WillKnow(c) \subseteq Names
    BY DEF WillKnow, Hear
  <2> QED BY <2>1 DEF ViewsExact, BroadcastTypeOK
<1>1. news \in Seq(Item) /\ items \in Seq(Item)
  BY DEF BroadcastTypeOK
<1>2. n \in Hear(known[c], All(items))
        <=> IF Word(items, n) = "none" THEN n \in known[c] ELSE Word(items, n) # "quit"
  BY <1>1, HearsWord DEF All
<1> DEFINE before == IF c \in todo THEN Hear(known[c], All(items)) ELSE known[c]
<1>3. n \in Hear(before, All(news))
        <=> IF Word(news, n) = "none" THEN n \in before ELSE Word(news, n) # "quit"
  <2> HIDE DEF before
  <2> QED BY <1>1, HearsWord DEF All
<1>4. n \in WillKnow(c) <=> View(c, n)
  BY <1>2, <1>3 DEF WillKnow, View
<1> QED BY <1>4 DEF Views

LEMMA InitHolds ==
    ASSUME BroadcastInit
    PROVE  BroadcastInv
<1>1. BroadcastTypeOK
  <2>1. <<>> \in Seq(Item) /\ DOMAIN <<>> = {}
    BY EmptySeq
  <2>2. deflated \in [Lists -> SUBSET (Names \cup Stale)]
    BY DEF BroadcastInit
  <2> QED BY <2>1, <2>2 DEF BroadcastInit, BroadcastTypeOK, Offline
<1>2. \A c \in Conns : ~Listed(c) /\ ~In(c) /\ user[c].st = "none"
  BY DEF BroadcastInit, Offline, Listed, In
<1>3. Membership
  BY <1>2 DEF BroadcastInit, Membership, OneNick, ListedRight, Visits, Visible
<1>4. Loop
  BY DEF BroadcastInit, Loop
<1>5. CopiesRight
  BY DEF BroadcastInit, CopiesRight, ListsOf, Lists
<1>6. Messages
  BY <1>2, EmptyWord DEF BroadcastInit, Messages, NewsRight, HellosFollowed, Views
<1> QED BY <1>1, <1>3, <1>4, <1>5, <1>6 DEF BroadcastInv
-----------------------------------------------------------------------------
(* What the steps have in common.                                          *)

\* Nothing is said of a nick, or the truth in the end.
Unsaid(n) == n \notin untold /\ Word(news', n) = Word(news, n)
             /\ (n \in listed' <=> n \in listed)
Said(n) == Word(news', n) \in {"myinfo", "quit"}
           /\ (Word(news', n) = "myinfo" <=> n \in listed')

LEMMA SpeaksRight ==
    ASSUME Messages, UNCHANGED items,
           \A n \in Names \ untold' : Unsaid(n) \/ Said(n),
           \A c \in Conns : In(c)' => /\ In(c) /\ known'[c] = known[c]
                                      /\ c \in todo' <=> c \in todo
    PROVE  Messages'
<1> SUFFICES ASSUME NEW n \in Names \ untold'
             PROVE  /\ Word(news', n) # "none" => (Word(news', n) # "quit" <=> n \in listed')
                    /\ Word(news', n) # "hello"
                    /\ Word(news', n) = "none" => Word(items', n) # "hello"
                    /\ \A c \in Conns : In(c)' => (View(c, n)' <=> n \in listed')
  BY DEF Messages, NewsRight, HellosFollowed, Views
<1>1. CASE Said(n)
  BY <1>1 DEF Said, View
<1>2. CASE Unsaid(n)
  <2>1. \A c \in Conns : In(c)' => (View(c, n)' <=> View(c, n))
    BY <1>2 DEF Unsaid, View
  <2> QED BY <1>2, <2>1 DEF Unsaid, Messages, NewsRight, HellosFollowed, Views
<1> QED BY <1>1, <1>2

\* One item, or two of the same nick.
LEMMA TellsOne ==
    ASSUME NEW n0 \in Names, NEW k \in {"myinfo", "quit", "hello"}, news \in Seq(Item),
           Tells(<<Told(k, n0)>>)
    PROVE  /\ news' \in Seq(Item)
           /\ \A n : Word(news', n) = IF n = n0 THEN k ELSE Word(news, n)
<1>1. Told(k, n0) \in Item /\ Told(k, n0).nick = n0 /\ Told(k, n0).kind = k
  BY DEF Told, Item
<1>2. news' = Append(news, Told(k, n0))
  BY <1>1, AppendIsConcat DEF Tells
<1> QED BY <1>1, <1>2, AppendProperties, WordAppended

LEMMA TellsTwo ==
    ASSUME NEW n0 \in Names, news \in Seq(Item),
           Tells(<<Told("hello", n0), Told("myinfo", n0)>>)
    PROVE  /\ news' \in Seq(Item)
           /\ \A n : Word(news', n) = IF n = n0 THEN "myinfo" ELSE Word(news, n)
<1> DEFINE x == Told("hello", n0)
           y == Told("myinfo", n0)
           s == Append(news, x)
<1>1. x \in Item /\ x.nick = n0 /\ y \in Item /\ y.nick = n0 /\ y.kind = "myinfo"
  BY DEF Told, Item
<1>2. s \in Seq(Item)
  BY <1>1, AppendProperties
<1>3. news' = Append(s, y)
  <2>1. news' = news \o <<x, y>>
    BY DEF Tells
  <2> HIDE DEF x, y
  <2> QED BY <1>1, <2>1
<1> HIDE DEF s
<1>4. news' \in Seq(Item)
  BY <1>1, <1>2, <1>3, AppendProperties
<1>5. \A n : Word(s, n) = IF n = n0 THEN x.kind ELSE Word(news, n)
  BY <1>1, WordAppended DEF s
<1>6. \A n : Word(news', n) = IF n = n0 THEN "myinfo" ELSE Word(s, n)
  BY <1>1, <1>2, <1>3, WordAppended
<1> QED BY <1>4, <1>5, <1>6

LEMMA UsedLists == ListsOf \subseteq Lists /\ \A f : ListsFor(f) \subseteq ListsOf
BY BroadcastAssumption DEF ListsOf, Lists, ListsFor, MyINFOs

\* A change of the lists that spoils every copy in use, or is none.
LEMMA ChangesKeep ==
    ASSUME BroadcastTypeOK, CopiesRight, NEW names \in SUBSET Names, NEW lists,
           Changes(names, lists), names = listed \/ ListsOf \subseteq lists
    PROVE  /\ listed' = names /\ CopiesRight'
           /\ deflated' \in [Lists -> SUBSET (Names \cup Stale)]
BY UsedLists DEF Changes, CopiesRight, BroadcastTypeOK

LEMMA CopiesKeep ==
    ASSUME BroadcastTypeOK, CopiesRight, NEW lists, NEW f, Copies(lists, f), UNCHANGED listed
    PROVE  CopiesRight' /\ deflated' \in [Lists -> SUBSET (Names \cup Stale)]
BY UsedLists DEF Copies, CopiesRight, BroadcastTypeOK

\* Whoever gets the lists, deflated or not, knows who is listed.
LEMMA ListsTell ==
    ASSUME CopiesRight', UNCHANGED listed, NEW c \in Conns
    PROVE  GetsLists(c) = known[c] \cup listed
<1>1. \A l \in ListsFor(Form[c]) : Sent(l, Form[c], deflated') = listed
  BY UsedLists DEF CopiesRight, Sent
<1>2. MyINFOs(Form[c]) \in ListsFor(Form[c])
  BY DEF ListsFor
<1> QED BY <1>1, <1>2 DEF GetsLists

\* A nick on the lists is that of a visible member, if it is a member's.
LEMMA ListedIfVisible ==
    ASSUME BroadcastTypeOK, Membership, NEW c \in Conns, user[c].st # "none"
    PROVE  Nick[c] \in Names /\ Nick[c] \notin Bots /\ (Nick[c] \in listed <=> Visible(c))
<1>1. Nick[c] \in Names /\ Nick[c] \notin Bots
  BY BroadcastAssumption DEF Names
<1>2. \A d \in Conns : Visible(d) /\ Nick[d] = Nick[c] => d = c
  BY DEF Membership, OneNick, Visible, Listed
<1> QED BY <1>1, <1>2 DEF Membership, ListedRight, BroadcastTypeOK
-----------------------------------------------------------------------------
(* Steps of a receive loop and of scripts.                                 *)

LEMMA ClientsTyped == BroadcastTypeOK => user \in [Conns -> Clients]
BY DEF BroadcastTypeOK, Clients

LEMMA LogInStep ==
    ASSUME BroadcastInv, NEW c \in Conns, LogIn(c)
    PROVE  BroadcastInv'
<1>1. /\ ~sending /\ user[c].st = "none" /\ NickFree(Nick[c])
      /\ user' = [user EXCEPT ![c] = [Offline EXCEPT !.st = "waits"]]
      /\ UNCHANGED <<listed, deflated, bots, news, items, built, sending, todo, visited,
                     known, untold>>
  BY DEF LogIn, Receiving, queue
<1>2. BroadcastTypeOK'
  BY <1>1 DEF BroadcastInv, BroadcastTypeOK, Offline
<1>3. \A d \in Conns : user'[d] = IF d = c THEN [Offline EXCEPT !.st = "waits"] ELSE user[d]
  BY <1>1 DEF BroadcastInv, BroadcastTypeOK
<1>4. \A d \in Conns : (Visible(d)' <=> Visible(d)) /\ (Listed(d)' <=> Listed(d)) /\ (In(d)' <=> In(d))
  BY <1>1, <1>3 DEF Visible, Listed, In, Offline
<1>5. OneNick'
  BY <1>1, <1>3 DEF BroadcastInv, Membership, OneNick, NickFree
<1>6. ListedRight' /\ Visits'
  BY <1>1, <1>4 DEF BroadcastInv, Membership, ListedRight, Visits
<1>7. Loop' /\ CopiesRight'
  BY <1>1 DEF BroadcastInv, Loop, CopiesRight
<1>8. Messages'
  <2>1. \A n \in Names \ untold' : Unsaid(n)
    BY <1>1 DEF Unsaid
  <2> QED BY <1>1, <1>4, <2>1, SpeaksRight DEF BroadcastInv
<1> QED BY <1>2, <1>5, <1>6, <1>7, <1>8 DEF BroadcastInv, Membership

\* A close, and the login it may make room for (TakeOver).
LEMMA CloseStep ==
    ASSUME BroadcastInv, NEW c \in Conns, NEW d0 \in Conns, NEW noQuit \in BOOLEAN,
           NEW users, Close(c, noQuit, users),
           UNCHANGED <<bots, items, built, sending, visited>>,
           user[c].st # "none", users[c] = Offline,
           users \in [Conns -> Clients],
           \A d \in Conns \ {c, d0} : users[d] = user[d],
           d0 # c => /\ users[d0] = [Offline EXCEPT !.st = "waits"]
                     /\ user[d0].st = "none" /\ Nick[d0] = Nick[c] /\ ~sending
    PROVE  BroadcastInv'
<1> DEFINE n0 == Nick[c]
<1>1. /\ user' = users /\ todo' = todo \ {c} /\ known' = [known EXCEPT ![c] = {}]
      /\ Tells(CloseTells(c, noQuit))
  BY DEF Close
<1>2. /\ n0 \in Names /\ n0 \notin Bots /\ (n0 \in listed <=> Visible(c))
  BY ListedIfVisible DEF BroadcastInv
<1>3. /\ listed' = IF Listed(c) THEN listed \ {n0} ELSE listed
      /\ CopiesRight' /\ deflated' \in [Lists -> SUBSET (Names \cup Stale)]
  <2>1. CASE Listed(c)
    <3>1. Changes(listed \ {n0}, IF n0 \in listed THEN ListsOf ELSE {})
      BY <2>1 DEF Close, Unlist
    <3>2. listed \ {n0} = listed \/ ListsOf \subseteq (IF n0 \in listed THEN ListsOf ELSE {})
      OBVIOUS
    <3>3. BroadcastTypeOK /\ CopiesRight /\ listed \ {n0} \in SUBSET Names
      BY DEF BroadcastInv, BroadcastTypeOK
    <3> QED BY <2>1, <3>1, <3>2, <3>3, ChangesKeep
  <2>2. CASE ~Listed(c)
    <3>1. UNCHANGED <<listed, deflated>>
      BY <2>2 DEF Close
    <3> QED BY <2>2, <3>1 DEF BroadcastInv, BroadcastTypeOK, CopiesRight
  <2> QED BY <2>1, <2>2
<1>4. untold' = IF Visible(c) /\ noQuit THEN untold \cup {n0} ELSE untold
  BY DEF Close, Visible
<1>5. /\ news' \in Seq(Item)
      /\ \A n : Word(news', n) =
           IF n = n0 /\ Visible(c) /\ ~noQuit THEN "quit" ELSE Word(news, n)
  <2>1. news \in Seq(Item)
    BY DEF BroadcastInv, BroadcastTypeOK
  <2>2. CASE Visible(c) /\ ~noQuit
    <3>1. Tells(<<Told("quit", n0)>>)
      BY <1>1, <2>2 DEF CloseTells, Visible
    <3> QED BY <1>2, <2>1, <2>2, <3>1, TellsOne
  <2>3. CASE ~(Visible(c) /\ ~noQuit)
    <3>1. news' = news \o <<>>
      BY <1>1, <2>3 DEF CloseTells, Visible, Tells
    <3>2. news' = news
      BY <2>1, <3>1, ConcatEmptySeq
    <3> QED BY <2>1, <2>3, <3>2
  <2> QED BY <2>2, <2>3
<1>6. \A d \in Conns : user'[d] = IF d = c THEN Offline
                                  ELSE IF d = d0 THEN [Offline EXCEPT !.st = "waits"] ELSE user[d]
  BY <1>1
<1>7. \A d \in Conns : /\ Visible(d)' <=> Visible(d) /\ d # c
                       /\ Listed(d)' <=> Listed(d) /\ d # c
                       /\ In(d)' <=> In(d) /\ d # c
  BY <1>6 DEF Visible, Listed, In, Offline
<1> HIDE DEF n0
<1>8. BroadcastTypeOK'
  <2>2. known' \in [Conns -> SUBSET Names] /\ untold' \subseteq Names /\ todo' \subseteq Conns
    BY <1>1, <1>2, <1>4 DEF BroadcastInv, BroadcastTypeOK
  <2>3. listed' \subseteq Names
    BY <1>3 DEF BroadcastInv, BroadcastTypeOK
  <2> QED BY <1>1, <1>3, <1>5, <2>2, <2>3 DEF BroadcastInv, BroadcastTypeOK, Clients
<1>9. OneNick'
  <2> SUFFICES ASSUME NEW d \in Conns, NEW e \in Conns, user'[d].st # "none",
                      user'[e].st # "none", Nick[d] = Nick[e]
               PROVE  d = e
    BY DEF OneNick
  <2>1. d # c /\ e # c
    BY <1>6 DEF Offline
  <2>2. \A x, y \in Conns : user[x].st # "none" /\ user[y].st # "none" /\ Nick[x] = Nick[y] => x = y
    BY DEF BroadcastInv, Membership, OneNick
  <2>3. CASE d # d0 /\ e # d0
    BY <1>6, <2>1, <2>2, <2>3
  <2>4. CASE d = d0 \/ e = d0
    BY <1>6, <2>1, <2>2, <2>4
  <2> QED BY <2>3, <2>4
<1>10. ListedRight'
  <2> SUFFICES ASSUME NEW n \in Names
               PROVE  n \in listed' <=> n \in bots' \/ \E d \in Conns : Visible(d)' /\ Nick[d] = n
    BY DEF ListedRight
  <2>1. n \in listed <=> n \in bots \/ \E d \in Conns : Visible(d) /\ Nick[d] = n
    BY DEF BroadcastInv, Membership, ListedRight
  <2>2. n \in listed' <=> n \in listed /\ ~(Visible(c) /\ n = n0)
    BY <1>2, <1>3 DEF Visible
  <2>3. \A d \in Conns : Visible(d) /\ Nick[d] = n0 /\ Visible(c) => d = c
    BY DEF BroadcastInv, Membership, OneNick, Visible, Listed, n0
  <2>4. n \in bots => n # n0
    BY <1>2 DEF BroadcastInv, BroadcastTypeOK
  <2> QED BY <1>7, <2>1, <2>2, <2>3, <2>4 DEF n0
<1>11. Visits'
  <2>1. \A d \in Conns : (d \in todo' => Listed(d)')
    BY <1>1, <1>7 DEF BroadcastInv, Membership, Visits
  <2>2. \A d \in Conns : (~In(d)' => known'[d] = {})
    BY <1>1, <1>7 DEF BroadcastInv, BroadcastTypeOK, Membership, Visits
  <2> QED BY <2>1, <2>2 DEF Visits
<1>12. Loop'
  BY <1>1 DEF BroadcastInv, Loop
<1>13. Messages'
  <2>1. ASSUME NEW n \in Names \ untold' PROVE Unsaid(n) \/ Said(n)
    <3>1. CASE n = n0 /\ Visible(c)
      BY <1>3, <1>4, <1>5, <2>1, <3>1 DEF Said, Visible
    <3>2. CASE ~(n = n0 /\ Visible(c))
      <4>1. n \in listed' <=> n \in listed
        BY <1>2, <1>3, <3>2
      <4> QED BY <1>4, <1>5, <2>1, <3>2, <4>1 DEF Unsaid
    <3> QED BY <3>1, <3>2
  <2>2. \A d \in Conns : In(d)' => /\ In(d) /\ known'[d] = known[d]
                                   /\ d \in todo' <=> d \in todo
    BY <1>1, <1>7 DEF BroadcastInv, BroadcastTypeOK
  <2> QED BY <2>1, <2>2, SpeaksRight DEF BroadcastInv
<1> QED BY <1>3, <1>8, <1>9, <1>10, <1>11, <1>12, <1>13 DEF BroadcastInv, Membership

LEMMA CloseUserStep ==
    ASSUME BroadcastInv, NEW c \in Conns, CloseUser(c)
    PROVE  BroadcastInv'
<1> DEFINE users == [user EXCEPT ![c] = Offline]
<1>1. /\ user[c].st # "none" /\ Close(c, FALSE, users)
      /\ UNCHANGED <<bots, items, built, sending, visited>>
  BY DEF CloseUser
<1>2. /\ users[c] = Offline /\ \A d \in Conns \ {c, c} : users[d] = user[d]
      /\ users \in [Conns -> Clients]
  BY DEF BroadcastInv, BroadcastTypeOK, Offline, Clients
<1> HIDE DEF users
<1>3. FALSE \in BOOLEAN /\ ~(c # c)
  OBVIOUS
<1> QED BY <1>1, <1>2, <1>3, CloseStep

LEMMA SendToVisitedFailsStep ==
    ASSUME BroadcastInv, SendToVisitedFails
    PROVE  BroadcastInv'
<1> DEFINE users == [user EXCEPT ![visited] = Offline]
<1>1. /\ visited \in Conns /\ user[visited].st # "none" /\ Close(visited, FALSE, users)
      /\ UNCHANGED <<bots, items, built, sending, visited>>
  BY DEF SendToVisitedFails, In, BroadcastInv, BroadcastTypeOK
<1>2. /\ users[visited] = Offline
      /\ users \in [Conns -> Clients]
      /\ \A d \in Conns \ {visited, visited} : users[d] = user[d]
  BY <1>1 DEF BroadcastInv, BroadcastTypeOK, Offline, Clients
<1> HIDE DEF users
<1>3. FALSE \in BOOLEAN /\ ~(visited # visited)
  OBVIOUS
<1> QED BY <1>1, <1>2, <1>3, CloseStep

LEMMA TakeOverStep ==
    ASSUME BroadcastInv, NEW c \in Conns, NEW ghost \in Conns, TakeOver(c, ghost)
    PROVE  BroadcastInv'
<1> DEFINE users == [user EXCEPT ![ghost] = Offline, ![c] = [Offline EXCEPT !.st = "waits"]]
<1>1. /\ ~sending /\ user[c].st = "none" /\ ghost # c /\ user[ghost].st # "none"
      /\ Nick[ghost] = Nick[c] /\ Close(ghost, Form[c].quick, users)
      /\ UNCHANGED <<bots, items, built, sending, visited>>
  BY DEF TakeOver, Receiving
<1>2. /\ users[ghost] = Offline
      /\ users \in [Conns -> Clients]
      /\ users[c] = [Offline EXCEPT !.st = "waits"]
      /\ \A d \in Conns \ {ghost, c} : users[d] = user[d]
  BY <1>1 DEF BroadcastInv, BroadcastTypeOK, Offline, Clients
<1> HIDE DEF users
<1>3. Form[c].quick \in BOOLEAN
  BY BroadcastAssumption DEF Forms
<1> QED BY <1>1, <1>2, <1>3, CloseStep

LEMMA EnterListsStep ==
    ASSUME BroadcastInv, NEW c \in Conns, EnterLists(c)
    PROVE  BroadcastInv'
<1> DEFINE n0 == Nick[c]
<1>1. /\ ~sending /\ user[c].st = "waits" /\ user' = [user EXCEPT ![c].st = "entering"]
      /\ UNCHANGED <<bots, items, built, sending, todo, visited, known>>
  BY DEF EnterLists, Receiving, queue
<1>2. n0 \in Names /\ n0 \notin Bots /\ (n0 \in listed <=> Visible(c)) /\ ~Listed(c)
  BY <1>1, ListedIfVisible DEF BroadcastInv, Listed
<1>3. \A d \in Conns : /\ user'[d].hidden = user[d].hidden
                       /\ user'[d].st = IF d = c THEN "entering" ELSE user[d].st
  BY <1>1, ClientsTyped DEF BroadcastInv, Clients
<1>4. \A d \in Conns : /\ Visible(d)' <=> IF d = c THEN ~user[c].hidden ELSE Visible(d)
                       /\ Listed(d)' <=> d = c \/ Listed(d)
                       /\ In(d)' <=> In(d)
  BY <1>1, <1>3 DEF Visible, Listed, In
<1>5. news \in Seq(Item)
  BY DEF BroadcastInv, BroadcastTypeOK
<1> HIDE DEF n0
<1>6. CASE user[c].hidden
  <2>1. Tells(<<Told("hello", n0)>>) /\ untold' = untold \cup {n0} /\ UNCHANGED <<listed, deflated>>
    BY <1>6 DEF EnterLists, n0
  <2>2. news' \in Seq(Item) /\ \A n : Word(news', n) = IF n = n0 THEN "hello" ELSE Word(news, n)
    BY <1>2, <1>5, <2>1, TellsOne
  <2>3. CopiesRight'
    BY <2>1 DEF BroadcastInv, CopiesRight
  <2>4. \A n \in Names \ untold' : Unsaid(n)
    BY <2>1, <2>2 DEF Unsaid
  <2>5. BroadcastTypeOK'
    BY <1>1, <1>2, <2>1, <2>2 DEF BroadcastInv, BroadcastTypeOK
  <2>6. ListedRight'
    BY <1>1, <1>2, <1>4, <1>6, <2>1 DEF BroadcastInv, Membership, ListedRight, Visible
  <2> QED BY <2>3, <2>4, <2>5, <2>6, <1>1, <1>3, <1>4, SpeaksRight
      DEF BroadcastInv, Membership, OneNick, Visits, Loop
<1>7. CASE ~user[c].hidden
  <2>1. /\ Tells(<<Told("hello", n0), Told("myinfo", n0)>>) /\ untold' = untold \ {n0}
        /\ Changes(listed \cup {n0}, ListsOf)
    BY <1>7 DEF EnterLists, Add2Userlist, n0
  <2>2. news' \in Seq(Item) /\ \A n : Word(news', n) = IF n = n0 THEN "myinfo" ELSE Word(news, n)
    BY <1>2, <1>5, <2>1, TellsTwo
  <2>3. /\ listed' = listed \cup {n0} /\ CopiesRight'
        /\ deflated' \in [Lists -> SUBSET (Names \cup Stale)]
    <3>1. listed \cup {n0} \in SUBSET Names /\ BroadcastTypeOK /\ CopiesRight
      BY <1>2 DEF BroadcastInv, BroadcastTypeOK
    <3> QED BY <2>1, <3>1, ChangesKeep
  <2>4. \A n \in Names \ untold' : Unsaid(n) \/ Said(n)
    BY <2>1, <2>2, <2>3 DEF Unsaid, Said
  <2>5. BroadcastTypeOK'
    BY <1>1, <1>2, <2>1, <2>2, <2>3 DEF BroadcastInv, BroadcastTypeOK
  <2>6. ListedRight'
    <3> SUFFICES ASSUME NEW n \in Names
                 PROVE  n \in listed' <=> n \in bots' \/ \E d \in Conns : Visible(d)' /\ Nick[d] = n
      BY DEF ListedRight
    <3>1. n \in listed <=> n \in bots \/ \E d \in Conns : Visible(d) /\ Nick[d] = n
      BY DEF BroadcastInv, Membership, ListedRight
    <3>2. ~Visible(c)
      BY <1>2 DEF Visible
    <3> QED BY <1>1, <1>4, <1>7, <2>3, <3>1, <3>2 DEF n0
  <2> QED BY <2>3, <2>4, <2>5, <2>6, <1>1, <1>3, <1>4, SpeaksRight
      DEF BroadcastInv, Membership, OneNick, Visits, Loop
<1> QED BY <1>6, <1>7

LEMMA RefreshStep ==
    ASSUME BroadcastInv, NEW c \in Conns, Refresh(c)
    PROVE  BroadcastInv'
<1> DEFINE n0 == Nick[c]
<1>1. /\ Visible(c) /\ Changes(listed \cup {n0}, ListsOf \ {"nicks"})
      /\ Tells(<<Told("myinfo", n0)>>)
      /\ UNCHANGED <<user, bots, items, built, sending, todo, visited, known, untold>>
  BY DEF Refresh, Visible, Listed, In, queue
<1>2. n0 \in Names /\ n0 \in listed
  BY <1>1, ListedIfVisible DEF BroadcastInv, Visible, Listed
<1>3. BroadcastTypeOK /\ CopiesRight /\ news \in Seq(Item)
  BY DEF BroadcastInv, BroadcastTypeOK
<1> HIDE DEF n0
<1>4. listed \cup {n0} = listed /\ listed \in SUBSET Names
  BY <1>2, <1>3 DEF BroadcastTypeOK
<1>5. /\ listed' = listed /\ CopiesRight'
      /\ deflated' \in [Lists -> SUBSET (Names \cup Stale)]
  <2>1. Changes(listed, ListsOf \ {"nicks"})
    BY <1>1, <1>4
  <2> QED BY <1>3, <1>4, <2>1, ChangesKeep
<1>6. news' \in Seq(Item) /\ \A n : Word(news', n) = IF n = n0 THEN "myinfo" ELSE Word(news, n)
  BY <1>1, <1>2, <1>3, TellsOne
<1>7. BroadcastTypeOK'
  BY <1>1, <1>5, <1>6 DEF BroadcastInv, BroadcastTypeOK
<1>8. Membership' /\ Loop'
  BY <1>1, <1>5 DEF BroadcastInv, Membership, OneNick, ListedRight, Visits, Loop, Visible, Listed, In
<1>9. Messages'
  <2>1. \A n \in Names \ untold' : Unsaid(n) \/ Said(n)
    BY <1>1, <1>2, <1>5, <1>6 DEF Unsaid, Said
  <2> QED BY <1>1, <2>1, SpeaksRight DEF BroadcastInv, In
<1> QED BY <1>5, <1>7, <1>8, <1>9 DEF BroadcastInv

LEMMA GetNickListStep ==
    ASSUME BroadcastInv, NEW c \in Conns, GetNickList(c)
    PROVE  BroadcastInv'
<1>1. /\ user' = [user EXCEPT ![c].asks = TRUE]
      /\ UNCHANGED <<listed, deflated, bots, news, items, built, sending, todo, visited,
                     known, untold>>
  BY DEF GetNickList, queue
<1>2. BroadcastTypeOK'
  <2>1. user' \in [Conns -> Clients]
    BY <1>1, ClientsTyped DEF BroadcastInv, Clients
  <2> QED BY <1>1, <2>1 DEF BroadcastInv, BroadcastTypeOK, Clients
<1>3. \A d \in Conns : user'[d].st = user[d].st /\ user'[d].hidden = user[d].hidden
  BY <1>1, ClientsTyped DEF BroadcastInv, Clients
<1>4. \A d \in Conns : (Visible(d)' <=> Visible(d)) /\ (Listed(d)' <=> Listed(d)) /\ (In(d)' <=> In(d))
  BY <1>3 DEF Visible, Listed, In
<1>5. Membership' /\ Loop' /\ CopiesRight'
  BY <1>1, <1>3, <1>4
  DEF BroadcastInv, Membership, OneNick, ListedRight, Visits, Loop, CopiesRight
<1>6. Messages'
  <2>1. \A n \in Names \ untold' : Unsaid(n)
    BY <1>1 DEF Unsaid
  <2> QED BY <1>1, <1>4, <2>1, SpeaksRight DEF BroadcastInv
<1> QED BY <1>2, <1>5, <1>6 DEF BroadcastInv

LEMMA HideUserStep ==
    ASSUME BroadcastInv, NEW c \in Conns, HideUser(c)
    PROVE  BroadcastInv'
<1> DEFINE n0 == Nick[c]
<1>1. /\ user[c].st # "none" /\ ~user[c].hidden /\ user' = [user EXCEPT ![c].hidden = TRUE]
      /\ UNCHANGED <<bots, items, built, sending, todo, visited, known, untold>>
  BY DEF HideUser, queue
<1>2. n0 \in Names /\ n0 \notin Bots /\ (n0 \in listed <=> Listed(c))
  BY <1>1, ListedIfVisible DEF BroadcastInv, Visible
<1>3. \A d \in Conns : /\ user'[d].hidden = (d = c \/ user[d].hidden)
                       /\ user'[d].st = user[d].st
  BY <1>1, ClientsTyped DEF BroadcastInv, Clients
<1>4. \A d \in Conns : /\ Visible(d)' <=> Visible(d) /\ d # c
                       /\ (Listed(d)' <=> Listed(d)) /\ (In(d)' <=> In(d))
  BY <1>1, <1>3 DEF Visible, Listed, In
<1>5. BroadcastTypeOK /\ CopiesRight /\ news \in Seq(Item)
  BY DEF BroadcastInv, BroadcastTypeOK
<1> HIDE DEF n0
<1>6. /\ listed' = listed \ {n0} /\ CopiesRight'
      /\ deflated' \in [Lists -> SUBSET (Names \cup Stale)]
  <2>1. CASE Listed(c)
    <3>1. Changes(listed \ {n0}, IF n0 \in listed THEN ListsOf ELSE {})
      BY <2>1 DEF HideUser, Unlist, n0
    <3>2. listed \ {n0} \in SUBSET Names /\ ListsOf \subseteq (IF n0 \in listed THEN ListsOf ELSE {})
      BY <1>2, <1>5, <2>1 DEF BroadcastTypeOK
    <3> QED BY <1>5, <3>1, <3>2, ChangesKeep
  <2>2. CASE ~Listed(c)
    <3>1. UNCHANGED <<listed, deflated>>
      BY <2>2 DEF HideUser
    <3> QED BY <1>2, <2>2, <3>1 DEF BroadcastInv, BroadcastTypeOK, CopiesRight
  <2> QED BY <2>1, <2>2
<1>7. /\ news' \in Seq(Item)
      /\ \A n : Word(news', n) = IF n = n0 /\ Listed(c) THEN "quit" ELSE Word(news, n)
  <2>1. CASE Listed(c)
    <3>1. Tells(<<Told("quit", n0)>>)
      BY <2>1 DEF HideUser, n0
    <3> QED BY <1>2, <1>5, <2>1, <3>1, TellsOne
  <2>2. CASE ~Listed(c)
    <3>1. news' = news
      BY <2>2 DEF HideUser
    <3> QED BY <1>5, <2>2, <3>1
  <2> QED BY <2>1, <2>2
<1>8. BroadcastTypeOK'
  <2>1. user' \in [Conns -> Clients]
    BY <1>1, <1>5, ClientsTyped DEF Clients
  <2>2. listed' \subseteq Names
    BY <1>5, <1>6 DEF BroadcastTypeOK
  <2> QED BY <1>1, <1>5, <1>6, <1>7, <2>1, <2>2 DEF BroadcastTypeOK, Clients
<1>9. ListedRight'
  <2> SUFFICES ASSUME NEW n \in Names
               PROVE  n \in listed' <=> n \in bots' \/ \E d \in Conns : Visible(d)' /\ Nick[d] = n
    BY DEF ListedRight
  <2>1. n \in listed <=> n \in bots \/ \E d \in Conns : Visible(d) /\ Nick[d] = n
    BY DEF BroadcastInv, Membership, ListedRight
  <2>2. \A d \in Conns : Visible(d) /\ Nick[d] = n0 => d = c
    BY <1>1 DEF BroadcastInv, Membership, OneNick, Visible, Listed, n0
  <2>3. n \in bots => n # n0
    BY <1>2 DEF BroadcastInv, BroadcastTypeOK
  <2> QED BY <1>1, <1>4, <1>6, <2>1, <2>2, <2>3 DEF n0
<1>10. OneNick' /\ Visits' /\ Loop'
  BY <1>1, <1>3, <1>4 DEF BroadcastInv, Membership, OneNick, Visits, Loop
<1>11. Messages'
  <2>1. \A n \in Names \ untold' : Unsaid(n) \/ Said(n)
    BY <1>1, <1>2, <1>6, <1>7 DEF Unsaid, Said
  <2> QED BY <1>1, <1>4, <2>1, SpeaksRight DEF BroadcastInv
<1> QED BY <1>6, <1>8, <1>9, <1>10, <1>11 DEF BroadcastInv, Membership

LEMMA UnhideUserStep ==
    ASSUME BroadcastInv, NEW c \in Conns, UnhideUser(c)
    PROVE  BroadcastInv'
<1> DEFINE n0 == Nick[c]
<1>1. /\ user[c].hidden /\ user' = [user EXCEPT ![c].hidden = FALSE]
      /\ UNCHANGED <<bots, items, built, sending, todo, visited, known>>
  BY DEF UnhideUser, queue
<1>2. n0 \in Names
  BY DEF Names
<1>3. \A d \in Conns : /\ user'[d].hidden = (d # c /\ user[d].hidden)
                       /\ user'[d].st = user[d].st
  BY <1>1, ClientsTyped DEF BroadcastInv, Clients
<1>4. \A d \in Conns : /\ Visible(d)' <=> Visible(d) \/ (d = c /\ Listed(c))
                       /\ (Listed(d)' <=> Listed(d)) /\ (In(d)' <=> In(d))
  BY <1>1, <1>3 DEF Visible, Listed, In
<1>5. BroadcastTypeOK /\ CopiesRight /\ news \in Seq(Item)
  BY DEF BroadcastInv, BroadcastTypeOK
<1> HIDE DEF n0
<1>6. CASE Listed(c)
  <2>1. /\ Changes(listed \cup {n0}, ListsOf) /\ Tells(<<Told("myinfo", n0)>>)
        /\ untold' = untold \ {n0}
    BY <1>6 DEF UnhideUser, Add2Userlist, n0
  <2>2. news' \in Seq(Item) /\ \A n : Word(news', n) = IF n = n0 THEN "myinfo" ELSE Word(news, n)
    BY <1>2, <1>5, <2>1, TellsOne
  <2>3. /\ listed' = listed \cup {n0} /\ CopiesRight'
        /\ deflated' \in [Lists -> SUBSET (Names \cup Stale)]
    <3>1. listed \cup {n0} \in SUBSET Names
      BY <1>2, <1>5 DEF BroadcastTypeOK
    <3> QED BY <1>5, <2>1, <3>1, ChangesKeep
  <2>4. BroadcastTypeOK'
    <3>1. listed' \subseteq Names /\ untold' \subseteq Names
      BY <1>2, <1>5, <2>1, <2>3 DEF BroadcastTypeOK
    <3>2. user' \in [Conns -> Clients]
      BY <1>1, <1>5, ClientsTyped DEF Clients
    <3> QED BY <1>1, <1>5, <2>2, <2>3, <3>1, <3>2 DEF BroadcastTypeOK, Clients
  <2>5. ListedRight'
    <3> SUFFICES ASSUME NEW n \in Names
                 PROVE  n \in listed' <=> n \in bots' \/ \E d \in Conns : Visible(d)' /\ Nick[d] = n
      BY DEF ListedRight
    <3>1. n \in listed <=> n \in bots \/ \E d \in Conns : Visible(d) /\ Nick[d] = n
      BY DEF BroadcastInv, Membership, ListedRight
    <3> QED BY <1>1, <1>4, <1>6, <2>3, <3>1 DEF n0
  <2>6. OneNick' /\ Visits' /\ Loop'
    BY <1>1, <1>3, <1>4 DEF BroadcastInv, Membership, OneNick, Visits, Loop
  <2>7. Messages'
    <3>1. \A n \in Names \ untold' : Unsaid(n) \/ Said(n)
      BY <2>1, <2>2, <2>3 DEF Unsaid, Said
    <3> QED BY <1>1, <1>4, <3>1, SpeaksRight DEF BroadcastInv
  <2> QED BY <2>3, <2>4, <2>5, <2>6, <2>7 DEF BroadcastInv, Membership
<1>7. CASE ~Listed(c)
  <2>1. UNCHANGED <<listed, deflated, news, untold>>
    BY <1>7 DEF UnhideUser
  <2>2. BroadcastTypeOK'
    <3>1. user' \in [Conns -> Clients]
      BY <1>1, ClientsTyped DEF BroadcastInv, Clients
    <3> QED BY <1>1, <1>5, <2>1, <3>1 DEF BroadcastTypeOK, Clients
  <2>3. Membership' /\ Loop' /\ CopiesRight'
    BY <1>1, <1>3, <1>4, <1>7, <2>1
    DEF BroadcastInv, Membership, OneNick, ListedRight, Visits, Loop, CopiesRight
  <2>4. Messages'
    <3>1. \A n \in Names \ untold' : Unsaid(n)
      BY <2>1 DEF Unsaid
    <3> QED BY <1>1, <1>4, <3>1, SpeaksRight DEF BroadcastInv
  <2> QED BY <2>2, <2>3, <2>4 DEF BroadcastInv
<1> QED BY <1>6, <1>7

\* RegBot makes the copy of the other list stale: right if both are in use.
LEMMA RegBotStep ==
    ASSUME BroadcastInv, FullMyINFOOption = 1, NEW b \in Bots, RegBot(b)
    PROVE  BroadcastInv'
<1>1. /\ bots' = bots \cup {b} /\ Changes(listed \cup {b}, {"nicks"} \cup OtherList)
      /\ Tells(<<Told("hello", b), Told("myinfo", b)>>)
      /\ UNCHANGED <<user, items, built, sending, todo, visited, known, untold>>
  BY DEF RegBot, queue
<1>2. b \in Names /\ BroadcastTypeOK /\ CopiesRight /\ news \in Seq(Item)
  BY DEF Names, BroadcastInv, BroadcastTypeOK
<1>3. ListsOf \subseteq {"nicks"} \cup OtherList
  BY DEF ListsOf, OtherList
<1>4. /\ listed' = listed \cup {b} /\ CopiesRight'
      /\ deflated' \in [Lists -> SUBSET (Names \cup Stale)]
  <2>1. listed \cup {b} \in SUBSET Names
    BY <1>2 DEF BroadcastTypeOK
  <2> QED BY <1>1, <1>2, <1>3, <2>1, ChangesKeep
<1>5. news' \in Seq(Item) /\ \A n : Word(news', n) = IF n = b THEN "myinfo" ELSE Word(news, n)
  BY <1>1, <1>2, TellsTwo
<1>6. BroadcastTypeOK'
  <2>1. listed' \subseteq Names /\ bots' \subseteq Bots
    BY <1>1, <1>2, <1>4 DEF BroadcastTypeOK
  <2> QED BY <1>1, <1>2, <1>4, <1>5, <2>1 DEF BroadcastTypeOK
<1>7. Membership' /\ Loop'
  BY <1>1, <1>4 DEF BroadcastInv, Membership, OneNick, ListedRight, Visits, Loop, Visible, Listed, In
<1>8. Messages'
  <2>1. \A n \in Names \ untold' : Unsaid(n) \/ Said(n)
    BY <1>1, <1>4, <1>5 DEF Unsaid, Said
  <2> QED BY <1>1, <2>1, SpeaksRight DEF BroadcastInv, In
<1> QED BY <1>4, <1>6, <1>7, <1>8 DEF BroadcastInv

LEMMA UnregBotStep ==
    ASSUME BroadcastInv, NEW b \in Bots, UnregBot(b)
    PROVE  BroadcastInv'
<1>1. /\ b \in bots /\ bots' = bots \ {b} /\ Unlist(b) /\ Tells(<<Told("quit", b)>>)
      /\ UNCHANGED <<user, items, built, sending, todo, visited, known, untold>>
  BY DEF UnregBot, queue
<1>2. b \in Names /\ BroadcastTypeOK /\ CopiesRight /\ news \in Seq(Item)
  BY DEF Names, BroadcastInv, BroadcastTypeOK
<1>3. b \in listed /\ \A d \in Conns : Nick[d] # b
  BY <1>1, <1>2, BroadcastAssumption DEF BroadcastInv, Membership, ListedRight
<1>4. /\ listed' = listed \ {b} /\ CopiesRight'
      /\ deflated' \in [Lists -> SUBSET (Names \cup Stale)]
  <2>1. listed \ {b} \in SUBSET Names /\ Changes(listed \ {b}, ListsOf)
    BY <1>1, <1>2, <1>3 DEF BroadcastTypeOK, Unlist
  <2> QED BY <1>2, <2>1, ChangesKeep
<1>5. news' \in Seq(Item) /\ \A n : Word(news', n) = IF n = b THEN "quit" ELSE Word(news, n)
  BY <1>1, <1>2, TellsOne
<1>6. BroadcastTypeOK'
  BY <1>1, <1>4, <1>5 DEF BroadcastInv, BroadcastTypeOK
<1>7. Membership' /\ Loop'
  BY <1>1, <1>3, <1>4 DEF BroadcastInv, Membership, OneNick, ListedRight, Visits, Loop, Visible, Listed, In
<1>8. Messages'
  <2>1. \A n \in Names \ untold' : Unsaid(n) \/ Said(n)
    BY <1>1, <1>4, <1>5 DEF Unsaid, Said
  <2> QED BY <1>1, <2>1, SpeaksRight DEF BroadcastInv, In
<1> QED BY <1>4, <1>6, <1>7, <1>8 DEF BroadcastInv

LEMMA PingerListsStep ==
    ASSUME BroadcastInv, NEW f, PingerLists(f)
    PROVE  BroadcastInv'
<1>1. UNCHANGED <<user, listed, bots, news, items, built, sending, todo, visited, known, untold>>
  BY DEF PingerLists, queue
<1>2. PICK lists : Copies(lists, f)
  BY DEF PingerLists
<1>3. CopiesRight' /\ deflated' \in [Lists -> SUBSET (Names \cup Stale)]
  BY <1>1, <1>2, CopiesKeep DEF BroadcastInv
<1>4. BroadcastTypeOK'
  BY <1>1, <1>3 DEF BroadcastInv, BroadcastTypeOK
<1>5. Membership' /\ Loop'
  BY <1>1 DEF BroadcastInv, Membership, OneNick, ListedRight, Visits, Loop, Visible, Listed, In
<1>6. Messages'
  <2>1. \A n \in Names \ untold' : Unsaid(n)
    BY <1>1 DEF Unsaid
  <2> QED BY <1>1, <2>1, SpeaksRight DEF BroadcastInv, In
<1> QED BY <1>3, <1>4, <1>5, <1>6 DEF BroadcastInv
-----------------------------------------------------------------------------
(* The send loop.                                                          *)

\* What waits becomes what is sent, to everybody that is a member.
LEMMA BeginSendStep ==
    ASSUME BroadcastInv, BeginSend
    PROVE  BroadcastInv'
<1>1. /\ ~sending /\ sending' = TRUE /\ visited' = NoConn
      /\ todo' = {c \in Conns : Listed(c)} /\ items' = news /\ news' = <<>>
      /\ UNCHANGED <<user, listed, deflated, bots, built, known, untold>>
  BY DEF BeginSend
<1>2. todo = {} /\ DOMAIN built = {}
  BY <1>1 DEF BroadcastInv, Loop
<1>3. BroadcastTypeOK'
  BY <1>1, <1>2, EmptySeq DEF BroadcastInv, BroadcastTypeOK
<1>4. Membership' /\ Loop' /\ CopiesRight'
  BY <1>1
  DEF BroadcastInv, Membership, OneNick, ListedRight, Visits, Loop, CopiesRight, Visible, Listed, In
<1>5. \A n : Word(news', n) = "none"
  BY <1>1, EmptyWord
<1>6. NewsRight' /\ HellosFollowed'
  BY <1>1, <1>5 DEF BroadcastInv, Messages, NewsRight, HellosFollowed
<1>7. Views'
  <2> SUFFICES ASSUME NEW c \in Conns, NEW n \in Names \ untold', In(c)'
               PROVE  View(c, n)' <=> n \in listed'
    BY DEF Views
  <2>1. In(c) /\ c \in todo' /\ (View(c, n) <=> n \in listed)
    BY <1>1 DEF In, Listed, BroadcastInv, Messages, Views
  <2> QED BY <1>1, <1>2, <1>5, <2>1 DEF View
<1> QED BY <1>3, <1>4, <1>6, <1>7 DEF BroadcastInv, Messages

LEMMA VisitNewStep ==
    ASSUME BroadcastInv, NEW c \in Conns, VisitNew(c)
    PROVE  BroadcastInv'
<1>1. /\ c \in todo /\ user[c].st = "entering"
      /\ user' = [user EXCEPT ![c] = [@ EXCEPT !.st = "in", !.asks = FALSE]]
      /\ Copies(ListsFor(Form[c]), Form[c]) /\ known' = [known EXCEPT ![c] = GetsLists(c)]
      /\ todo' = todo \ {c} /\ visited' = c
      /\ UNCHANGED <<listed, bots, news, items, built, sending, untold>>
  BY DEF VisitNew
<1>2. CopiesRight' /\ deflated' \in [Lists -> SUBSET (Names \cup Stale)]
  BY <1>1, CopiesKeep DEF BroadcastInv
<1>3. GetsLists(c) = listed
  <2>1. known[c] = {}
    BY <1>1 DEF BroadcastInv, Membership, Visits, In
  <2> QED BY <1>1, <1>2, <2>1, ListsTell
<1>4. \A d \in Conns : /\ user'[d].hidden = user[d].hidden
                       /\ user'[d].st = IF d = c THEN "in" ELSE user[d].st
                       /\ known'[d] = IF d = c THEN listed ELSE known[d]
  BY <1>1, <1>3 DEF BroadcastInv, BroadcastTypeOK
<1>5. \A d \in Conns : (Visible(d)' <=> Visible(d)) /\ (Listed(d)' <=> Listed(d))
                       /\ (In(d)' <=> d = c \/ In(d))
  BY <1>1, <1>4 DEF Visible, Listed, In
<1>6. BroadcastTypeOK'
  BY <1>1, <1>2, <1>3 DEF BroadcastInv, BroadcastTypeOK
<1>7. Membership' /\ Loop'
  <2>1. OneNick' /\ ListedRight'
    BY <1>1, <1>4, <1>5 DEF BroadcastInv, Membership, OneNick, ListedRight
  <2>2. Visits' /\ Loop'
    BY <1>1, <1>4, <1>5 DEF BroadcastInv, Membership, Visits, Loop
  <2> QED BY <2>1, <2>2 DEF Membership
<1>8. NewsRight' /\ HellosFollowed'
  BY <1>1 DEF BroadcastInv, Messages, NewsRight, HellosFollowed
<1>9. Views'
  <2> SUFFICES ASSUME NEW d \in Conns, NEW n \in Names \ untold', In(d)'
               PROVE  View(d, n)' <=> n \in listed'
    BY DEF Views
  <2>1. CASE d = c
    BY <1>1, <1>4, <2>1 DEF View, BroadcastInv, Messages, NewsRight
  <2>2. CASE d # c
    BY <1>1, <1>4, <1>5, <2>2 DEF View, BroadcastInv, Messages, Views
  <2> QED BY <2>1, <2>2
<1> QED BY <1>2, <1>6, <1>7, <1>8, <1>9 DEF BroadcastInv, Messages

\* The queue was built by any member of the same number, with hellos or not.
LEMMA VisitMemberStep ==
    ASSUME BroadcastInv, NEW c \in Conns, VisitMember(c)
    PROVE  BroadcastInv'
<1> DEFINE before == IF user[c].asks THEN GetsLists(c) ELSE known[c]
           heard == Hear(before, Queue(Form[c]))
<1>1. /\ c \in todo /\ In(c) /\ user' = [user EXCEPT ![c].asks = FALSE]
      /\ known' = [known EXCEPT ![c] = heard]
      /\ todo' = todo \ {c} /\ visited' = c
      /\ UNCHANGED <<listed, bots, news, items, sending, untold>>
  BY DEF VisitMember
<1>2. CopiesRight' /\ deflated' \in [Lists -> SUBSET (Names \cup Stale)]
  <2>1. CASE user[c].asks
    BY <1>1, <2>1, CopiesKeep DEF BroadcastInv, VisitMember
  <2>2. CASE ~user[c].asks
    BY <1>1, <2>2 DEF BroadcastInv, VisitMember, CopiesRight, BroadcastTypeOK
  <2> QED BY <2>1, <2>2
<1>3. before = known[c] \/ before = known[c] \cup listed
  BY <1>1, <1>2, ListsTell
<1>4. Form[c].hello \in BOOLEAN
  BY BroadcastAssumption DEF Forms
<1>5. PICK h \in BOOLEAN : Queue(Form[c]) = [items |-> items, hellos |-> h]
  <2>1. CASE QueueType(Form[c]) \in DOMAIN built
    BY <2>1 DEF Queue, BroadcastInv, BroadcastTypeOK
  <2>2. CASE QueueType(Form[c]) \notin DOMAIN built
    BY <1>4, <2>2 DEF Queue, ForMember
  <2> QED BY <2>1, <2>2
<1>6. \A q \in DOMAIN built' : built'[q] \in [items : {items}, hellos : BOOLEAN]
  <2>1. CASE items # <<>>
    <3>1. built' = [q \in DOMAIN built \cup {QueueType(Form[c])} |->
                      IF q \in DOMAIN built THEN built[q] ELSE ForMember(Form[c])]
      BY <2>1 DEF VisitMember, Builds
    <3>2. ForMember(Form[c]) \in [items : {items}, hellos : BOOLEAN]
      BY <1>4 DEF ForMember
    <3> QED BY <3>1, <3>2 DEF BroadcastInv, BroadcastTypeOK
  <2>2. CASE items = <<>>
    BY <2>2 DEF VisitMember, BroadcastInv, BroadcastTypeOK
  <2> QED BY <2>1, <2>2
<1>7. heard \subseteq Names
  BY DEF Hear
<1> HIDE DEF before
<1>8. ASSUME NEW n \in Names, Word(items, n) # "hello"
      PROVE  n \in heard <=> IF Word(items, n) = "none" THEN n \in before
                             ELSE Word(items, n) # "quit"
  <2>1. items \in Seq(Item)
    BY DEF BroadcastInv, BroadcastTypeOK
  <2> QED BY <1>5, <1>8, <2>1, HearsWord
<1> HIDE DEF heard
<1>9. \A d \in Conns : /\ user'[d].hidden = user[d].hidden /\ user'[d].st = user[d].st
                       /\ known'[d] = IF d = c THEN heard ELSE known[d]
  BY <1>1 DEF BroadcastInv, BroadcastTypeOK
<1>10. \A d \in Conns : (Visible(d)' <=> Visible(d)) /\ (Listed(d)' <=> Listed(d)) /\ (In(d)' <=> In(d))
  BY <1>9 DEF Visible, Listed, In
<1>11. BroadcastTypeOK'
  <2>1. user' \in [Conns -> Clients]
    BY <1>1, ClientsTyped DEF BroadcastInv, Clients
  <2>2. known' \in [Conns -> SUBSET Names] /\ todo' \subseteq Conns /\ visited' \in Conns
    BY <1>1, <1>7 DEF BroadcastInv, BroadcastTypeOK
  <2> QED BY <1>1, <1>2, <1>6, <2>1, <2>2 DEF BroadcastInv, BroadcastTypeOK, Clients
<1>12. Membership' /\ Loop'
  <2>1. OneNick' /\ ListedRight'
    BY <1>1, <1>9, <1>10 DEF BroadcastInv, Membership, OneNick, ListedRight
  <2>2. Visits'
    BY <1>1, <1>9, <1>10 DEF BroadcastInv, Membership, Visits
  <2>3. sending /\ sending'
    BY <1>1 DEF BroadcastInv, Loop
  <2> QED BY <2>1, <2>2, <2>3 DEF Membership, Loop
<1>13. NewsRight' /\ HellosFollowed'
  BY <1>1 DEF BroadcastInv, Messages, NewsRight, HellosFollowed
<1>14. Views'
  <2> SUFFICES ASSUME NEW d \in Conns, NEW n \in Names \ untold', In(d)'
               PROVE  View(d, n)' <=> n \in listed'
    BY DEF Views
  <2>1. CASE d # c
    BY <1>1, <1>9, <1>10, <2>1 DEF View, BroadcastInv, Messages, Views
  <2>2. CASE d = c
    <3>1. View(c, n) <=> n \in listed
      BY <1>1 DEF BroadcastInv, Messages, Views
    <3>2. CASE Word(news, n) # "none"
      BY <1>1, <2>2, <3>1, <3>2 DEF View
    <3>3. CASE Word(news, n) = "none"
      <4>1. Word(items, n) # "hello"
        BY <1>1, <3>3 DEF BroadcastInv, Messages, HellosFollowed
      <4>2. n \in heard <=> n \in listed
        BY <1>1, <1>3, <1>8, <3>1, <3>3, <4>1 DEF View
      <4> QED BY <1>1, <1>9, <2>2, <3>3, <4>2 DEF View
    <3> QED BY <3>2, <3>3
  <2> QED BY <2>1, <2>2
<1> QED BY <1>2, <1>11, <1>12, <1>13, <1>14 DEF BroadcastInv, Messages

LEMMA EndSendStep ==
    ASSUME BroadcastInv, EndSend
    PROVE  BroadcastInv'
<1>1. /\ todo = {} /\ sending' = FALSE /\ visited' = NoConn /\ items' = <<>> /\ built' = <<>>
      /\ UNCHANGED <<user, listed, deflated, bots, news, todo, known, untold>>
  BY DEF EndSend, ClearQueues
<1>2. <<>> \in Seq(Item) /\ DOMAIN built' = {}
  BY <1>1, EmptySeq
<1>3. BroadcastTypeOK'
  BY <1>1, <1>2 DEF BroadcastInv, BroadcastTypeOK
<1>4. Membership' /\ Loop' /\ CopiesRight'
  BY <1>1, <1>2
  DEF BroadcastInv, Membership, OneNick, ListedRight, Visits, Loop, CopiesRight, Visible, Listed, In
<1>5. \A n : Word(items', n) = "none"
  BY <1>1, EmptyWord
<1>6. NewsRight' /\ HellosFollowed'
  BY <1>1, <1>5 DEF BroadcastInv, Messages, NewsRight, HellosFollowed
<1>7. Views'
  BY <1>1 DEF BroadcastInv, Messages, Views, View, In
<1> QED BY <1>3, <1>4, <1>6, <1>7 DEF BroadcastInv, Messages

LEMMA BroadcastStep ==
    ASSUME FullMyINFOOption = 1 \/ Bots = {}, BroadcastInv, [BroadcastNext]_broadcastVars
    PROVE  BroadcastInv'
<1>1. CASE UNCHANGED broadcastVars
  <2>1. UNCHANGED <<user, listed, deflated, bots, news, items, built, sending, todo, visited,
                    known, untold>>
    BY <1>1 DEF broadcastVars
  <2> QED BY <2>1
      DEF BroadcastInv, BroadcastTypeOK, Membership, OneNick, ListedRight, Visits, Loop,
          CopiesRight, Messages, NewsRight, HellosFollowed, Views, View, Visible, Listed, In
<1>2. ASSUME NEW c \in Conns, LogIn(c) \/ EnterLists(c) \/ Refresh(c) \/ GetNickList(c)
      PROVE  BroadcastInv'
  BY <1>2, LogInStep, EnterListsStep, RefreshStep, GetNickListStep
<1>3. ASSUME NEW c \in Conns, CloseUser(c) \/ HideUser(c) \/ UnhideUser(c)
      PROVE  BroadcastInv'
  BY <1>3, CloseUserStep, HideUserStep, UnhideUserStep
<1>4. ASSUME NEW c \in Conns, VisitNew(c) \/ VisitMember(c) \/ PingerLists(Form[c])
      PROVE  BroadcastInv'
  BY <1>4, VisitNewStep, VisitMemberStep, PingerListsStep
<1>5. ASSUME NEW c \in Conns, NEW ghost \in Conns, TakeOver(c, ghost)
      PROVE  BroadcastInv'
  BY <1>5, TakeOverStep
<1>6. ASSUME NEW b \in Bots, RegBot(b) \/ UnregBot(b)
      PROVE  BroadcastInv'
  BY <1>6, RegBotStep, UnregBotStep
<1>7. CASE BeginSend \/ SendToVisitedFails \/ EndSend
  BY <1>7, BeginSendStep, SendToVisitedFailsStep, EndSendStep
<1> QED BY <1>1, <1>2, <1>3, <1>4, <1>5, <1>6, <1>7 DEF BroadcastNext

LEMMA BroadcastInvariance ==
    ASSUME FullMyINFOOption = 1 \/ Bots = {}
    PROVE  BroadcastSpec => []BroadcastInv
<1>1. BroadcastInit => BroadcastInv
  BY InitHolds
<1>2. BroadcastInv /\ [BroadcastNext]_broadcastVars => BroadcastInv'
  BY BroadcastStep
<1> QED BY <1>1, <1>2, PTL DEF BroadcastSpec

\* Well typed: what was built in a send loop is of this loop's items.
THEOREM BroadcastTypeCorrect ==
    ASSUME FullMyINFOOption = 1 \/ Bots = {}
    PROVE  BroadcastSpec => []BroadcastTypeOK
<1>1. BroadcastInv => BroadcastTypeOK
  BY DEF BroadcastInv
<1> QED BY <1>1, BroadcastInvariance, PTL

\* Every member's view of who is online is exact, up to what is queued for it
\* and the nicks the hub does not tell of (AddUserList, ProcessQueues).  With
\* only one kind of $MyINFO list in use, and bots, it need not be: RegBot then
\* leaves a deflated copy in which the bot is missing (AddBot2MyInfos).
THEOREM ViewsCorrect ==
    ASSUME FullMyINFOOption = 1 \/ Bots = {}
    PROVE  BroadcastSpec => []ViewsExact
<1>1. BroadcastInv => ViewsExact
  BY ViewsAreExact DEF BroadcastInv, Messages
<1> QED BY <1>1, BroadcastInvariance, PTL

==============================================================================
