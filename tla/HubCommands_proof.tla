--------------------------- MODULE HubCommands_proof ---------------------------
(***************************************************************************)
(* Proofs about what the commands of the hub and of its members come to,   *)
(* for any limits, nicks and profiles:                                     *)
(*   - CommandFlood: what one member gets through in a stretch of time,    *)
(*     and that no count goes below zero;                                  *)
(*   - Registry: that the list of operators, its entries and the members   *)
(*     online follow the registrations, the profiles and the saved files.  *)
(***************************************************************************)
EXTENDS CommandFlood, Registry, SequenceTheorems, FiniteSetTheorems,
        WellFoundedInduction, TLAPS

(***************************************************************************)
(* The limits of commands (CommandFlood).                                  *)
(***************************************************************************)

\* Of what was let through, the last p came in the open window w, and what
\* came more than most before these is older than that window by a whole one.
\* A window without a count is over: only the last most may be younger.
Apart(a, w, time, most) ==
    IF w.n = 0 THEN \A i \in 1 .. Len(a) - most : a[i] >= time
    ELSE \E p \in Nat :
           /\ p <= w.n /\ p <= most
           /\ \A i \in 1 .. Len(a) - p : a[i] >= w.age
           /\ \A i \in 1 .. Len(a) - p - most : a[i] >= w.age + time

LEMMA WindowType ==
    ASSUME NEW w \in Window
    PROVE  w.n \in Nat /\ w.n < Word /\ w.age \in Nat
<1>1. w.n \in 0 .. Word - 1 /\ w.age \in Nat
  BY DEF Window
<1>2. Word \in Nat
  BY DEF Word
<1> QED BY <1>1, <1>2

\* Windows that stand apart let through no more than two of them hold.
LEMMA ApartIsFew ==
    ASSUME NEW a \in Seq(Nat), NEW w \in Window, NEW time \in Nat, NEW most \in Nat,
           Apart(a, w, time, most)
    PROVE  LastFew(a, time, 2 * most)
<1>1. Len(a) \in Nat /\ w.n \in Nat /\ w.age \in Nat /\ 2 * most = most + most
  BY LenProperties, WindowType
<1> SUFFICES ASSUME NEW i \in 1 .. Len(a), a[i] < time PROVE Len(a) - i < most + most
  BY <1>1 DEF LastFew
<1>2. a[i] \in Nat
  BY ElementOfSeq
<1>3. CASE w.n = 0
  <2>1. ~(i \in 1 .. Len(a) - most)
    BY <1>2, <1>3 DEF Apart
  <2> QED BY <1>1, <2>1
<1>4. CASE w.n # 0
  <2>1. PICK p \in Nat : /\ p <= most
                         /\ \A j \in 1 .. Len(a) - p - most : a[j] >= w.age + time
    BY <1>4 DEF Apart
  <2>2. ~(i \in 1 .. Len(a) - p - most)
    BY <1>1, <1>2, <2>1
  <2> QED BY <1>1, <2>1, <2>2
<1> QED BY <1>3, <1>4

\* g more are let through now.
More(a, b, g) ==
    /\ b \in Seq(Nat) /\ Len(b) = Len(a) + g
    /\ \A i \in 1 .. Len(a) : b[i] = a[i]

\* A window is opened where none is, or the old one is over, and its first g
\* are let through.
LEMMA Opens ==
    ASSUME NEW a \in Seq(Nat), NEW b, NEW g \in Nat, More(a, b, g),
           NEW w \in Window, NEW v \in Window, NEW time \in Nat, NEW most \in Nat,
           Apart(a, w, time, most), w.n = 0 \/ w.age >= time,
           v.n = 0 \/ v.age = 0, v.n >= g, g <= most
    PROVE  Apart(b, v, time, most)
<1>1. /\ Len(a) \in Nat /\ w.n \in Nat /\ w.age \in Nat /\ v.n \in Nat
      /\ b \in Seq(Nat) /\ Len(b) = Len(a) + g
      /\ \A i \in 1 .. Len(a) : b[i] = a[i] /\ a[i] \in Nat
  BY LenProperties, ElementOfSeq, WindowType DEF More
<1>2. \A i \in 1 .. Len(a) - most : a[i] >= time
  <2>1. CASE w.n = 0
    BY <2>1 DEF Apart
  <2>2. CASE w.n # 0
    <3>1. PICK p \in Nat : p <= most /\ \A i \in 1 .. Len(a) - p : a[i] >= w.age
      BY <2>2 DEF Apart
    <3>2. ASSUME NEW i \in 1 .. Len(a) - most PROVE a[i] >= time
      <4>0. w.age >= time
        BY <2>2
      <4>1. i \in 1 .. Len(a) - p /\ i \in 1 .. Len(a)
        BY <1>1, <3>1, SMTT(60)
      <4>2. a[i] >= w.age /\ a[i] \in Nat
        BY <1>1, <3>1, <4>1
      <4>3. a[i] >= w.age /\ w.age >= time => a[i] >= time
        BY <1>1, <4>2, SMTT(60)
      <4> QED BY <4>0, <4>2, <4>3
    <3> QED BY <3>2
  <2> QED BY <2>1, <2>2
<1>3. CASE v.n = 0
  <2>1. g = 0
    BY <1>1, <1>3
  <2>2. ASSUME NEW i \in 1 .. Len(b) - most PROVE b[i] >= time
    <3>1. i \in 1 .. Len(a) - most /\ i \in 1 .. Len(a)
      BY <1>1, <2>1
    <3> QED BY <1>1, <1>2, <3>1
  <2> QED BY <1>3, <2>2 DEF Apart
<1>4. CASE v.n # 0
  <2>0. v.age = 0
    BY <1>4
  <2>1. ASSUME NEW i \in 1 .. Len(b) - g PROVE b[i] >= v.age
    <3>1. i \in 1 .. Len(a)
      BY <1>1
    <3> QED BY <1>1, <2>0, <3>1
  <2>2. ASSUME NEW i \in 1 .. Len(b) - g - most PROVE b[i] >= v.age + time
    <3>1. i \in 1 .. Len(a) - most /\ i \in 1 .. Len(a)
      BY <1>1
    <3>2. b[i] = a[i] /\ a[i] >= time
      BY <1>1, <1>2, <3>1
    <3>3. v.age + time = time
      BY <2>0
    <3> QED BY <3>2, <3>3
  <2> QED BY <1>4, <2>1, <2>2 DEF Apart
<1> QED BY <1>3, <1>4

\* A window goes on: g more are let through as long as they are within its
\* limit, and when there are none its count only has to stay above those it
\* let through.
LEMMA Continues ==
    ASSUME NEW a \in Seq(Nat), NEW b, NEW g \in Nat, More(a, b, g),
           NEW w \in Window, NEW v \in Window, NEW time \in Nat, NEW most \in Nat,
           Apart(a, w, time, most), w.n # 0, v.n # 0, v.age = w.age,
           \/ w.n + g <= most /\ v.n >= w.n + g
           \/ g = 0 /\ (v.n >= w.n \/ v.n >= most)
    PROVE  Apart(b, v, time, most)
<1>1. /\ Len(a) \in Nat /\ w.n \in Nat /\ w.age \in Nat /\ v.n \in Nat
      /\ b \in Seq(Nat) /\ Len(b) = Len(a) + g
      /\ \A i \in 1 .. Len(a) : b[i] = a[i]
  BY LenProperties, WindowType DEF More
<1>2. PICK p \in Nat :
         /\ p <= w.n /\ p <= most
         /\ \A i \in 1 .. Len(a) - p : a[i] >= w.age
         /\ \A i \in 1 .. Len(a) - p - most : a[i] >= w.age + time
  BY DEF Apart
<1>3. PICK q \in Nat : q = p + g
  OBVIOUS
<1>4. q <= v.n /\ q <= most
  BY <1>1, <1>2, <1>3, SMTT(60)
<1>5. ASSUME NEW i \in 1 .. Len(b) - q PROVE b[i] >= v.age
  <2>1. i \in 1 .. Len(a) - p /\ i \in 1 .. Len(a)
    BY <1>1, <1>3
  <2> QED BY <1>1, <1>2, <2>1
<1>6. ASSUME NEW i \in 1 .. Len(b) - q - most PROVE b[i] >= v.age + time
  <2>1. Len(b) - q - most = Len(a) - p - most /\ Len(a) - p - most <= Len(a)
    BY <1>1, <1>3
  <2>2. i \in 1 .. Len(a) - p - most
    BY <2>1
  <2>4. i \in 1 .. Len(a)
    BY <1>1, <2>1, <2>2
  <2>3. b[i] = a[i] /\ a[i] >= w.age + time
    BY <1>1, <1>2, <2>2, <2>4
  <2> QED BY <2>3
<1> QED BY <1>4, <1>5, <1>6 DEF Apart

\* A second passes for what was let through; what is too old to matter goes.
LEMMA AgedIs ==
    ASSUME NEW a \in Seq(Nat), NEW limit \in Nat
    PROVE  /\ Aged(a, limit) \in Seq(Nat)
           /\ \E d \in 0 .. Len(a) :
                /\ Len(Aged(a, limit)) = Len(a) - d
                /\ \A i \in 1 .. Len(a) - d : Aged(a, limit)[i] = a[i + d] + 1
<1> DEFINE n == Len(a)
           older == [i \in 1 .. n |-> a[i] + 1]
           S == {i \in 1 .. n : older[i] >= limit}
           d == Cardinality(S)
<1>1. n \in Nat /\ \A i \in 1 .. n : a[i] \in Nat
  BY LenProperties, ElementOfSeq
<1>2. d \in 0 .. n
  <2>1. IsFiniteSet(1 .. n) /\ Cardinality(1 .. n) = n
    BY <1>1, FS_Interval
  <2>2. Cardinality(S) \in Nat /\ Cardinality(S) <= n
    BY <2>1, FS_Subset, FS_CardinalityType
  <2> QED BY <1>1, <2>2
<1>3. Aged(a, limit) = SubSeq(older, d + 1, n)
  BY DEF Aged
<1>4. older \in Seq(Nat) /\ Len(older) = n /\ \A i \in 1 .. n : older[i] = a[i] + 1
  BY <1>1
<1> HIDE DEF older, d
<1>5. PICK b : b = SubSeq(older, d + 1, n)
  OBVIOUS
<1>6. b \in Seq(Nat) /\ Len(b) = n - d
      /\ \A i \in 1 .. n - d : b[i] = older[i + d]
  <2>1. d + 1 \in Nat /\ d + 1 <= n + 1 /\ n - (d + 1) + 1 = n - d
    BY <1>1, <1>2
  <2>2. \A i \in d + 1 .. n : older[i] \in Nat
    BY <1>1, <1>2, <1>4
  <2>3. /\ b \in Seq(Nat) /\ Len(b) = n - (d + 1) + 1
        /\ \A i \in 1 .. n - (d + 1) + 1 : b[i] = older[(d + 1) + i - 1]
    BY <1>2, <1>4, <1>5, <2>1, <2>2, SubSeqProperties
  <2>4. \A i \in 1 .. n - d : (d + 1) + i - 1 = i + d
    BY <1>1, <1>2
  <2> QED BY <2>1, <2>3, <2>4
<1>7. \A i \in 1 .. n - d : i + d \in 1 .. n
  BY <1>1, <1>2
<1> QED BY <1>2, <1>3, <1>4, <1>5, <1>6, <1>7

LEMMA Later ==
    ASSUME NEW x \in Nat, NEW u \in Nat, NEW z \in Nat, NEW t \in Nat, NEW y,
           y = x + 1, x >= u + t, z <= u + 1
    PROVE  y >= z + t
OBVIOUS

\* A second passes for a window: it ages no faster than what it let through,
\* and only when it is over it is given up.
LEMMA Ages ==
    ASSUME NEW a \in Seq(Nat), NEW limit \in Nat, NEW time \in Nat, NEW most \in Nat,
           NEW w \in Window, NEW v \in Window, Apart(a, w, time, most),
           \/ v.n = w.n /\ v.age <= w.age + 1
           \/ v.n = 0 /\ w.age + 1 >= time
    PROVE  Apart(Aged(a, limit), v, time, most)
<1> DEFINE b == Aged(a, limit)
<1>1. PICK d \in 0 .. Len(a) : Len(b) = Len(a) - d /\ \A i \in 1 .. Len(b) : b[i] = a[i + d] + 1
  <2>1. PICK d \in 0 .. Len(a) : /\ Len(b) = Len(a) - d
                                /\ \A i \in 1 .. Len(a) - d : b[i] = a[i + d] + 1
    BY AgedIs
  <2> QED BY <2>1
<1>2. /\ Len(a) \in Nat /\ w.n \in Nat /\ w.age \in Nat /\ v.n \in Nat /\ v.age \in Nat
      /\ d \in Nat /\ Len(b) \in Nat
  BY <1>1, LenProperties, WindowType
<1>3. \A i \in 1 .. Len(b) : i + d \in 1 .. Len(a) /\ a[i + d] \in Nat
  BY <1>1, <1>2, ElementOfSeq, SMTT(60)
<1> HIDE DEF b
<1>4. CASE w.n = 0
  <2>1. \A j \in 1 .. Len(a) - most : a[j] >= time
    BY <1>4 DEF Apart
  <2>2. ASSUME NEW i \in 1 .. Len(b) - most PROVE b[i] >= time
    <3>1. i \in 1 .. Len(b) /\ i + d \in 1 .. Len(a) - most
      BY <1>1, <1>2
    <3>2. b[i] = a[i + d] + 1 /\ a[i + d] >= time /\ a[i + d] \in Nat
      BY <1>1, <1>3, <2>1, <3>1
    <3> QED BY <3>2
  <2>3. v.n = 0
    BY <1>4
  <2> QED BY <2>2, <2>3 DEF Apart, b
<1>5. CASE w.n # 0
  <2>1. PICK p \in Nat :
           /\ p <= w.n /\ p <= most
           /\ \A i \in 1 .. Len(a) - p : a[i] >= w.age
           /\ \A i \in 1 .. Len(a) - p - most : a[i] >= w.age + time
    BY <1>5 DEF Apart
  <2>2. ASSUME NEW i \in 1 .. Len(b) - p PROVE b[i] >= w.age + 1
    <3>1. i \in 1 .. Len(b) /\ i + d \in 1 .. Len(a) - p
      BY <1>1, <1>2, <2>1
    <3>2. b[i] = a[i + d] + 1 /\ a[i + d] >= w.age /\ a[i + d] \in Nat
      BY <1>1, <1>3, <2>1, <3>1
    <3>3. w.age \in Nat
      BY <1>2
    <3> QED BY <3>2, <3>3, SMTT(60)
  <2>3. CASE v.n = 0 /\ w.age + 1 >= time
    <3>1. ASSUME NEW i \in 1 .. Len(b) - most PROVE b[i] >= time
      <4>1. i \in 1 .. Len(b) - p /\ i \in 1 .. Len(b)
        BY <1>2, <2>1
      <4>2. b[i] >= w.age + 1 /\ b[i] = a[i + d] + 1 /\ a[i + d] \in Nat
        BY <1>1, <1>3, <2>2, <4>1
      <4> QED BY <1>2, <2>3, <4>2, SMTT(60)
    <3> QED BY <2>3, <3>1 DEF Apart, b
  <2>4. CASE v.n = w.n /\ v.age <= w.age + 1
    <3>1. ASSUME NEW i \in 1 .. Len(b) - p PROVE b[i] >= v.age
      <4>1. i \in 1 .. Len(b)
        BY <1>2, <2>1
      <4>2. b[i] >= w.age + 1 /\ b[i] = a[i + d] + 1 /\ a[i + d] \in Nat
        BY <1>1, <1>3, <2>2, <4>1
      <4> QED BY <1>2, <2>4, <4>2, SMTT(60)
    <3>2. ASSUME NEW i \in 1 .. Len(b) - p - most PROVE b[i] >= v.age + time
      <4>1. i \in 1 .. Len(b) /\ i + d \in 1 .. Len(a) - p - most
        BY <1>1, <1>2, <2>1
      <4>2. b[i] = a[i + d] + 1 /\ a[i + d] >= w.age + time /\ a[i + d] \in Nat
        BY <1>1, <1>3, <2>1, <4>1
      <4> QED BY <1>2, <2>4, <4>2, Later
    <3>3. v.n # 0 /\ p <= v.n
      BY <1>5, <2>1, <2>4
    <3> QED BY <2>1, <3>1, <3>2, <3>3 DEF Apart, b
  <2> QED BY <1>5, <2>3, <2>4
<1> QED BY <1>4, <1>5 DEF b
-----------------------------------------------------------------------------
\* The checks.

Members == [open : BOOLEAN, ban : Bans, warnings : Nat, flooder : BOOLEAN]
Answers == [who : Members, w : Window, ok : BOOLEAN]

LEMMA Remainder ==
    ASSUME NEW x \in Int, NEW w \in Nat, w > 1
    PROVE  x % w \in 0 .. w - 1 /\ (x \in 0 .. w - 1 => x % w = x)
<1>1. x % w \in 0 .. w - 1
  BY SMTT(60)
<1>2. x \in 0 .. w - 1 => x % w = x
  BY SMTT(60)
<1> QED BY <1>1, <1>2

LEMMA GrownType ==
    ASSUME NEW w \in Window, NEW by \in Int
    PROVE  /\ Grown(w, by) \in Window /\ Grown(w, by).age = w.age
           /\ w.n + by \in 0 .. Word - 1 => Grown(w, by).n = w.n + by
<1>1. w.n \in Int /\ w.age \in Nat /\ Grown(w, by) = [n |-> (w.n + by) % Word, age |-> w.age]
  BY WindowType DEF Grown, Window
<1>2. PICK x \in Int : x = w.n + by
  BY <1>1
<1>3. x % Word \in 0 .. Word - 1 /\ (x \in 0 .. Word - 1 => x % Word = x)
  <2>1. Word \in Nat /\ Word > 1
    BY DEF Word
  <2> QED BY <2>1, Remainder
<1>4. Grown(w, by) = [n |-> x % Word, age |-> w.age]
  BY <1>1, <1>2
<1> QED BY <1>1, <1>2, <1>3, <1>4 DEF Window

\* Below the limit of a word nothing goes round.
LEMMA GrowsBy ==
    ASSUME NEW w \in Window, NEW by \in Int, MaxCount \in Nat, MaxCount + by < Word,
           w.n <= MaxCount, w.n + by >= 0
    PROVE  Grown(w, by) \in Window /\ Grown(w, by).age = w.age /\ Grown(w, by).n = w.n + by
<1>1. w.n \in Nat /\ Word \in Nat
  BY WindowType DEF Word
<1>2. w.n + by \in 0 .. Word - 1
  BY <1>1
<1> QED BY <1>2, GrownType

LEMMA FreshType == Fresh \in Window /\ Fresh.n = 0 /\ Fresh.age = 0
BY DEF Fresh, Window, Word

LEMMA MemberType ==
    ASSUME NEW m \in Members
    PROVE  /\ \A ban \in Bans : Closed(m, ban) \in Members
           /\ Warned(m) \in Members
           /\ \A action \in 1 .. 6 : DoAction(m, action) \in Members
           /\ \A b \in BOOLEAN : [m EXCEPT !.flooder = b] \in Members
<1>1. ASSUME NEW x \in Members, NEW ban \in Bans PROVE Closed(x, ban) \in Members
  BY DEF Closed, Members
<1>2. {"none", "temp", "permanent"} \subseteq Bans
  BY DEF Bans
<1>3. ASSUME NEW x \in Members PROVE Warned(x) \in Members
  <2> DEFINE more == [x EXCEPT !.warnings = @ + 1]
  <2>1. more \in Members
    BY DEF Members
  <2> HIDE DEF more
  <2>2. WarningAction(more) \in Members
    BY <1>1, <1>2, <2>1, WarnAssumption DEF WarningAction
  <2>3. Warned(x) = IF more.warnings < WarnLimit THEN more ELSE WarningAction(more)
    BY DEF Warned, more
  <2> QED BY <2>1, <2>2, <2>3
<1>4. ASSUME NEW action \in 1 .. 6 PROVE DoAction(m, action) \in Members
  BY <1>1, <1>2, <1>3 DEF DoAction
<1>5. \A b \in BOOLEAN : [m EXCEPT !.flooder = b] \in Members
  BY DEF Members
<1> QED BY <1>1, <1>3, <1>4, <1>5

\* What a check makes of a window: it opens one, it counts on below the limit,
\* or it refuses and the count stays where nothing passes.
Step(w, v, L, ok) ==
    \/ v.n = 1 /\ v.age = 0 /\ (w.n = 0 \/ w.age >= L.time)
    \/ w.n # 0 /\ w.n < L.count /\ v.n = w.n + 1 /\ v.age = w.age
    \/ ~ok /\ w.n # 0 /\ v.n # 0 /\ v.age = w.age /\ (v.n >= w.n \/ v.n >= L.count)

ALimit(L) ==
    /\ L.count \in 1 .. MaxCount /\ L.time \in Nat /\ L.action \in 1 .. 6
    /\ MaxCount \in Nat /\ MaxCount + 1 < Word /\ MaxCount < Word

LEMMA AnswerType ==
    ASSUME NEW m \in Members, NEW w \in Window
    PROVE  /\ Passes(m, w) \in Answers /\ Refuses(m, w) \in Answers
           /\ Passes(m, w).w = w /\ Refuses(m, w).w = w
           /\ Passes(m, w).ok = TRUE /\ Refuses(m, w).ok = FALSE
           /\ Passes(m, w).who = m /\ Refuses(m, w).who = m
BY DEF Passes, Refuses, Answers

LEMMA AtLimitStep ==
    ASSUME NEW m \in Members, NEW w \in Window, NEW L, ALimit(L), w.n = L.count
    PROVE  /\ AtLimit(m, w, L) \in Answers
           /\ Step(w, AtLimit(m, w, L).w, L, AtLimit(m, w, L).ok)
           /\ ~AtLimit(m, w, L).ok
<1> DEFINE dealt == DoAction(m, L.action)
           v == IF dealt.open THEN Grown(w, 1) ELSE w
<1>1. dealt \in Members
  BY MemberType DEF ALimit
<1>2. w.n \in Nat /\ w.n # 0 /\ w.n <= MaxCount
  BY WindowType DEF ALimit
<1>3. Grown(w, 1) \in Window /\ Grown(w, 1).n = w.n + 1 /\ Grown(w, 1).age = w.age
  <2>1. MaxCount + 1 < Word /\ w.n + 1 >= 0 /\ MaxCount \in Nat
    BY <1>2 DEF ALimit
  <2> QED BY <1>2, <2>1, GrowsBy
<1>4. v \in Window /\ v.n >= w.n /\ v.n # 0 /\ v.age = w.age
  BY <1>2, <1>3
<1>5. AtLimit(m, w, L) = Refuses(dealt, v)
  BY DEF AtLimit
<1> HIDE DEF dealt, v
<1>6. PICK a : a = AtLimit(m, w, L)
  OBVIOUS
<1>7. a \in Answers /\ a.w = v /\ a.ok = FALSE
  BY <1>1, <1>4, <1>5, <1>6 DEF Refuses, Answers
<1>8. Step(w, v, L, FALSE)
  BY <1>2, <1>4 DEF Step
<1> QED BY <1>6, <1>7, <1>8

LEMMA AboveLimitStep ==
    ASSUME NEW m \in Members, NEW w \in Window, NEW L, ALimit(L), w.n > L.count, w.n <= MaxCount
    PROVE  /\ AboveLimit(m, w, L) \in Answers
           /\ Step(w, AboveLimit(m, w, L).w, L, AboveLimit(m, w, L).ok)
           /\ ~AboveLimit(m, w, L).ok
<1> DEFINE again == L.action = 2 /\ w.n = 2 * L.count
           dealt == IF again THEN Warned(m) ELSE m
           by == 1 - (IF again THEN L.count ELSE 0)
           v == IF ~dealt.open THEN w ELSE Grown(w, by)
<1>1. dealt \in Members
  BY MemberType
<1>2. w.n \in Nat /\ w.n # 0 /\ L.count \in Nat /\ L.count > 0 /\ MaxCount \in Nat
  BY WindowType DEF ALimit
<1>5. v \in Window /\ (v.n >= w.n \/ v.n >= L.count) /\ v.n # 0 /\ v.age = w.age
  <2>1. CASE dealt.open
    <3>1. by \in Int /\ by <= 1 /\ w.n + by >= 0 /\ (w.n + by >= w.n \/ w.n + by >= L.count)
          /\ w.n + by # 0
      <4>1. CASE again
        <5>1. by = 1 - L.count /\ w.n = L.count + L.count
          BY <1>2, <4>1
        <5> QED BY <1>2, <5>1
      <4>2. CASE ~again
        <5>1. by = 1
          BY <4>2
        <5> QED BY <1>2, <5>1
      <4> QED BY <4>1, <4>2
    <3>2. v = Grown(w, by)
      BY <2>1
    <3> HIDE DEF by
    <3>3. MaxCount + by < Word
      BY <1>2, <3>1 DEF ALimit, Word
    <3>4. Grown(w, by) \in Window /\ Grown(w, by).n = w.n + by /\ Grown(w, by).age = w.age
      BY <1>2, <3>1, <3>3, GrowsBy
    <3> QED BY <3>1, <3>2, <3>4
  <2>2. CASE ~dealt.open
    BY <1>2, <2>2
  <2> QED BY <2>1, <2>2
<1>6. AboveLimit(m, w, L) = Refuses(dealt, v)
  BY DEF AboveLimit
<1> HIDE DEF dealt, v
<1>7. PICK a : a = AboveLimit(m, w, L)
  OBVIOUS
<1>8. a \in Answers /\ a.w = v /\ a.ok = FALSE
  BY <1>1, <1>5, <1>6, <1>7 DEF Refuses, Answers
<1>9. Step(w, v, L, FALSE)
  BY <1>2, <1>5 DEF Step
<1> QED BY <1>7, <1>8, <1>9

\* What a check answers.
Judges(a, w, L) ==
    a \in Answers /\ Step(w, a.w, L, a.ok) /\ (a.ok => a.w.n <= MaxCount)

LEMMA OpenedType ==
    ASSUME NEW L, ALimit(L)
    PROVE  /\ [n |-> 1, age |-> 0] \in Window
           /\ [n |-> 1, age |-> 0].n <= MaxCount
<1>1. 1 \in 0 .. Word - 1 /\ 0 \in Nat
  BY DEF Word
<1>2. 1 <= MaxCount
  BY DEF ALimit
<1> QED BY <1>1, <1>2 DEF Window

LEMMA OpenedStep ==
    ASSUME NEW m \in Members, NEW w \in Window, NEW L, w.n = 0 \/ ~Within(w, L), ALimit(L)
    PROVE  Judges(Passes(m, [n |-> 1, age |-> 0]), w, L)
<1>1. PICK v : v = [n |-> 1, age |-> 0]
  OBVIOUS
<1>2. v \in Window /\ v.n = 1 /\ v.age = 0 /\ v.n <= MaxCount
  BY <1>1, OpenedType
<1>3. w.n = 0 \/ w.age >= L.time
  BY WindowType DEF Within, ALimit
<1>4. PICK a : a = Passes(m, v)
  OBVIOUS
<1>5. a \in Answers /\ a.w = v /\ a.ok = TRUE
  BY <1>2, <1>4, AnswerType, ZenonT(100)
<1>6. Step(w, v, L, TRUE)
  BY <1>2, <1>3 DEF Step
<1>7. Judges(a, w, L)
  BY <1>2, <1>5, <1>6 DEF Judges
<1> QED BY <1>1, <1>4, <1>7

LEMMA CountedStep ==
    ASSUME NEW m \in Members, NEW w \in Window, NEW L, w.n # 0, w.n < L.count, ALimit(L)
    PROVE  Judges(Passes(m, Grown(w, 1)), w, L)
<1>1. PICK v : v = Grown(w, 1)
  OBVIOUS
<1>2. w.n \in Nat /\ w.n < MaxCount /\ MaxCount \in Nat /\ MaxCount + 1 < Word
  BY WindowType DEF ALimit
<1>3. v \in Window /\ v.n = w.n + 1 /\ v.age = w.age
  BY <1>1, <1>2, GrowsBy
<1>4. PICK a : a = Passes(m, v)
  OBVIOUS
<1>5. a \in Answers /\ a.w = v /\ a.ok = TRUE
  <2>1. v \in Window
    BY <1>3
  <2> QED BY <1>4, <2>1, AnswerType, ZenonT(100)
<1>6. Step(w, v, L, TRUE)
  BY <1>3 DEF Step
<1>7. v.n <= MaxCount
  BY <1>2, <1>3
<1>8. Judges(a, w, L)
  BY <1>5, <1>6, <1>7 DEF Judges
<1> QED BY <1>1, <1>4, <1>8

LEMMA CheckForFloodStep ==
    ASSUME NEW m \in Members, NEW w \in Window, NEW L, ALimit(L), w.n <= MaxCount
    PROVE  Judges(CheckForFlood(m, w, L), w, L)
<1>1. w.n \in Nat /\ L.count \in Nat
  BY WindowType DEF ALimit
<1>2. CASE w.n = 0 \/ ~Within(w, L)
  BY <1>2, OpenedStep DEF CheckForFlood, Judges
<1>3. CASE w.n # 0 /\ Within(w, L) /\ w.n < L.count
  BY <1>3, CountedStep DEF CheckForFlood, Judges
<1>4. CASE w.n # 0 /\ Within(w, L) /\ w.n = L.count
  BY <1>1, <1>4, AtLimitStep DEF CheckForFlood, Judges
<1>5. CASE w.n # 0 /\ Within(w, L) /\ w.n > L.count
  BY <1>1, <1>5, AboveLimitStep DEF CheckForFlood, Judges
<1> QED BY <1>1, <1>2, <1>3, <1>4, <1>5

\* The other checks answer with a member and a window; who passes has not
\* gone beyond the bound.
Typed(a) == a \in Answers /\ (a.ok => a.w.n <= MaxCount)

LEMMA PassesType ==
    ASSUME NEW m \in Members, NEW v \in Window, v.n <= MaxCount
    PROVE  Typed(Passes(m, v))
BY AnswerType, ZenonT(100) DEF Typed

LEMMA CheckForSameFloodType ==
    ASSUME NEW m \in Members, NEW w \in Window, NEW L, ALimit(L), w.n <= MaxCount,
           NEW same \in BOOLEAN
    PROVE  Typed(CheckForSameFlood(m, w, L, same))
<1>1. w.n \in Nat /\ L.count \in Nat /\ L.count # 0
  BY WindowType DEF ALimit
<1>2. CASE ~same \/ ~Within(w, L)
  <2>1. Typed(Passes(m, [n |-> 1, age |-> 0]))
    BY OpenedType, PassesType
  <2> QED BY <1>2, <2>1 DEF CheckForSameFlood
<1>3. CASE same /\ Within(w, L) /\ w.n < L.count
  <2>1. Grown(w, 1) \in Window /\ Grown(w, 1).n <= MaxCount
    <3>1. w.n < MaxCount /\ MaxCount \in Nat /\ MaxCount + 1 < Word
      BY <1>1, <1>3 DEF ALimit
    <3>2. Grown(w, 1) \in Window /\ Grown(w, 1).n = w.n + 1
      BY <1>1, <3>1, GrowsBy
    <3> QED BY <1>1, <3>1, <3>2
  <2>2. Typed(Passes(m, Grown(w, 1)))
    BY <2>1, PassesType
  <2> QED BY <1>3, <2>2 DEF CheckForSameFlood
<1>4. CASE same /\ Within(w, L) /\ w.n = L.count
  <2>1. PICK r : r = AtLimit(m, w, L)
    OBVIOUS
  <2>2. r \in Answers /\ ~r.ok
    BY <1>4, <2>1, AtLimitStep
  <2>3. Grown(r.w, 1) \in Window
    BY <2>2, GrownType DEF Answers
  <2>4. CheckForSameFlood(m, w, L, same)
        = IF r.who.open THEN [r EXCEPT !.w = Grown(r.w, 1)] ELSE r
    <3>1. ~(w.n < L.count)
      BY <1>1, <1>4
    <3> QED BY <1>4, <2>1, <3>1 DEF CheckForSameFlood
  <2>5. PICK v : v = Grown(r.w, 1)
    OBVIOUS
  <2>6. [r EXCEPT !.w = v] \in Answers /\ ~[r EXCEPT !.w = v].ok
    BY <2>2, <2>3, <2>5 DEF Answers
  <2> QED BY <2>2, <2>4, <2>5, <2>6 DEF Typed
<1>5. CASE same /\ Within(w, L) /\ w.n > L.count
  <2>1. CheckForSameFlood(m, w, L, same) = AboveLimit(m, w, L)
    BY <1>1, <1>5 DEF CheckForSameFlood
  <2> QED BY <1>5, <2>1, AboveLimitStep DEF Typed
<1> QED BY <1>1, <1>2, <1>3, <1>4, <1>5

LEMMA CheckIntervalType ==
    ASSUME NEW m \in Members, NEW w \in Window, NEW L, w.n <= MaxCount,
           L.count \in 1 .. MaxCount, MaxCount \in Nat, MaxCount + 1 < Word
    PROVE  Typed(CheckInterval(m, w, L))
<1>1. w.n \in Nat
  BY WindowType
<1>2. Grown(w, 1) \in Window /\ Grown(w, 1).n = w.n + 1
  BY <1>1, GrowsBy
<1>3. CASE w.n = 0 \/ ~Within(w, L)
  <2>1. [n |-> 1, age |-> 0] \in Window /\ [n |-> 1, age |-> 0].n <= MaxCount
    <3>1. 1 \in 0 .. Word - 1 /\ 0 \in Nat
      BY DEF Word
    <3>2. 1 <= MaxCount
      OBVIOUS
    <3> QED BY <3>1, <3>2 DEF Window
  <2>2. Typed(Passes(m, [n |-> 1, age |-> 0]))
    BY <2>1, PassesType
  <2> QED BY <1>3, <2>2 DEF CheckInterval
<1>4. CASE w.n # 0 /\ Within(w, L) /\ w.n >= L.count
  <2>1. Typed(Refuses(m, Grown(w, 1)))
    BY <1>2, AnswerType DEF Typed
  <2> QED BY <1>4, <2>1 DEF CheckInterval
<1>5. CASE w.n # 0 /\ Within(w, L) /\ ~(w.n >= L.count)
  <2>1. Grown(w, 1).n <= MaxCount
    BY <1>1, <1>2, <1>5
  <2>2. Typed(Passes(m, Grown(w, 1)))
    BY <1>2, <2>1, PassesType
  <2> QED BY <1>5, <2>2 DEF CheckInterval
<1> QED BY <1>3, <1>4, <1>5

LEMMA LimitFacts ==
    ASSUME NEW k \in Kinds, NEW f \in Windows
    PROVE  /\ Limits[k][f].count \in 1 .. MaxCount /\ Limits[k][f].time \in Nat
           /\ Limits[k][f].count \in Nat
           /\ MaxCount \in Nat /\ MaxCount + 1 < Word
           /\ f # "int" /\ On(k, f) => ALimit(Limits[k][f])
<1>1. MaxCount \in Nat /\ MaxCount + 1 < Word /\ MaxCount < Word
  BY LimitsAssumption DEF Word
<1>2. /\ Limits[k][f].count \in 1 .. MaxCount /\ Limits[k][f].time \in Nat
      /\ Limits[k][f].action \in 0 .. 6
  BY LimitsAssumption
<1>3. f # "int" /\ On(k, f) => Limits[k][f].action \in 1 .. 6
  BY <1>2 DEF On
<1>4. Limits[k][f].count \in Nat
  BY <1>1, <1>2
<1> QED BY <1>1, <1>2, <1>3, <1>4 DEF ALimit
-----------------------------------------------------------------------------
\* A command on its way: F are the limits that were asked.  Each of them has
\* left a step in its window, or the command was refused before.
Commands == [who : Members, w : [Windows -> Window], last : Texts \cup {NoText},
             multi : [lines : Nat, n : Nat], ok : BOOLEAN]
Way(c, k, F) ==
    /\ c \in Commands
    /\ c.ok => \A f \in Windows : Unasked(k, f) \/ c.w[f].n <= MaxCount
    /\ \A f \in Streams :
         \/ c.w[f] = win[k][f] /\ (On(k, f) /\ f \in F => ~c.ok)
         \/ On(k, f) /\ f \in F /\ Step(win[k][f], c.w[f], Limits[k][f], c.ok)

LEMMA CheckedIs ==
    ASSUME NEW c \in Commands, NEW f \in Windows, NEW r \in Answers
    PROVE  /\ Checked(c, f, r) \in Commands
           /\ Checked(c, f, r).w[f] = r.w
           /\ \A g \in Windows : g # f => Checked(c, f, r).w[g] = c.w[g]
           /\ Checked(c, f, r).ok = r.ok
           /\ Checked(c, f, r).last = c.last /\ Checked(c, f, r).multi = c.multi
<1>1. r.w \in Window /\ r.who \in Members /\ r.ok \in BOOLEAN
  BY DEF Answers
<1>2. /\ c.w \in [Windows -> Window] /\ c.last \in Texts \cup {NoText}
      /\ c.multi \in [lines : Nat, n : Nat]
      /\ c = [who |-> c.who, w |-> c.w, last |-> c.last, multi |-> c.multi, ok |-> c.ok]
  BY DEF Commands
<1>3. PICK w : w = [c.w EXCEPT ![f] = r.w]
  OBVIOUS
<1>4. w \in [Windows -> Window] /\ w[f] = r.w /\ \A g \in Windows : g # f => w[g] = c.w[g]
  BY <1>1, <1>2, <1>3
<1>5. Checked(c, f, r)
      = [who |-> r.who, w |-> w, last |-> c.last, multi |-> c.multi, ok |-> r.ok]
  <2>1. Checked(c, f, r) = [c EXCEPT !.who = r.who, !.w = w, !.ok = r.ok]
    BY <1>3, Zenon DEF Checked
  <2> QED BY <1>2, <2>1
<1> QED BY <1>1, <1>2, <1>4, <1>5 DEF Commands

LEMMA WayArrives ==
    ASSUME TypeOK, NEW k \in Kinds
    PROVE  Way(Arrives(k), k, {}) /\ Arrives(k).w = win[k]
<1>1. /\ who \in Members /\ win[k] \in [Windows -> Window]
      /\ last[k] \in Texts \cup {NoText} /\ multi[k] \in [lines : Nat, n : Nat]
      /\ \A f \in Windows : Unasked(k, f) \/ win[k][f].n <= MaxCount
  BY DEF TypeOK, Members
<1>2. PICK c : c = Arrives(k)
  OBVIOUS
<1>3. c \in Commands /\ c.w = win[k]
  BY <1>1, <1>2 DEF Arrives, Commands
<1> QED BY <1>1, <1>2, <1>3 DEF Way

\* Who is refused keeps what it has.
LEMMA WayStops ==
    ASSUME NEW c, NEW k \in Kinds, NEW F, Way(c, k, F), NEW m \in Members,
           NEW d, d = [c EXCEPT !.ok = FALSE, !.who = m]
    PROVE  Way(d, k, F)
<1>1. c \in Commands
  BY DEF Way
<1>2. d \in Commands /\ d.w = c.w /\ ~d.ok
  BY <1>1 DEF Commands
<1>3. \A f \in Streams : Step(win[k][f], c.w[f], Limits[k][f], c.ok)
                         => Step(win[k][f], d.w[f], Limits[k][f], d.ok)
  BY <1>2 DEF Step
<1> QED BY <1>2, <1>3 DEF Way

LEMMA WayWhen ==
    ASSUME NEW c, NEW k \in Kinds, NEW F, Way(c, k, F), NEW b
    PROVE  /\ Way(When(b, c, Refused), k, F)
           /\ Way(When(b, c, Spoofed), k, F)
<1>1. c \in Commands /\ c.who \in Members
  BY DEF Way, Commands
<1>2. Way(Refused(c), k, F)
  <2>1. Refused(c) = [c EXCEPT !.ok = FALSE, !.who = c.who]
    BY <1>1 DEF Refused, Commands
  <2> QED BY <1>1, <2>1, WayStops
<1>3. Way(Spoofed(c), k, F)
  <2>1. Closed(c.who, "none") \in Members
    BY <1>1, MemberType DEF Bans
  <2>2. Spoofed(c) = [c EXCEPT !.ok = FALSE, !.who = Closed(c.who, "none")]
    BY DEF Spoofed
  <2> QED BY <2>1, <2>2, WayStops
<1> QED BY <1>2, <1>3 DEF When

\* A check of the windows that are not measured: they may take any answer.
LEMMA WayChecked ==
    ASSUME NEW c, NEW k \in Kinds, NEW F, Way(c, k, F), c.ok,
           NEW f \in {"same", "int"}, NEW r, Typed(r)
    PROVE  Way(Checked(c, f, r), k, F)
<1>1. c \in Commands /\ f \in Windows /\ r \in Answers
  BY DEF Way, Typed, Windows
<1>2. PICK d : d = Checked(c, f, r)
  OBVIOUS
<1>3. /\ d \in Commands /\ d.w[f] = r.w /\ d.ok = r.ok
      /\ \A g \in Windows : g # f => d.w[g] = c.w[g]
  BY <1>1, <1>2, CheckedIs
<1>4. d.ok => \A g \in Windows : Unasked(k, g) \/ d.w[g].n <= MaxCount
  BY <1>3 DEF Way, Typed
<1>5. ASSUME NEW g \in Streams
      PROVE \/ d.w[g] = win[k][g] /\ (On(k, g) /\ g \in F => ~d.ok)
            \/ On(k, g) /\ g \in F /\ Step(win[k][g], d.w[g], Limits[k][g], d.ok)
  <2>1. d.w[g] = c.w[g]
    BY <1>3 DEF Streams, Windows
  <2>2. \/ c.w[g] = win[k][g] /\ ~(On(k, g) /\ g \in F)
        \/ On(k, g) /\ g \in F /\ Step(win[k][g], c.w[g], Limits[k][g], TRUE)
    <3>1. c.ok = TRUE
      BY <1>1 DEF Commands
    <3> QED BY <3>1 DEF Way
  <2>3. Step(win[k][g], c.w[g], Limits[k][g], TRUE)
        => Step(win[k][g], d.w[g], Limits[k][g], d.ok)
    BY <2>1 DEF Step
  <2> QED BY <2>1, <2>2, <2>3
<1> QED BY <1>2, <1>3, <1>4, <1>5 DEF Way

LEMMA WayFlood ==
    ASSUME NEW c, NEW k \in Kinds, NEW F, Way(c, k, F), NEW f \in Streams, f \notin F
    PROVE  Way(Flood(c, k, f), k, F \cup {f})
<1>1. c \in Commands /\ f \in Windows /\ c.who \in Members /\ c.w[f] \in Window
      /\ c.ok \in BOOLEAN /\ c.w[f] = win[k][f]
  BY DEF Way, Commands, Streams, Windows
<1>2. CASE ~c.ok \/ ~On(k, f)
  <2>1. Flood(c, k, f) = c
    BY <1>2 DEF Flood
  <2> QED BY <1>1, <1>2, <2>1 DEF Way
<1>3. CASE c.ok /\ On(k, f)
  <2>0. ALimit(Limits[k][f]) /\ c.w[f].n <= MaxCount
    <3>1. f # "int" /\ ~Unasked(k, f)
      BY <1>3 DEF Streams, Unasked
    <3> QED BY <1>1, <1>3, <3>1, LimitFacts DEF Way
  <2>1. PICK r : r = CheckForFlood(c.who, c.w[f], Limits[k][f])
    OBVIOUS
  <2>2. /\ r \in Answers /\ Step(win[k][f], r.w, Limits[k][f], r.ok)
        /\ r.ok => r.w.n <= MaxCount
    BY <1>1, <2>0, <2>1, CheckForFloodStep DEF Judges
  <2>3. PICK d : d = Checked(c, f, r)
    OBVIOUS
  <2>4. /\ d \in Commands /\ d.w[f] = r.w /\ d.ok = r.ok
        /\ \A g \in Windows : g # f => d.w[g] = c.w[g]
    BY <1>1, <2>2, <2>3, CheckedIs
  <2>5. Flood(c, k, f) = d
    BY <1>3, <2>1, <2>3 DEF Flood
  <2>6. d.ok => \A g \in Windows : Unasked(k, g) \/ d.w[g].n <= MaxCount
    BY <1>3, <2>2, <2>4 DEF Way
  <2>7. ASSUME NEW g \in Streams
        PROVE \/ d.w[g] = win[k][g] /\ (On(k, g) /\ g \in F \cup {f} => ~d.ok)
              \/ /\ On(k, g) /\ g \in F \cup {f}
                 /\ Step(win[k][g], d.w[g], Limits[k][g], d.ok)
    <3>1. CASE g = f
      BY <1>3, <2>2, <2>4, <3>1
    <3>2. CASE g # f
      <4>1. d.w[g] = c.w[g]
        BY <2>4, <3>2 DEF Streams, Windows
      <4>2. \/ c.w[g] = win[k][g] /\ ~(On(k, g) /\ g \in F)
            \/ On(k, g) /\ g \in F /\ Step(win[k][g], c.w[g], Limits[k][g], TRUE)
        <5>1. c.ok = TRUE
          BY <1>1, <1>3
        <5> QED BY <5>1 DEF Way
      <4>3. Step(win[k][g], c.w[g], Limits[k][g], TRUE)
            => Step(win[k][g], d.w[g], Limits[k][g], d.ok)
        BY <4>1 DEF Step
      <4> QED BY <3>2, <4>1, <4>2, <4>3
    <3> QED BY <3>1, <3>2
  <2> QED BY <2>4, <2>5, <2>6, <2>7 DEF Way
<1> QED BY <1>1, <1>2, <1>3

LEMMA WayFloods ==
    ASSUME NEW c, NEW k \in Kinds, Way(c, k, {})
    PROVE  Way(Floods(c, k), k, Streams)
<1>1. Way(Flood(c, k, "one"), k, {"one"})
  <2>1. {} \cup {"one"} = {"one"} /\ "one" \in Streams /\ "one" \notin {}
    BY DEF Streams
  <2>2. Way(Flood(c, k, "one"), k, {} \cup {"one"})
    BY <2>1, WayFlood
  <2> QED BY <2>1, <2>2
<1>2. {"one"} \cup {"two"} = Streams /\ "two" \in Streams /\ "two" \notin {"one"}
  BY DEF Streams
<1>3. PICK d : d = Flood(c, k, "one")
  OBVIOUS
<1>4. Way(Flood(d, k, "two"), k, {"one"} \cup {"two"})
  BY <1>1, <1>2, <1>3, WayFlood
<1> QED BY <1>2, <1>3, <1>4 DEF Floods

\* What was said last, and its lines, are nobody's window.
LEMMA WayTexts ==
    ASSUME NEW c, NEW k \in Kinds, NEW F, Way(c, k, F),
           NEW t \in Texts \cup {NoText}, NEW m \in [lines : Nat, n : Nat],
           NEW d, d = [c EXCEPT !.last = t, !.multi = m]
    PROVE  Way(d, k, F)
<1>1. c \in Commands
  BY DEF Way
<1>2. d \in Commands /\ d.w = c.w /\ d.ok = c.ok
  BY <1>1 DEF Commands
<1> QED BY <1>2 DEF Way

LEMMA WaySameText ==
    ASSUME NEW c, NEW k \in Kinds, NEW F, Way(c, k, F), NEW text \in Texts
    PROVE  Way(SameText(c, k, text), k, F)
<1> DEFINE L == Limits[k].same
           same == text = c.last
           r == CheckForSameFlood(c.who, c.w.same, L, same)
           d == Checked(c, "same", r)
<1>1. CASE ~c.ok \/ ~On(k, "same")
  BY <1>1 DEF SameText
<1>2. CASE c.ok /\ On(k, "same")
  <2>1. Typed(r)
    <3>1. c.who \in Members /\ c.w.same \in Window /\ "same" \in Windows /\ same \in BOOLEAN
      BY DEF Way, Commands, Windows
    <3>2. ~Unasked(k, "same")
      BY DEF Unasked
    <3>3. c.w.same.n <= MaxCount
      BY <1>2, <3>1, <3>2 DEF Way
    <3>4. ALimit(Limits[k].same)
      BY <1>2, <3>1, LimitFacts
    <3> HIDE DEF L, same
    <3>5. L = Limits[k].same
      BY DEF L
    <3> QED BY <3>1, <3>3, <3>4, <3>5, CheckForSameFloodType
  <2> HIDE DEF r
  <2>2. Way(d, k, F)
    BY <1>2, <2>1, WayChecked
  <2>3. Way(NewText(d, text), k, F)
    <3>1. d.multi \in [lines : Nat, n : Nat] /\ text \in Texts \cup {NoText}
      BY <2>2 DEF Way, Commands
    <3>2. [d.multi EXCEPT !.n = 0] \in [lines : Nat, n : Nat]
      BY <3>1
    <3> HIDE DEF d
    <3>3. NewText(d, text) = [d EXCEPT !.last = text, !.multi = [d.multi EXCEPT !.n = 0]]
      BY DEF NewText
    <3> QED BY <2>2, <3>1, <3>2, <3>3, WayTexts
  <2>4. SameText(c, k, text) \in {d, NewText(d, text)}
    BY <1>2 DEF SameText, r
  <2> QED BY <2>2, <2>3, <2>4
<1> QED BY <1>1, <1>2

LEMMA WayLineLimits ==
    ASSUME NEW c, NEW k \in Kinds, NEW F, Way(c, k, F), NEW text \in Texts
    PROVE  Way(LineLimits(c, k, text), k, F)
<1> DEFINE M == Limits[k].multi
           lines == IF c.w.same.n < 2 THEN Lines[text] ELSE c.multi.lines
           m == [lines |-> lines, n |-> c.multi.n + IF lines > 1 THEN 1 ELSE 0]
           many == M.action # 0 /\ m.n > M.count /\ lines >= M.lines
           fits == ~many /\ (M.max = 0 \/ lines <= M.max)
           dealt == IF many THEN DoAction(c.who, M.action) ELSE c.who
           d == [c EXCEPT !.multi = m, !.who = dealt, !.ok = fits]
<1>1. CASE ~c.ok \/ (M.max = 0 /\ M.action = 0)
  BY <1>1 DEF LineLimits
<1>2. CASE c.ok /\ ~(M.max = 0 /\ M.action = 0)
  <2>1. c \in Commands /\ c.who \in Members /\ c.multi.n \in Nat /\ c.multi.lines \in Nat
    BY DEF Way, Commands
  <2>2. m \in [lines : Nat, n : Nat]
    <3>1. Lines[text] \in Nat
      BY LimitsAssumption
    <3>2. lines \in Nat
      BY <2>1, <3>1
    <3> HIDE DEF lines
    <3> QED BY <2>1, <3>2
  <2>3. dealt \in Members
    <3>1. M.action # 0 => M.action \in 1 .. 6
      BY LimitsAssumption
    <3>2. M.action # 0 => DoAction(c.who, M.action) \in Members
      BY <2>1, <3>1, MemberType
    <3> HIDE DEF m, lines
    <3> QED BY <2>1, <3>2
  <2>4. fits \in BOOLEAN
    OBVIOUS
  <2>5. LineLimits(c, k, text) = d
    BY <1>2, Zenon DEF LineLimits
  <2> HIDE DEF m, dealt, fits
  <2>6. d \in Commands /\ d.w = c.w /\ d.ok = fits
    BY <2>1, <2>2, <2>3, <2>4 DEF Commands
  <2>7. ASSUME NEW g \in Streams
        PROVE \/ d.w[g] = win[k][g] /\ (On(k, g) /\ g \in F => ~d.ok)
              \/ On(k, g) /\ g \in F /\ Step(win[k][g], d.w[g], Limits[k][g], d.ok)
    <3>1. \/ c.w[g] = win[k][g] /\ ~(On(k, g) /\ g \in F)
          \/ On(k, g) /\ g \in F /\ Step(win[k][g], c.w[g], Limits[k][g], TRUE)
      <4>1. c.ok = TRUE
        BY <1>2, <2>1 DEF Commands
      <4> QED BY <4>1 DEF Way
    <3>2. Step(win[k][g], c.w[g], Limits[k][g], TRUE)
          => Step(win[k][g], d.w[g], Limits[k][g], d.ok)
      BY <2>6 DEF Step
    <3> QED BY <2>6, <3>1, <3>2
  <2>8. \A f \in Windows : Unasked(k, f) \/ d.w[f].n <= MaxCount
    BY <1>2, <2>6 DEF Way
  <2>9. Way(d, k, F)
    BY <2>6, <2>7, <2>8 DEF Way
  <2> QED BY <2>5, <2>9
<1> QED BY <1>1, <1>2

LEMMA WayInterval ==
    ASSUME NEW c, NEW k \in Kinds, NEW F, Way(c, k, F)
    PROVE  Way(Interval(c, k), k, F)
<1>1. CASE ~c.ok \/ ~On(k, "int")
  BY <1>1 DEF Interval
<1>2. CASE c.ok /\ On(k, "int")
  <2>1. c.who \in Members /\ c.w.int \in Window /\ "int" \in Windows
    BY DEF Way, Commands, Windows
  <2>2. c.w.int.n <= MaxCount
    BY <1>2, <2>1 DEF Way, Unasked
  <2>3. PICK r : r = CheckInterval(c.who, c.w.int, Limits[k].int)
    OBVIOUS
  <2>4. Typed(r)
    BY <2>1, <2>2, <2>3, LimitFacts, CheckIntervalType
  <2>5. Way(Checked(c, "int", r), k, F)
    BY <1>2, <2>4, WayChecked
  <2> QED BY <1>2, <2>3, <2>5 DEF Interval
<1> QED BY <1>1, <1>2
-----------------------------------------------------------------------------
\* What was let through stands apart from the window that measures it; a limit
\* that is off has not counted.
Passing(k, f, a, w) ==
    IF On(k, f) THEN Apart(a, w, Limits[k][f].time, Limits[k][f].count)
    ELSE f = "one" => w.n = 0

\* At the end of its way a command is let through, or it is not.
LEMMA PassingEnds ==
    ASSUME NEW c, NEW k \in Kinds, NEW F, Way(c, k, F), TypeOK,
           NEW f \in Streams, On(k, f) => f \in F,
           NEW a \in Seq(Nat), Passing(k, f, a, win[k][f])
    PROVE  /\ Passing(k, f, a, c.w[f])
           /\ c.ok => Passing(k, f, Append(a, 0), c.w[f])
<1> DEFINE w == win[k][f]
           v == c.w[f]
           L == Limits[k][f]
<1>1. c \in Commands /\ f \in Windows /\ w \in Window /\ v \in Window
      /\ L.time \in Nat /\ L.count \in 1 .. MaxCount /\ L.count \in Nat
  <2>1. f \in Windows
    BY DEF Streams, Windows
  <2> QED BY <2>1, LimitFacts DEF Way, Commands, TypeOK
<1>2. w.n \in Nat /\ w.age \in Nat /\ v.n \in Nat /\ v.age \in Nat
  BY <1>1, WindowType
<1>3. CASE ~On(k, f)
  <2>1. v = w
    BY <1>3 DEF Way
  <2> QED BY <1>3, <2>1 DEF Passing
<1>4. CASE On(k, f)
  <2>1. (v = w /\ ~c.ok) \/ Step(w, v, L, c.ok)
    BY <1>4 DEF Way
  <2>2. Apart(a, w, L.time, L.count)
    BY <1>4 DEF Passing
  <2>3. More(a, a, 0) /\ More(a, Append(a, 0), 1)
    <3>1. /\ Append(a, 0) \in Seq(Nat) /\ Len(Append(a, 0)) = Len(a) + 1 /\ Len(a) \in Nat
          /\ \A i \in 1 .. Len(a) : Append(a, 0)[i] = a[i]
      BY AppendProperties, LenProperties
    <3> QED BY <3>1 DEF More
  <2> HIDE DEF w, v, L
  <2>4. CASE v.n = 1 /\ v.age = 0 /\ (w.n = 0 \/ w.age >= L.time)
    <3>1. Apart(a, v, L.time, L.count)
      BY <1>1, <2>2, <2>3, <2>4, Opens
    <3>2. Apart(Append(a, 0), v, L.time, L.count)
      <4>1. v.n >= 1 /\ 1 <= L.count
        BY <1>1, <2>4
      <4> QED BY <1>1, <2>2, <2>3, <2>4, <4>1, Opens
    <3> QED BY <1>4, <3>1, <3>2 DEF Passing, v, L
  <2>5. CASE w.n # 0 /\ w.n < L.count /\ v.n = w.n + 1 /\ v.age = w.age
    <3>0. w.n + 1 <= L.count /\ v.n >= w.n + 1 /\ v.n >= w.n /\ v.n # 0
      BY <1>1, <1>2, <2>5
    <3>1. Apart(a, v, L.time, L.count)
      BY <1>1, <2>2, <2>3, <2>5, <3>0, Continues
    <3>2. Apart(Append(a, 0), v, L.time, L.count)
      BY <1>1, <2>2, <2>3, <2>5, <3>0, Continues
    <3> QED BY <1>4, <3>1, <3>2 DEF Passing, v, L
  <2>6. CASE ~c.ok /\ w.n # 0 /\ v.n # 0 /\ v.age = w.age /\ (v.n >= w.n \/ v.n >= L.count)
    <3>1. Apart(a, v, L.time, L.count)
      BY <1>1, <2>2, <2>3, <2>6, Continues
    <3> QED BY <1>4, <2>6, <3>1 DEF Passing, v, L
  <2>7. CASE v = w /\ ~c.ok
    BY <1>4, <2>2, <2>7 DEF Passing, v, L
  <2> QED BY <2>1, <2>4, <2>5, <2>6, <2>7 DEF Step
<1> QED BY <1>3, <1>4

\* A hub command is let through, and taken off the counts again.
LEMMA PassingUncounted ==
    ASSUME NEW c, NEW k \in Kinds, NEW F, Way(c, k, F), c.ok, TypeOK,
           NEW f \in Streams, \A g \in Streams : On(k, g) => g \in F,
           NEW a \in Seq(Nat), Passing(k, f, a, win[k][f]),
           ~On(k, "one") => win[k].one.n = 0
    PROVE  /\ Uncounted(c.w) \in [Windows -> Window]
           /\ Passing(k, f, a, Uncounted(c.w)[f])
           /\ Unasked(k, f) \/ Uncounted(c.w)[f].n <= MaxCount
<1> DEFINE w == win[k][f]
           v == c.w[f]
           L == Limits[k][f]
           u == Uncounted(c.w)
<1>1. c \in Commands /\ f \in Windows /\ w \in Window /\ v \in Window
      /\ c.w \in [Windows -> Window]
      /\ L.time \in Nat /\ L.count \in 1 .. MaxCount /\ L.count \in Nat
      /\ MaxCount \in Nat /\ MaxCount + 1 < Word
  <2>1. f \in Windows
    BY DEF Streams, Windows
  <2> QED BY <2>1, LimitFacts DEF Way, Commands, TypeOK
<1>2. w.n \in Nat /\ w.age \in Nat /\ v.n \in Nat /\ v.age \in Nat
  BY <1>1, WindowType
<1>3. On(k, f) => f \in F
  OBVIOUS
<1>4. CASE c.w.one.n = 0
  <2>1. u = c.w
    BY <1>4 DEF Uncounted
  <2>2. Passing(k, f, a, v)
    BY <1>3, PassingEnds
  <2>3. Unasked(k, f) \/ v.n <= MaxCount
    BY <1>1 DEF Way
  <2> QED BY <1>1, <2>1, <2>2, <2>3
<1>5. CASE c.w.one.n # 0
  <2>1. On(k, "one")
    BY <1>5 DEF Way, Streams
  <2>2. u = [c.w EXCEPT !.one = Grown(c.w.one, -1), !.two = Grown(c.w.two, -1)]
    BY <1>5 DEF Uncounted
  <2>3. c.w.one \in Window /\ c.w.two \in Window /\ -1 \in Int
    BY <1>1 DEF Windows
  <2>4. Grown(c.w.one, -1) \in Window /\ Grown(c.w.two, -1) \in Window
    BY <2>3, GrownType
  <2>5. u \in [Windows -> Window] /\ u[f] = Grown(v, -1)
    <3> DEFINE one == Grown(c.w.one, -1)
               two == Grown(c.w.two, -1)
    <3>0. one \in Window /\ two \in Window
      BY <2>4
    <3>1. (f = "one" => Grown(v, -1) = one) /\ (f = "two" => Grown(v, -1) = two)
      OBVIOUS
    <3>2. u = [c.w EXCEPT !.one = one, !.two = two]
      BY <2>2
    <3> HIDE DEF one, two, u, v
    <3>3. u \in [Windows -> Window]
      BY <1>1, <3>0, <3>2
    <3>4. (f = "one" => u[f] = one) /\ (f = "two" => u[f] = two)
      BY <1>1, <3>2 DEF Windows
    <3>5. f = "one" \/ f = "two"
      BY DEF Streams
    <3> QED BY <3>1, <3>3, <3>4, <3>5
  <2> HIDE DEF u
  <2>6. CASE ~On(k, f)
    <3>1. f = "two"
      BY <2>1, <2>6 DEF Streams
    <3> QED BY <2>1, <2>5, <2>6, <3>1 DEF Passing, Unasked, u
  <2>7. CASE On(k, f)
    <3>0. Step(w, v, L, TRUE)
      <4>1. c.ok = TRUE
        BY <1>1 DEF Commands
      <4> QED BY <1>3, <2>7, <4>1 DEF Way
    <3>1. v.n # 0 /\ v.n <= MaxCount
      <4>1. ~Unasked(k, f)
        BY <2>7 DEF Unasked
      <4>2. v.n <= MaxCount
        BY <1>1, <4>1 DEF Way
      <4> HIDE DEF w, v, L
      <4>3. v.n # 0
        BY <1>2, <3>0 DEF Step
      <4> QED BY <4>2, <4>3
    <3>2. PICK x : x = Grown(v, -1)
      OBVIOUS
    <3>3. x \in Window /\ x.age = v.age /\ x.n = v.n - 1
      <4> HIDE DEF v
      <4>1. MaxCount + (-1) < Word /\ v.n + (-1) >= 0 /\ v.n + (-1) = v.n - 1
        <5>1. v.n \in Nat /\ v.n # 0 /\ MaxCount \in Nat /\ MaxCount + 1 < Word
          BY <1>1, <1>2, <3>1
        <5> QED BY <5>1 DEF Word
      <4> QED BY <1>1, <3>1, <3>2, <4>1, GrowsBy
    <3>4. Apart(a, w, L.time, L.count)
      BY <2>7 DEF Passing
    <3>5. More(a, a, 0)
      BY LenProperties DEF More
    <3> HIDE DEF w, v, L
    <3>6. Apart(a, x, L.time, L.count)
      <4>1. CASE v.n = 1 /\ v.age = 0 /\ (w.n = 0 \/ w.age >= L.time)
        <5>1. x.n = 0 /\ x.n >= 0 /\ 0 <= L.count
          BY <1>1, <3>3, <4>1
        <5> QED BY <1>1, <3>3, <3>4, <3>5, <4>1, <5>1, Opens
      <4>2. CASE w.n # 0 /\ w.n < L.count /\ v.n = w.n + 1 /\ v.age = w.age
        <5>1. x.n = w.n /\ x.n # 0 /\ x.age = w.age /\ x.n >= w.n
          BY <1>2, <3>3, <4>2
        <5> QED BY <1>1, <3>3, <3>4, <3>5, <4>2, <5>1, Continues
      <4> QED BY <3>0, <4>1, <4>2 DEF Step
    <3>7. x.n <= MaxCount
      BY <1>1, <1>2, <3>1, <3>3
    <3> QED BY <2>5, <2>7, <3>2, <3>6, <3>7 DEF Passing, L, u
  <2> QED BY <2>6, <2>7
<1> QED BY <1>4, <1>5
-----------------------------------------------------------------------------
\* The data.  A window takes what is below its limit, or its first visit.
Most(s) == IF DataLimits[s].count - 1 > Chunk THEN DataLimits[s].count - 1 ELSE Chunk
Reading(s, a, w) ==
    DataLimits[s].action # 0 => Apart(a, w, DataLimits[s].time, Most(s))

LEMMA DataFacts ==
    ASSUME NEW s \in Streams
    PROVE  /\ DataLimits[s].count \in Nat \ {0} /\ DataLimits[s].time \in Nat
           /\ DataLimits[s].action \in 0 .. 6
           /\ MaxCount \in Nat /\ Backlog \in Nat /\ Chunk \in Nat /\ Chunk > 0
           /\ MaxCount + Backlog + Chunk < Word /\ MaxCount + Backlog < Word
           /\ MaxCount + Chunk < Word
           /\ Most(s) \in Nat /\ Chunk <= Most(s)
           /\ \A x \in Nat : x < DataLimits[s].count => x <= Most(s)
<1>1. /\ DataLimits[s].count \in Nat \ {0} /\ DataLimits[s].time \in Nat
      /\ DataLimits[s].action \in 0 .. 6
  BY LimitsAssumption
<1>2. /\ MaxCount \in Nat /\ Backlog \in Nat /\ Chunk \in Nat /\ Chunk > 0
      /\ MaxCount + Backlog + Chunk < Word
  BY LimitsAssumption
<1>3. MaxCount + Backlog < Word /\ MaxCount + Chunk < Word
  BY <1>2 DEF Word
<1>4. /\ Most(s) \in Nat /\ Chunk <= Most(s)
      /\ \A x \in Nat : x < DataLimits[s].count => x <= Most(s)
  BY <1>1, <1>2 DEF Most
<1> QED BY <1>1, <1>2, <1>3, <1>4

LEMMA WindowIs ==
    ASSUME NEW w \in Window, w.n = 0, w.age = 0
    PROVE  w = Fresh
BY DEF Window, Fresh

\* What the judgement of a stream leaves of its window, before anything is
\* read: r is the answer, u what waits, w the window.
Verdict(r, w, u, L) ==
    \/ r.ok /\ r.w = Fresh /\ (w.n = 0 \/ w.age >= L.time)
    \/ r.ok /\ r.w = w /\ w.n # 0 /\ w.n + u < L.count
    \/ ~r.ok /\ r.w.n >= w.n /\ r.w.n # 0 /\ r.w.age = (IF w.n = 0 THEN 0 ELSE w.age)

LEMMA DataFloodIs ==
    ASSUME NEW m \in Members, NEW w \in Window, NEW L, L.count \in Nat, L.time \in Nat,
           L.action \in 1 .. 6, NEW r, r = CheckForDataFlood(m, w, L)
    PROVE  /\ r \in Answers
           /\ w.age >= L.time => r.ok /\ r.w = Fresh
           /\ w.age < L.time => r.w = w /\ (r.ok <=> w.n < L.count)
<1>1. w.n \in Nat /\ w.age \in Nat
  BY WindowType
<1>2. ASSUME NEW x \in Members, NEW v \in Window, r = Passes(x, v)
      PROVE  r \in Answers /\ r.ok = TRUE /\ r.w = v
  BY <1>2 DEF Passes, Answers
<1>3. ASSUME NEW x \in Members, NEW v \in Window, r = Refuses(x, v)
      PROVE  r \in Answers /\ r.ok = FALSE /\ r.w = v
  BY <1>3 DEF Refuses, Answers
<1>4. CASE w.age >= L.time
  <2>1. ~(w.age < L.time)
    BY <1>1, <1>4
  <2>2. r = Passes([m EXCEPT !.flooder = FALSE], Fresh)
    BY <2>1 DEF CheckForDataFlood, Within
  <2>3. r \in Answers /\ r.ok = TRUE /\ r.w = Fresh
    BY <1>2, <2>2, MemberType, FreshType
  <2> QED BY <2>1, <2>3
<1>5. CASE w.age < L.time /\ w.n < L.count
  <2>1. r = Passes(m, w)
    BY <1>5 DEF CheckForDataFlood, Within
  <2>2. r \in Answers /\ r.ok = TRUE /\ r.w = w
    BY <1>2, <2>1
  <2>3. ~(w.age >= L.time)
    BY <1>1, <1>5
  <2> QED BY <1>5, <2>2, <2>3
<1>6. CASE w.age < L.time /\ ~(w.n < L.count)
  <2>1. [m EXCEPT !.flooder = TRUE] \in Members
    BY MemberType
  <2>2. DoAction([m EXCEPT !.flooder = TRUE], L.action) \in Members
    BY <2>1, MemberType
  <2>3. \E x \in Members : r = Refuses(x, w)
    BY <1>6, <2>2 DEF CheckForDataFlood, Within
  <2>4. r \in Answers /\ r.ok = FALSE /\ r.w = w
    BY <1>3, <2>3
  <2>5. ~(w.age >= L.time)
    BY <1>1, <1>6
  <2> QED BY <1>6, <2>4, <2>5
<1> QED BY <1>1, <1>4, <1>5, <1>6

LEMMA JudgedIs ==
    ASSUME TypeOK, NEW m \in Members, NEW s \in Streams, waiting > 0
    PROVE  /\ Judged(m, s) \in Answers
           /\ DataLimits[s].action = 0 => Judged(m, s).w = recv[s]
           /\ DataLimits[s].action # 0
              => Verdict(Judged(m, s), recv[s], waiting, DataLimits[s])
<1> DEFINE L == DataLimits[s]
           w == recv[s]
<1>1. w \in Window /\ w.n <= MaxCount /\ waiting \in 0 .. Backlog
  BY DEF TypeOK
<1>2. w.n \in Nat /\ w.age \in Nat /\ waiting \in Nat
  BY <1>1, WindowType, DataFacts
<1>3. CASE L.action = 0
  <2>1. Judged(m, s) = Passes(m, recv[s])
    BY <1>3 DEF Judged
  <2>2. Judged(m, s) \in Answers /\ Judged(m, s).w = recv[s]
    BY <1>1, <2>1 DEF Passes, Answers
  <2> QED BY <1>3, <2>2
<1>4. CASE L.action # 0
  <2>0. L.count \in Nat /\ L.time \in Nat /\ L.action \in 1 .. 6
    BY <1>4, DataFacts
  <2>1. PICK o : o = IF w.n = 0 THEN Fresh ELSE w
    OBVIOUS
  <2>2. /\ o \in Window /\ o.n = w.n /\ (w.n # 0 => o = w) /\ (w.n = 0 => o = Fresh)
        /\ o.age \in Nat /\ (w.n = 0 => o.age = 0)
    BY <1>1, <2>1, FreshType, WindowType
  <2>3. PICK g : g = Grown(o, waiting)
    OBVIOUS
  <2>4. g \in Window /\ g.age = o.age /\ g.n = w.n + waiting
    <3>1. MaxCount + waiting < Word /\ o.n + waiting >= 0 /\ MaxCount \in Nat /\ waiting \in Int
          /\ o.n <= MaxCount
      BY <1>1, <1>2, <2>2, DataFacts DEF Word
    <3> QED BY <2>2, <2>3, <3>1, GrowsBy
  <2>5. PICK r : r = CheckForDataFlood(m, g, L)
    OBVIOUS
  <2>6. /\ r \in Answers
        /\ g.age >= L.time => r.ok /\ r.w = Fresh
        /\ g.age < L.time => r.w = g /\ (r.ok <=> g.n < L.count)
    BY <2>0, <2>4, <2>5, DataFloodIs
  <2>7. PICK b : b = IF r.ok /\ r.w.n # 0 THEN Grown(r.w, -waiting) ELSE r.w
    OBVIOUS
  <2>8. PICK j : j = [r EXCEPT !.w = b]
    OBVIOUS
  <2>9. Judged(m, s) = j
    BY <1>4, <2>1, <2>3, <2>5, <2>7, <2>8, Zenon DEF Judged
  <2>10. b \in Window => j \in Answers /\ j.w = b /\ j.ok = r.ok
    BY <2>6, <2>8 DEF Answers
  <2> HIDE DEF L, w
  <2>11. CASE g.age >= L.time
    <3>1. b = Fresh
      BY <2>6, <2>7, <2>11, FreshType
    <3>2. w.n = 0 \/ w.age >= L.time
      BY <2>2, <2>4, <2>11
    <3>3. j \in Answers /\ j.w = Fresh /\ j.ok
      BY <2>6, <2>10, <2>11, <3>1, FreshType
    <3> QED BY <1>4, <2>9, <3>2, <3>3 DEF Verdict, L, w
  <2>12. CASE g.age < L.time /\ g.n < L.count
    <3>1. r.ok /\ r.w = g /\ g.n # 0
      BY <1>2, <2>4, <2>6, <2>12
    <3>2. b = Grown(g, -waiting)
      BY <2>7, <3>1
    <3>3. b \in Window /\ b.age = o.age /\ b.n = w.n
      <4>1. g.n + (-waiting) = w.n /\ -waiting \in Int /\ w.n \in 0 .. Word - 1
        BY <1>1, <1>2, <2>4, WindowType DEF Window
      <4> QED BY <2>4, <3>2, <4>1, GrownType
    <3>4. j \in Answers /\ j.w = b /\ j.ok
      BY <2>10, <3>1, <3>3
    <3>5. CASE w.n = 0
      <4>1. b = Fresh
        BY <2>2, <3>3, <3>5, WindowIs
      <4> QED BY <1>4, <2>9, <3>4, <3>5, <4>1 DEF Verdict, L, w
    <3>6. CASE w.n # 0
      <4>1. b = w
        <5>1. b.n = w.n /\ b.age = w.age
          BY <2>2, <3>3, <3>6
        <5> QED BY <1>1, <3>3, <5>1 DEF Window
      <4>2. w.n + waiting < L.count
        BY <2>4, <2>12
      <4> QED BY <1>4, <2>9, <3>4, <3>6, <4>1, <4>2 DEF Verdict, L, w
    <3> QED BY <3>5, <3>6
  <2>13. CASE g.age < L.time /\ ~(g.n < L.count)
    <3>1. ~r.ok /\ r.w = g
      BY <2>6, <2>13
    <3>2. b = g
      BY <2>7, <3>1
    <3>3. j \in Answers /\ j.w = g /\ ~j.ok
      BY <2>4, <2>10, <3>1, <3>2
    <3>4. g.n >= w.n /\ g.n # 0 /\ g.age = (IF w.n = 0 THEN 0 ELSE w.age)
      BY <1>2, <2>2, <2>4
    <3> QED BY <1>4, <2>9, <3>3, <3>4 DEF Verdict, L, w
  <2>14. g.age \in Nat
    BY <2>2, <2>4
  <2> QED BY <2>0, <2>11, <2>12, <2>13, <2>14 DEF L
<1> QED BY <1>3, <1>4

LEMMA AtMostAll ==
    ASSUME NEW all \in Nat, NEW g \in {0, all}
    PROVE  g \in Nat /\ g <= all
OBVIOUS

\* What is read after the judgement, at most a chunk and only if it may be.
LEMMA ReadingStep ==
    ASSUME NEW a \in Seq(Nat), NEW b, NEW s \in Streams, NEW w \in Window,
           NEW r \in Answers, NEW u \in Nat, NEW got \in Nat, NEW g \in {0, got},
           DataLimits[s].action # 0, Reading(s, a, w), More(a, b, g),
           Verdict(r, w, u, DataLimits[s]), r.w.n <= MaxCount,
           got <= u, got <= Chunk, got = 0 \/ r.ok
    PROVE  Reading(s, b, Grown(r.w, got))
<1> DEFINE L == DataLimits[s]
           most == Most(s)
<1>1. /\ L.count \in Nat /\ L.time \in Nat /\ most \in Nat /\ got <= most /\ got >= 0
      /\ \A x \in Nat : x < L.count => x <= most
      /\ MaxCount \in Nat /\ MaxCount + got < Word
  <2>1. MaxCount + got < Word
    <3>1. MaxCount \in Nat /\ Chunk \in Nat /\ MaxCount + Chunk < Word
      BY DataFacts
    <3> QED BY <3>1 DEF Word
  <2>2. got <= most
    <3>1. Chunk \in Nat /\ most \in Nat /\ Chunk <= most
      BY DataFacts
    <3> HIDE DEF most
    <3> QED BY <3>1
  <2> HIDE DEF most
  <2>3. \A x \in Nat : x < L.count => x <= most
    BY DataFacts DEF most
  <2>4. L.count \in Nat /\ L.time \in Nat /\ most \in Nat /\ MaxCount \in Nat
    BY DataFacts DEF most
  <2> QED BY <2>1, <2>2, <2>3, <2>4
<1>2. r.w \in Window
  BY DEF Answers
<1>3. /\ r.w.n \in Nat /\ r.w.age \in Nat /\ w.n \in Nat /\ w.age \in Nat
  BY <1>2, WindowType
<1>4. PICK v : v = Grown(r.w, got)
  OBVIOUS
<1>5. v \in Window /\ v.n = r.w.n + got /\ v.age = r.w.age
  <2>1. r.w.n + got >= 0 /\ got \in Int /\ MaxCount \in Nat /\ MaxCount + got < Word
    BY <1>1, <1>3
  <2> QED BY <1>2, <1>4, <2>1, GrowsBy
<1>6. Apart(a, w, L.time, most)
  BY DEF Reading
<1> HIDE DEF L, most
<1>7. g \in Nat /\ g <= got
  BY AtMostAll
<1>8. Apart(b, v, L.time, most)
  <2>1. CASE r.ok /\ r.w = Fresh /\ (w.n = 0 \/ w.age >= L.time)
    <3>1. v.n = got /\ v.age = 0
      BY <1>5, <2>1, FreshType
    <3>2. v.n >= g /\ g <= most
      BY <1>1, <1>7, <3>1
    <3> QED BY <1>1, <1>5, <1>6, <1>7, <2>1, <3>1, <3>2, Opens
  <2>2. CASE r.ok /\ r.w = w /\ w.n # 0 /\ w.n + u < L.count
    <3>1. w.n + g <= most
      <4>1. w.n + g \in Nat /\ w.n + g < L.count
        BY <1>1, <1>3, <1>7, <2>2
      <4> QED BY <1>1, <4>1
    <3>2. v.n >= w.n + g /\ v.n # 0 /\ v.age = w.age
      BY <1>3, <1>5, <1>7, <2>2
    <3> QED BY <1>1, <1>5, <1>6, <1>7, <2>2, <3>1, <3>2, Continues
  <2>3. CASE ~r.ok /\ r.w.n >= w.n /\ r.w.n # 0 /\ r.w.age = (IF w.n = 0 THEN 0 ELSE w.age)
    <3>1. got = 0 /\ g = 0
      BY <2>3
    <3>2. v.n = r.w.n
      BY <1>3, <1>5, <3>1
    <3>3. CASE w.n = 0
      <4>1. v.age = 0
        BY <1>5, <2>3, <3>3
      <4>2. v.n >= g /\ g <= most
        BY <1>1, <1>3, <3>1, <3>2
      <4> QED BY <1>1, <1>5, <1>6, <1>7, <3>3, <4>1, <4>2, Opens
    <3>4. CASE w.n # 0
      <4>1. v.age = w.age /\ v.n >= w.n /\ v.n # 0
        BY <1>5, <2>3, <3>2, <3>4
      <4> QED BY <1>1, <1>5, <1>6, <1>7, <3>1, <3>4, <4>1, Continues
    <3> QED BY <3>3, <3>4
  <2> QED BY <2>1, <2>2, <2>3 DEF Verdict, L
<1> QED BY <1>4, <1>8 DEF Reading, L, most

\* A stream that is not judged, since the first one has refused.
LEMMA ReadingKept ==
    ASSUME NEW a \in Seq(Nat), NEW b, NEW s \in Streams, NEW w \in Window, w.n <= MaxCount,
           Reading(s, a, w), More(a, b, 0)
    PROVE  Reading(s, b, Grown(w, 0))
<1>1. w.n \in Nat /\ MaxCount \in Nat /\ MaxCount + 0 < Word /\ w.n + 0 >= 0
  BY WindowType, DataFacts DEF Word
<1>2. PICK v : v = Grown(w, 0)
  OBVIOUS
<1>3. v \in Window /\ v.n = w.n + 0 /\ v.age = w.age
  BY <1>1, <1>2, GrowsBy
<1>4. v = w
  BY <1>1, <1>3 DEF Window
<1>5. b = a
  <2>1. Len(a) \in Nat /\ b \in Seq(Nat) /\ Len(b) = Len(a)
        /\ \A i \in 1 .. Len(a) : b[i] = a[i]
    BY LenProperties DEF More
  <2> QED BY <2>1, SeqEqual
<1> QED BY <1>2, <1>4, <1>5
-----------------------------------------------------------------------------
\* The invariant: types, and what was let through stands apart from every
\* window that is asked.
FloodInv ==
    /\ TypeOK
    /\ passed \in [Kinds -> Seq(Nat)] /\ read \in Seq(Nat)
    /\ \A k \in Kinds, f \in Streams : Passing(k, f, passed[k], win[k][f])
    /\ \A s \in Streams : Reading(s, read, recv[s])

LEMMA Empty ==
    ASSUME NEW time \in Nat, NEW most \in Nat
    PROVE  Apart(<<>>, Fresh, time, most) /\ <<>> \in Seq(Nat)
<1>1. \A i \in 1 .. Len(<<>>) - most : FALSE
  OBVIOUS
<1> QED BY <1>1, FreshType DEF Apart

LEMMA Nought ==
    /\ NoWindows \in [Kinds -> [Windows -> Window]]
    /\ \A k \in Kinds, f \in Windows : NoWindows[k][f] = Fresh
    /\ NoTexts \in [Kinds -> Texts \cup {NoText}]
    /\ NoVerses \in [Kinds -> [lines : Nat, n : Nat]]
    /\ Nothing \in [Kinds -> Seq(Nat)] /\ \A k \in Kinds : Nothing[k] = <<>>
    /\ NoData \in [Streams -> Window] /\ \A s \in Streams : NoData[s] = Fresh
<1>1. NoLines \in [lines : Nat, n : Nat]
  BY DEF NoLines
<1>2. <<>> \in Seq(Nat)
  OBVIOUS
<1> QED BY <1>1, <1>2, FreshType DEF NoWindows, NoTexts, NoVerses, Nothing, NoData

\* Nobody has counted anything: the first state, and who comes anew.
Afresh ==
    /\ who \in Members
    /\ win = NoWindows /\ last = NoTexts /\ multi = NoVerses /\ passed = Nothing
    /\ recv = NoData /\ waiting = 0 /\ read = <<>>

LEMMA AfreshInv ==
    ASSUME Afresh
    PROVE  FloodInv
<1>1. TypeOK
  <2>1. \A k \in Kinds, f \in Windows : win[k][f].n <= MaxCount
    <3>1. MaxCount \in Nat
      BY LimitsAssumption
    <3> QED BY <3>1, FreshType, Nought DEF Afresh
  <2>2. \A s \in Streams : recv[s].n <= MaxCount
    <3>1. MaxCount \in Nat
      BY LimitsAssumption
    <3> QED BY <3>1, FreshType, Nought DEF Afresh
  <2>3. waiting \in 0 .. Backlog
    BY LimitsAssumption DEF Afresh
  <2> QED BY <2>1, <2>2, <2>3, Nought DEF Afresh, TypeOK, Members
<1>2. ASSUME NEW k \in Kinds, NEW f \in Streams PROVE Passing(k, f, passed[k], win[k][f])
  <2>1. f \in Windows
    BY DEF Streams, Windows
  <2>2. passed[k] = <<>> /\ win[k][f] = Fresh
    BY <2>1, Nought DEF Afresh
  <2>3. Apart(<<>>, Fresh, Limits[k][f].time, Limits[k][f].count)
    BY <2>1, Empty, LimitFacts
  <2> QED BY <2>2, <2>3, FreshType DEF Passing
<1>3. ASSUME NEW s \in Streams PROVE Reading(s, read, recv[s])
  <2>1. read = <<>> /\ recv[s] = Fresh
    BY Nought DEF Afresh
  <2>2. Apart(<<>>, Fresh, DataLimits[s].time, Most(s))
    BY Empty, DataFacts
  <2> QED BY <2>1, <2>2 DEF Reading
<1>4. passed \in [Kinds -> Seq(Nat)] /\ read \in Seq(Nat)
  BY Nought DEF Afresh
<1> QED BY <1>1, <1>2, <1>3, <1>4 DEF FloodInv

LEMMA InitFloodInv == Init => FloodInv
<1>1. New \in Members
  BY DEF New, Members, Bans
<1> QED BY <1>1, AfreshInv DEF Init, Afresh

LEMMA GoesKeeps ==
    ASSUME NEW m \in Members, Goes(m)
    PROVE  FloodInv'
<1>1. [m EXCEPT !.warnings = 0, !.flooder = FALSE] \in Members
  BY DEF Members
<1>2. Afresh'
  BY <1>1 DEF Goes, Afresh
<1>3. Afresh' => FloodInv'
  BY AfreshInv, PTL
<1> QED BY <1>2, <1>3

LEMMA EndsKeeps ==
    ASSUME FloodInv, NEW k \in Kinds, NEW F, NEW c, Way(c, k, F),
           \A f \in Streams : On(k, f) => f \in F, Ends(c, k)
    PROVE  FloodInv'
<1>0. c \in Commands /\ c.who \in Members /\ c.w \in [Windows -> Window]
      /\ c.last \in Texts \cup {NoText} /\ c.multi \in [lines : Nat, n : Nat]
  BY DEF Way, Commands
<1>1. CASE ~c.who.open
  BY <1>0, <1>1, GoesKeeps DEF Ends
<1>2. CASE c.who.open
  <2>1. /\ who' = c.who
        /\ win' = [win EXCEPT ![k] = c.w]
        /\ last' = [last EXCEPT ![k] = c.last]
        /\ multi' = [multi EXCEPT ![k] = c.multi]
        /\ passed' = [passed EXCEPT ![k] = IF c.ok /\ Longest(k) > 0 THEN Append(@, 0) ELSE @]
        /\ recv' = recv /\ waiting' = waiting /\ read' = read
    BY <1>2 DEF Ends, stream
  <2>2. \A f \in Windows : Unasked(k, f) \/ c.w[f].n <= MaxCount
    <3>1. ASSUME NEW f \in Windows, ~Unasked(k, f) PROVE c.w[f].n <= MaxCount
      <4>1. c.w[f].n < MaxCount /\ c.w[f] \in Window /\ MaxCount \in Nat
        BY <1>0, <3>1, DataFacts, LimitsAssumption DEF Ends
      <4> QED BY <4>1, WindowType
    <3> QED BY <3>1
  <2>3. TypeOK'
    <3>1. win' \in [Kinds -> [Windows -> Window]]
      BY <1>0, <2>1 DEF FloodInv, TypeOK
    <3>2. \A j \in Kinds, f \in Windows : Unasked(j, f) \/ win'[j][f].n <= MaxCount
      <4>1. ASSUME NEW j \in Kinds, NEW f \in Windows
            PROVE Unasked(j, f) \/ win'[j][f].n <= MaxCount
        BY <2>1, <2>2 DEF FloodInv, TypeOK
      <4> QED BY <4>1
    <3>3. last' \in [Kinds -> Texts \cup {NoText}] /\ multi' \in [Kinds -> [lines : Nat, n : Nat]]
      BY <1>0, <2>1 DEF FloodInv, TypeOK
    <3> QED BY <1>0, <2>1, <3>1, <3>2, <3>3 DEF FloodInv, TypeOK, Members, Unasked, On
  <2>4. passed' \in [Kinds -> Seq(Nat)] /\ read' \in Seq(Nat)
    <3>1. passed[k] \in Seq(Nat) /\ Append(passed[k], 0) \in Seq(Nat)
      BY AppendProperties DEF FloodInv
    <3> QED BY <2>1, <3>1 DEF FloodInv
  <2>5. ASSUME NEW j \in Kinds, NEW f \in Streams
        PROVE Passing(j, f, passed'[j], win'[j][f])
    <3>1. CASE j # k
      BY <2>1, <3>1 DEF FloodInv, TypeOK
    <3>2. CASE j = k
      <4>1. win'[j][f] = c.w[f]
        BY <2>1, <3>2 DEF FloodInv, TypeOK
      <4>2. \/ passed'[j] = passed[k]
            \/ c.ok /\ passed'[j] = Append(passed[k], 0)
        BY <2>1, <3>2 DEF FloodInv
      <4>3. passed[k] \in Seq(Nat) /\ Passing(k, f, passed[k], win[k][f]) /\ TypeOK
        BY DEF FloodInv
      <4>4. On(k, f) => f \in F
        OBVIOUS
      <4>5. /\ Passing(k, f, passed[k], c.w[f])
            /\ c.ok => Passing(k, f, Append(passed[k], 0), c.w[f])
        BY <4>3, <4>4, PassingEnds
      <4> QED BY <3>2, <4>1, <4>2, <4>5
    <3> QED BY <3>1, <3>2
  <2>6. \A s \in Streams : Reading(s, read', recv'[s])
    BY <2>1 DEF FloodInv
  <2> QED BY <2>3, <2>4, <2>5, <2>6 DEF FloodInv, Passing, Reading, On, Most, Apart
<1> QED BY <1>1, <1>2

LEMMA UncountedKeeps ==
    ASSUME FloodInv, NEW k \in Kinds, NEW c, Way(c, k, Streams), EndsUncounted(c, k)
    PROVE  FloodInv'
<1>0. c \in Commands /\ c.ok
      /\ c.last \in Texts \cup {NoText} /\ c.multi \in [lines : Nat, n : Nat]
  BY DEF Way, Commands, EndsUncounted
<1>1. PICK w : w = Uncounted(c.w)
  OBVIOUS
<1>2. /\ win' = [win EXCEPT ![k] = w]
      /\ last' = [last EXCEPT ![k] = c.last]
      /\ multi' = [multi EXCEPT ![k] = c.multi]
      /\ who' = who /\ passed' = passed /\ recv' = recv /\ waiting' = waiting /\ read' = read
  BY <1>1 DEF EndsUncounted, stream
<1>3. ASSUME NEW f \in Streams
      PROVE  /\ w \in [Windows -> Window]
             /\ Passing(k, f, passed[k], w[f])
             /\ Unasked(k, f) \/ w[f].n <= MaxCount
  <2>1. passed[k] \in Seq(Nat) /\ Passing(k, f, passed[k], win[k][f]) /\ TypeOK
    BY DEF FloodInv
  <2>2. ~On(k, "one") => win[k].one.n = 0
    <3>1. Passing(k, "one", passed[k], win[k].one)
      BY DEF FloodInv, Streams
    <3> QED BY <3>1 DEF Passing
  <2> QED BY <1>0, <1>1, <2>1, <2>2, PassingUncounted
<1>4. w \in [Windows -> Window]
  BY <1>3 DEF Streams
<1>5. \A f \in Windows : Unasked(k, f) \/ w[f].n <= MaxCount
  <2>1. ASSUME NEW f \in {"same", "int"} PROVE Unasked(k, f) \/ w[f].n <= MaxCount
    <3>1. w[f] = c.w[f]
      BY <1>0, <1>1 DEF Uncounted, Commands, Windows
    <3> QED BY <1>0, <3>1 DEF Way, Windows
  <2> QED BY <1>3, <2>1 DEF Windows, Streams
<1>6. TypeOK'
  <2>1. win' \in [Kinds -> [Windows -> Window]]
    BY <1>2, <1>4 DEF FloodInv, TypeOK
  <2>2. \A j \in Kinds, f \in Windows : Unasked(j, f) \/ win'[j][f].n <= MaxCount
    <3>1. ASSUME NEW j \in Kinds, NEW f \in Windows
          PROVE Unasked(j, f) \/ win'[j][f].n <= MaxCount
      BY <1>2, <1>5 DEF FloodInv, TypeOK
    <3> QED BY <3>1
  <2>3. last' \in [Kinds -> Texts \cup {NoText}] /\ multi' \in [Kinds -> [lines : Nat, n : Nat]]
    BY <1>0, <1>2 DEF FloodInv, TypeOK
  <2> QED BY <1>2, <2>1, <2>2, <2>3 DEF FloodInv, TypeOK, Unasked, On
<1>7. ASSUME NEW j \in Kinds, NEW f \in Streams
      PROVE Passing(j, f, passed'[j], win'[j][f])
  <2>1. win'[j] = IF j = k THEN w ELSE win[j]
    BY <1>2 DEF FloodInv, TypeOK
  <2> QED BY <1>2, <1>3, <2>1 DEF FloodInv
<1>8. \A s \in Streams : Reading(s, read', recv'[s])
  BY <1>2 DEF FloodInv
<1>9. passed' \in [Kinds -> Seq(Nat)] /\ read' \in Seq(Nat)
  BY <1>2 DEF FloodInv
<1> QED BY <1>6, <1>7, <1>8, <1>9 DEF FloodInv, Passing, Reading, On, Most, Apart

\* The ways of the handlers: each asks both limits of its kind, but for nick
\* lists, which have one.
LEMMA ChatKeeps ==
    ASSUME FloodInv, NEW text \in Texts, NEW flaw
    PROVE  /\ Chat(text, flaw) => FloodInv'
           /\ ChatHubCommand(text) => FloodInv'
<1>1. "chat" \in Kinds /\ TypeOK
  BY DEF Kinds, FloodInv
<1>2. ASSUME NEW x PROVE Way(ChatWay(text, x), "chat", Streams)
  <2> DEFINE c == When(x = "spoofed", Arrives("chat"), Spoofed)
             d == SameText(Floods(c, "chat"), "chat", text)
             e == When(x \in {"short", "long"}, d, Refused)
             g == Interval(LineLimits(e, "chat", text), "chat")
  <2>1. Way(c, "chat", {})
    BY <1>1, WayArrives, WayWhen
  <2>2. Way(d, "chat", Streams)
    <3> HIDE DEF c
    <3> QED BY <1>1, <2>1, WayFloods, WaySameText
  <2>3. Way(e, "chat", Streams)
    <3> HIDE DEF d
    <3> QED BY <1>1, <2>2, WayWhen
  <2>4. Way(g, "chat", Streams)
    <3> HIDE DEF e
    <3> QED BY <1>1, <2>3, WayLineLimits, WayInterval
  <2>5. Way(When(x = "script", g, Refused), "chat", Streams)
    <3> HIDE DEF g
    <3> QED BY <1>1, <2>4, WayWhen
  <2> QED BY <2>5, Zenon DEF ChatWay
<1>3. \A f \in Streams : On("chat", f) => f \in Streams
  OBVIOUS
<1>4. Chat(text, flaw) => FloodInv'
  BY <1>1, <1>2, <1>3, EndsKeeps DEF Chat
<1>5. ChatHubCommand(text) => FloodInv'
  BY <1>1, <1>2, UncountedKeeps DEF ChatHubCommand
<1> QED BY <1>4, <1>5

LEMMA ToKeeps ==
    ASSUME FloodInv, NEW text \in Texts, NEW flaw
    PROVE  /\ To(text, flaw) => FloodInv'
           /\ ToHubCommand(text) => FloodInv'
<1>1. "pm" \in Kinds /\ TypeOK
  BY DEF Kinds, FloodInv
<1>2. ASSUME NEW x PROVE Way(ToWay(text, x), "pm", Streams)
  <2> DEFINE c == When(x \in {"short", "spoofed"}, Arrives("pm"), Spoofed)
             d == SameText(Floods(c, "pm"), "pm", text)
             e == When(x = "long", d, Refused)
             g == Interval(LineLimits(e, "pm", text), "pm")
  <2>1. Way(c, "pm", {})
    BY <1>1, WayArrives, WayWhen
  <2>2. Way(d, "pm", Streams)
    <3> HIDE DEF c
    <3> QED BY <1>1, <2>1, WayFloods, WaySameText
  <2>3. Way(e, "pm", Streams)
    <3> HIDE DEF d
    <3> QED BY <1>1, <2>2, WayWhen
  <2>4. Way(g, "pm", Streams)
    <3> HIDE DEF e
    <3> QED BY <1>1, <2>3, WayLineLimits, WayInterval
  <2>5. Way(When(x = "script", g, Refused), "pm", Streams)
    <3> HIDE DEF g
    <3> QED BY <1>1, <2>4, WayWhen
  <2> QED BY <2>5, Zenon DEF ToWay
<1>3. \A f \in Streams : On("pm", f) => f \in Streams
  OBVIOUS
<1>4. To(text, flaw) => FloodInv'
  BY <1>1, <1>2, <1>3, EndsKeeps DEF To
<1>5. ToHubCommand(text) => FloodInv'
  BY <1>1, <1>2, UncountedKeeps DEF ToHubCommand
<1> QED BY <1>4, <1>5

LEMMA SearchKeeps ==
    ASSUME FloodInv, NEW text \in Texts, NEW flaw, Search(text, flaw)
    PROVE  FloodInv'
<1>1. "search" \in Kinds /\ TypeOK
  BY DEF Kinds, FloodInv
<1> DEFINE c == SearchDeflood(text)
           d == When(flaw = "short", c, Spoofed)
           e == Interval(d, "search")
           g == When(flaw \in {"script", "long"}, e, Refused)
           h == When(flaw = "spoofed", g, Spoofed)
<1>2. Way(c, "search", Streams)
  BY <1>1, WayArrives, WayFloods, WaySameText DEF SearchDeflood
<1>3. Way(d, "search", Streams)
  <2> HIDE DEF c
  <2> QED BY <1>1, <1>2, WayWhen
<1>4. Way(e, "search", Streams)
  <2> HIDE DEF d
  <2> QED BY <1>1, <1>3, WayInterval
<1>5. Way(g, "search", Streams)
  <2> HIDE DEF e
  <2> QED BY <1>1, <1>4, WayWhen
<1>6. Way(h, "search", Streams)
  <2> HIDE DEF g
  <2> QED BY <1>1, <1>5, WayWhen
<1>7. Ends(h, "search")
  BY Zenon DEF Search
<1> HIDE DEF h
<1> QED BY <1>1, <1>6, <1>7, EndsKeeps

LEMMA RequestKeeps ==
    ASSUME FloodInv, NEW k \in Kinds, NEW before, NEW after, NEW flaw,
           Request(k, before, after, flaw)
    PROVE  FloodInv'
<1> DEFINE c == When(flaw \in before, Arrives(k), Spoofed)
           d == When(flaw \in after, Floods(c, k), Spoofed)
           e == When(flaw = "script", d, Refused)
<1>1. Way(c, k, {})
  BY WayArrives, WayWhen DEF FloodInv
<1>2. Way(d, k, Streams)
  <2> HIDE DEF c
  <2> QED BY <1>1, WayFloods, WayWhen
<1>3. Way(e, k, Streams)
  <2> HIDE DEF d
  <2> QED BY <1>2, WayWhen
<1>4. Ends(e, k)
  BY Zenon DEF Request
<1> HIDE DEF e
<1> QED BY <1>3, <1>4, EndsKeeps

LEMMA GetNickListKeeps ==
    ASSUME FloodInv, NEW flaw, GetNickList(flaw)
    PROVE  FloodInv'
<1> DEFINE k == "nicklist"
           c == When(flaw = "spoofed", Arrives(k), Spoofed)
           d == Flood(c, k, "one")
           e == When(flaw = "script", d, Refused)
<1>0. k \in Kinds /\ "one" \in Streams /\ "one" \notin {} /\ {} \cup {"one"} = {"one"}
  BY DEF Kinds, Streams
<1>1. Way(c, k, {})
  BY <1>0, WayArrives, WayWhen DEF FloodInv
<1>2. Way(d, k, {} \cup {"one"})
  <2> HIDE DEF c, k
  <2> QED BY <1>0, <1>1, WayFlood
<1>3. Way(e, k, {"one"})
  <2> HIDE DEF d, k
  <2> QED BY <1>0, <1>2, WayWhen
<1>4. Ends(e, k)
  BY Zenon DEF GetNickList
<1>5. \A f \in Streams : On(k, f) => f \in {"one"}
  BY LimitsAssumption DEF On, Streams
<1> HIDE DEF e, k
<1> QED BY <1>0, <1>3, <1>4, <1>5, EndsKeeps
-----------------------------------------------------------------------------
\* The answer of a stream, and what it leaves of its window when got is read.
Now(s, w, got) == IF DataLimits[s].action = 0 THEN w ELSE Grown(w, got)
Answered(s, r, u) ==
    /\ r \in Answers
    /\ \/ r.w = recv[s] /\ ~r.ok
       \/ DataLimits[s].action = 0 /\ r.w = recv[s]
       \/ DataLimits[s].action # 0 /\ Verdict(r, recv[s], u, DataLimits[s])

LEMMA ReadingNow ==
    ASSUME FloodInv, NEW s \in Streams, NEW r, NEW u \in Nat, Answered(s, r, u),
           NEW got \in Nat, got <= u, got <= Chunk, got = 0 \/ r.ok, r.w.n + got < MaxCount,
           NEW g \in {0, got}, NEW b, More(read, b, g)
    PROVE  /\ Now(s, r.w, got) \in Window /\ Now(s, r.w, got).n <= MaxCount
           /\ Reading(s, b, Now(s, r.w, got))
<1>1. r \in Answers /\ r.w \in Window /\ recv[s] \in Window /\ recv[s].n <= MaxCount
      /\ read \in Seq(Nat) /\ Reading(s, read, recv[s])
  BY DEF Answered, Answers, FloodInv, TypeOK
<1>2. r.w.n \in Nat /\ MaxCount \in Nat /\ MaxCount + got < Word /\ r.w.n <= MaxCount
      /\ r.w.n + got <= MaxCount /\ r.w.n + got >= 0
  <2>1. r.w.n \in Nat
    BY <1>1, WindowType
  <2>2. MaxCount \in Nat /\ Chunk \in Nat /\ MaxCount + Chunk < Word
    BY DataFacts
  <2> QED BY <2>1, <2>2 DEF Word
<1>3. CASE DataLimits[s].action = 0
  BY <1>1, <1>2, <1>3 DEF Now, Reading
<1>4. CASE DataLimits[s].action # 0
  <2>1. Now(s, r.w, got) = Grown(r.w, got)
    BY <1>4 DEF Now
  <2>2. Grown(r.w, got) \in Window /\ Grown(r.w, got).n <= MaxCount
    <3>1. Grown(r.w, got) \in Window /\ Grown(r.w, got).n = r.w.n + got
      BY <1>1, <1>2, GrowsBy
    <3> QED BY <1>2, <3>1
  <2>3. Reading(s, b, Grown(r.w, got))
    <3>1. CASE r.w = recv[s] /\ ~r.ok
      BY <1>1, <3>1, ReadingKept
    <3>2. CASE Verdict(r, recv[s], u, DataLimits[s])
      BY <1>1, <1>2, <1>4, <3>2, ReadingStep
    <3> QED BY <1>4, <3>1, <3>2 DEF Answered
  <2> QED BY <2>1, <2>2, <2>3
<1> QED BY <1>3, <1>4

LEMMA DoRecvKeeps ==
    ASSUME FloodInv, DoRecv
    PROVE  FloodInv'
<1> DEFINE one == Judged(who, "one")
           two == IF one.ok THEN Judged(one.who, "two") ELSE Refuses(one.who, recv.two)
           got == IF ~two.ok THEN 0 ELSE IF waiting < Chunk THEN waiting ELSE Chunk
           ans == [s \in Streams |-> IF s = "one" THEN one ELSE two]
<1>1. /\ waiting > 0
      /\ one.w.n + got < MaxCount /\ two.w.n + got < MaxCount
      /\ \/ Goes(two.who)
         \/ /\ who' = two.who
            /\ recv' = [s \in Streams |-> Now(s, IF s = "one" THEN one.w ELSE two.w, got)]
            /\ waiting' = waiting - got
            /\ read' = IF Horizon = 0 THEN read ELSE read \o [i \in 1 .. got |-> 0]
            /\ UNCHANGED said
  BY Zenon DEF DoRecv, Now
<1>2. TypeOK /\ who \in Members /\ recv["two"] \in Window /\ waiting \in Nat
      /\ waiting \in 0 .. Backlog /\ read \in Seq(Nat) /\ Len(read) \in Nat
      /\ "one" \in Streams /\ "two" \in Streams
  <2>1. TypeOK /\ read \in Seq(Nat) /\ Backlog \in Nat /\ "one" \in Streams /\ "two" \in Streams
    BY LimitsAssumption DEF FloodInv, Streams
  <2>2. waiting \in 0 .. Backlog /\ recv["two"] \in Window /\ who \in Members
    BY <2>1 DEF TypeOK, Members
  <2> QED BY <2>1, <2>2, LenProperties
<1>3. one \in Answers /\ Answered("one", one, waiting) /\ one.who \in Members
  BY <1>1, <1>2, JudgedIs DEF Answered, Answers
<1>4. two \in Answers /\ Answered("two", two, waiting) /\ (two.ok => one.ok)
      /\ two.who \in Members
  <2> HIDE DEF one
  <2>1. CASE one.ok
    BY <1>1, <1>2, <1>3, <2>1, JudgedIs DEF Answered, Answers
  <2>2. CASE ~one.ok
    <3>1. two = Refuses(one.who, recv["two"])
      BY <2>2
    <3>2. two = [who |-> one.who, w |-> recv["two"], ok |-> FALSE]
      BY <3>1 DEF Refuses
    <3> HIDE DEF two
    <3>4. two \in Answers /\ two.w = recv["two"] /\ ~two.ok
      BY <1>2, <1>3, <3>2 DEF Answers
    <3> QED BY <2>2, <3>4 DEF Answered, Answers
  <2> QED BY <2>1, <2>2
<1> HIDE DEF one, two
<1>5. got \in Nat /\ got <= waiting /\ got <= Chunk /\ (got # 0 => two.ok /\ one.ok)
  <2>1. waiting \in Nat /\ Chunk \in Nat
    BY <1>2, DataFacts
  <2>2. two.ok => one.ok
    BY <1>4
  <2> QED BY <2>1, <2>2
<1> HIDE DEF got
<1>6. CASE Goes(two.who)
  BY <1>4, <1>6, GoesKeeps
<1>7. CASE /\ who' = two.who
           /\ recv' = [s \in Streams |-> Now(s, IF s = "one" THEN one.w ELSE two.w, got)]
           /\ waiting' = waiting - got
           /\ read' = IF Horizon = 0 THEN read ELSE read \o [i \in 1 .. got |-> 0]
           /\ UNCHANGED said
  <2>1. PICK g \in {0, got} : More(read, read', g)
    <3>1. CASE Horizon = 0
      BY <1>2, <1>7, <3>1 DEF More
    <3>2. CASE Horizon # 0
      <4>1. PICK z : z = [i \in 1 .. got |-> 0]
        OBVIOUS
      <4>2. z \in Seq(Nat) /\ Len(z) = got
        BY <1>5, <4>1
      <4>3. /\ read \o z \in Seq(Nat) /\ Len(read \o z) = Len(read) + got
            /\ \A i \in 1 .. Len(read) : (read \o z)[i] = read[i]
        <5>1. /\ read \o z \in Seq(Nat) /\ Len(read \o z) = Len(read) + Len(z)
              /\ \A i \in 1 .. Len(read) + Len(z) :
                   (read \o z)[i] = IF i <= Len(read) THEN read[i] ELSE z[i - Len(read)]
          BY <1>2, <4>2, ConcatProperties
        <5>2. \A i \in 1 .. Len(read) : i \in 1 .. Len(read) + got /\ i <= Len(read)
          BY <1>2, <1>5
        <5> QED BY <4>2, <5>1, <5>2
      <4>4. read' = read \o z
        BY <1>7, <3>2, <4>1
      <4> QED BY <4>3, <4>4 DEF More
    <3> QED BY <3>1, <3>2
  <2>2. ASSUME NEW s \in Streams
        PROVE recv'[s] \in Window /\ recv'[s].n <= MaxCount /\ Reading(s, read', recv'[s])
    <3>1. CASE s = "one"
      <4>1. recv'[s] = Now("one", one.w, got)
        BY <1>7, <3>1
      <4> QED BY <1>1, <1>2, <1>3, <1>5, <2>1, <3>1, <4>1, ReadingNow
    <3>2. CASE s = "two"
      <4>1. recv'[s] = Now("two", two.w, got)
        BY <1>7, <3>2
      <4> QED BY <1>1, <1>2, <1>4, <1>5, <2>1, <3>2, <4>1, ReadingNow
    <3> QED BY <3>1, <3>2 DEF Streams
  <2>3. TypeOK'
    <3>1. recv' \in [Streams -> Window]
      BY <1>7, <2>2
    <3>2. waiting' \in 0 .. Backlog
      <4>1. Backlog \in Nat
        BY LimitsAssumption
      <4> QED BY <1>2, <1>5, <1>7, <4>1
    <3>3. who' \in Members /\ win' = win /\ last' = last /\ multi' = multi
      BY <1>4, <1>7 DEF said
    <3> QED BY <1>2, <2>2, <3>1, <3>2, <3>3 DEF TypeOK, Members, Unasked, On
  <2>4. read' \in Seq(Nat) /\ passed' \in [Kinds -> Seq(Nat)]
    BY <1>7, <2>1 DEF More, said, FloodInv
  <2>5. \A k \in Kinds, f \in Streams : Passing(k, f, passed'[k], win'[k][f])
    BY <1>7 DEF said, FloodInv
  <2> QED BY <2>2, <2>3, <2>4, <2>5 DEF FloodInv, Passing, Reading, On, Most, Apart
<1> QED BY <1>1, <1>6, <1>7

LEMMA OlderIs ==
    ASSUME NEW w \in Window, NEW L, L.time \in Nat
    PROVE  /\ Older(w, L) \in Window /\ Older(w, L).n = w.n
           /\ Older(w, L).age <= w.age + 1
<1>1. w.n \in 0 .. Word - 1 /\ w.age \in Nat
  BY DEF Window
<1>2. PICK a : a = IF w.age <= L.time THEN w.age + 1 ELSE w.age
  OBVIOUS
<1>3. a \in Nat /\ a <= w.age + 1
  BY <1>1, <1>2
<1>4. Older(w, L) = [w EXCEPT !.age = a]
  BY <1>2 DEF Older
<1> QED BY <1>1, <1>3, <1>4 DEF Window

\* A second passes: a window ages, or it is over.
LEMMA AgedWindowIs ==
    ASSUME TypeOK, NEW k \in Kinds, NEW f \in Windows
    PROVE  /\ AgedWindow(k, f) \in Window
           /\ AgedWindow(k, f).n = win[k][f].n \/ AgedWindow(k, f).n = 0
           /\ f \in Streams =>
                \/ /\ AgedWindow(k, f).n = win[k][f].n
                   /\ AgedWindow(k, f).age <= win[k][f].age + 1
                \/ AgedWindow(k, f).n = 0 /\ win[k][f].age + 1 >= Limits[k][f].time
<1> DEFINE L == Limits[k][f]
<1>1. PICK w : w = win[k][f]
  OBVIOUS
<1>2. w \in Window /\ L.time \in Nat
  BY <1>1, LimitFacts DEF TypeOK
<1>3. PICK o : o = Older(w, L)
  OBVIOUS
<1>4. o \in Window /\ o.n = w.n /\ o.age <= w.age + 1
  BY <1>2, <1>3, OlderIs
<1>5. o.age \in Nat /\ w.age \in Nat /\ o.n \in Nat
  BY <1>2, <1>4, WindowType
<1>6. PICK v : v = AgedWindow(k, f)
  OBVIOUS
<1>7. v = IF w = Fresh THEN Fresh ELSE IF o.age < L.time THEN o
          ELSE IF f = "same" THEN [o EXCEPT !.n = 0] ELSE Fresh
  BY <1>1, <1>3, <1>6 DEF AgedWindow, Within
<1> HIDE DEF L
<1>8. CASE w = Fresh
  <2>1. v = w
    BY <1>7, <1>8
  <2> QED BY <1>1, <1>2, <1>5, <1>6, <2>1
<1>9. CASE w # Fresh /\ o.age < L.time
  <2>1. v = o
    BY <1>7, <1>9
  <2> QED BY <1>1, <1>4, <1>6, <2>1
<1>10. CASE w # Fresh /\ ~(o.age < L.time) /\ f = "same"
  <2>1. v = [o EXCEPT !.n = 0]
    BY <1>7, <1>10
  <2>2. v \in Window /\ v.n = 0
    <3>1. 0 \in 0 .. Word - 1
      BY DEF Word
    <3>2. o \in [n : 0 .. Word - 1, age : Nat]
      BY <1>4 DEF Window
    <3> QED BY <2>1, <3>1, <3>2 DEF Window
  <2>3. f \notin Streams
    BY <1>10 DEF Streams
  <2> QED BY <1>6, <2>2, <2>3
<1>11. CASE w # Fresh /\ ~(o.age < L.time) /\ f # "same"
  <2>1. v = Fresh
    BY <1>7, <1>11
  <2>2. w.age + 1 >= L.time
    BY <1>2, <1>4, <1>5, <1>11
  <2> QED BY <1>1, <1>6, <2>1, <2>2, FreshType DEF L
<1> QED BY <1>8, <1>9, <1>10, <1>11

LEMMA TickKeeps ==
    ASSUME FloodInv, Tick
    PROVE  FloodInv'
<1>1. /\ win' = [k \in Kinds |-> [f \in Windows |-> AgedWindow(k, f)]]
      /\ recv' = [s \in Streams |->
           IF recv[s] = Fresh THEN Fresh ELSE Older(recv[s], DataLimits[s])]
      /\ passed' = [k \in Kinds |-> Aged(passed[k], Longest(k))]
      /\ read' = Aged(read, Horizon)
      /\ who' = who /\ last' = last /\ multi' = multi /\ waiting' = waiting
  BY DEF Tick
<1>2. TypeOK /\ MaxCount \in Nat
  BY LimitsAssumption DEF FloodInv
<1>3. ASSUME NEW k \in Kinds PROVE Longest(k) \in Nat
  BY LimitFacts DEF Longest, Windows
<1>4. Horizon \in Nat
  BY DataFacts DEF Horizon, Streams
<1>5. \A k \in Kinds, f \in Windows : win'[k][f] = AgedWindow(k, f)
  BY <1>1
<1>6. ASSUME NEW s \in Streams
      PROVE  /\ recv'[s] \in Window /\ recv'[s].n = recv[s].n
             /\ recv'[s].age <= recv[s].age + 1
  <2>1. recv[s] \in Window /\ recv[s].age \in Nat /\ DataLimits[s].time \in Nat
    BY <1>2, WindowType, DataFacts DEF TypeOK
  <2>2. CASE recv[s] = Fresh
    <3>1. recv'[s] = recv[s]
      BY <1>1, <2>2
    <3> QED BY <2>1, <3>1
  <2>3. CASE recv[s] # Fresh
    <3>1. recv'[s] = Older(recv[s], DataLimits[s])
      BY <1>1, <2>3
    <3> QED BY <2>1, <3>1, OlderIs
  <2> QED BY <2>2, <2>3
<1>7. TypeOK'
  <2>1. win' \in [Kinds -> [Windows -> Window]]
    BY <1>1, <1>2, AgedWindowIs
  <2>2. ASSUME NEW k \in Kinds, NEW f \in Windows, ~Unasked(k, f)
        PROVE  win'[k][f].n <= MaxCount
    <3>1. win[k][f].n <= MaxCount
      BY <1>2, <2>2 DEF TypeOK
    <3>2. win'[k][f].n = win[k][f].n \/ win'[k][f].n = 0
      BY <1>2, <1>5, AgedWindowIs
    <3> QED BY <1>2, <3>1, <3>2
  <2>3. recv' \in [Streams -> Window] /\ \A s \in Streams : recv'[s].n <= MaxCount
    <3>1. recv' = [s \in Streams |-> recv'[s]]
      BY <1>1
    <3> QED BY <1>2, <1>6, <3>1 DEF TypeOK
  <2> QED BY <1>1, <1>2, <2>1, <2>2, <2>3 DEF TypeOK, Unasked, On
<1>8. passed' \in [Kinds -> Seq(Nat)] /\ read' \in Seq(Nat)
  <2>1. \A k \in Kinds : passed[k] \in Seq(Nat) /\ Aged(passed[k], Longest(k)) \in Seq(Nat)
    BY <1>3, AgedIs DEF FloodInv
  <2>2. Aged(read, Horizon) \in Seq(Nat)
    BY <1>4, AgedIs DEF FloodInv
  <2> QED BY <1>1, <2>1, <2>2
<1>9. ASSUME NEW k \in Kinds, NEW f \in Streams PROVE Passing(k, f, passed'[k], win'[k][f])
  <2>1. f \in Windows /\ win[k][f] \in Window /\ win'[k][f] \in Window
        /\ passed[k] \in Seq(Nat) /\ Passing(k, f, passed[k], win[k][f])
    <3>1. f \in Windows
      BY DEF Streams, Windows
    <3> QED BY <1>2, <1>7, <3>1 DEF FloodInv, TypeOK
  <2>2. \/ win'[k][f].n = win[k][f].n /\ win'[k][f].age <= win[k][f].age + 1
        \/ win'[k][f].n = 0 /\ win[k][f].age + 1 >= Limits[k][f].time
    BY <1>2, <1>5, <2>1, AgedWindowIs
  <2>3. CASE On(k, f)
    <3>1. Apart(passed[k], win[k][f], Limits[k][f].time, Limits[k][f].count)
      BY <2>1, <2>3 DEF Passing
    <3>2. Apart(Aged(passed[k], Longest(k)), win'[k][f], Limits[k][f].time, Limits[k][f].count)
      BY <1>3, <2>1, <2>2, <3>1, Ages, LimitFacts
    <3>3. passed'[k] = Aged(passed[k], Longest(k))
      BY <1>1
    <3> QED BY <2>3, <3>2, <3>3 DEF Passing
  <2>4. CASE ~On(k, f)
    BY <2>1, <2>2, <2>4 DEF Passing
  <2> QED BY <2>3, <2>4
<1>10. ASSUME NEW s \in Streams PROVE Reading(s, read', recv'[s])
  <2>1. CASE DataLimits[s].action # 0
    <3>1. Apart(read, recv[s], DataLimits[s].time, Most(s))
      BY <2>1 DEF FloodInv, Reading
    <3>2. read \in Seq(Nat) /\ recv[s] \in Window
      BY DEF FloodInv, TypeOK
    <3>3. Apart(Aged(read, Horizon), recv'[s], DataLimits[s].time, Most(s))
      BY <1>4, <1>6, <3>1, <3>2, Ages, DataFacts
    <3> QED BY <1>1, <3>3 DEF Reading
  <2> QED BY <2>1 DEF Reading
<1> QED BY <1>7, <1>8, <1>9, <1>10 DEF FloodInv, Passing, Reading, On, Most, Apart

\* What touches no window that is asked.
LEMMA OtherKeeps ==
    ASSUME FloodInv, RecvFails \/ Sends \/ Returns \/ UNCHANGED vars
                     \/ \E k \in {"chat", "pm", "search"} : Forgets(k)
    PROVE  FloodInv'
<1>1. CASE RecvFails
  <2>1. Closed(who, "none") \in Members
    BY MemberType DEF FloodInv, TypeOK, Members, Bans
  <2> QED BY <1>1, <2>1, GoesKeeps DEF RecvFails
<1>2. ASSUME who' \in Members, win' = win, passed' = passed, recv' = recv, read' = read,
             last' \in [Kinds -> Texts \cup {NoText}],
             multi' \in [Kinds -> [lines : Nat, n : Nat]], waiting' \in 0 .. Backlog
      PROVE  FloodInv'
  <2>1. TypeOK'
    BY <1>2 DEF FloodInv, TypeOK, Members, Unasked, On
  <2> QED BY <1>2, <2>1 DEF FloodInv, Passing, Reading, On, Most, Apart
<1>3. /\ who \in Members /\ last \in [Kinds -> Texts \cup {NoText}]
      /\ multi \in [Kinds -> [lines : Nat, n : Nat]] /\ waiting \in 0 .. Backlog
      /\ Backlog \in Nat
  BY LimitsAssumption DEF FloodInv, TypeOK, Members
<1>4. CASE Sends
  <2>1. waiting' \in 0 .. Backlog
    BY <1>3, <1>4 DEF Sends
  <2> QED BY <1>2, <1>3, <1>4, <2>1 DEF Sends, said
<1>5. CASE Returns
  <2>1. New \in Members
    BY DEF New, Members, Bans
  <2> QED BY <1>2, <1>3, <1>5, <2>1 DEF Returns, said, stream
<1>6. CASE UNCHANGED vars
  BY <1>2, <1>3, <1>6 DEF vars
<1>7. ASSUME NEW k \in {"chat", "pm", "search"}, Forgets(k) PROVE FloodInv'
  <2>1. /\ last' = [last EXCEPT ![k] = NoText] /\ multi' = [multi EXCEPT ![k] = NoLines]
        /\ who' = who /\ win' = win /\ passed' = passed
        /\ recv' = recv /\ waiting' = waiting /\ read' = read
    BY <1>7 DEF Forgets, stream
  <2>2. last' \in [Kinds -> Texts \cup {NoText}] /\ multi' \in [Kinds -> [lines : Nat, n : Nat]]
    BY <1>3, <2>1 DEF NoLines
  <2> QED BY <1>2, <1>3, <2>1, <2>2
<1> QED BY <1>1, <1>4, <1>5, <1>6, <1>7

LEMMA NextFloodInv == FloodInv /\ [Next]_vars => FloodInv'
<1> SUFFICES ASSUME FloodInv, [Next]_vars PROVE FloodInv'
  OBVIOUS
<1>1. ASSUME NEW text \in Texts, NEW flaw \in Flaws,
             Chat(text, flaw) \/ To(text, flaw) \/ Search(text, flaw)
      PROVE  FloodInv'
  BY <1>1, ChatKeeps, ToKeeps, SearchKeeps
<1>2. ASSUME NEW text \in Texts, ChatHubCommand(text) \/ ToHubCommand(text)
      PROVE  FloodInv'
  BY <1>2, ChatKeeps, ToKeeps
<1>3. ASSUME NEW flaw \in Flaws,
             \/ ConnectToMe(flaw) \/ RevConnectToMe(flaw) \/ SR(flaw)
             \/ MyINFO(flaw) \/ GetNickList(flaw)
      PROVE  FloodInv'
  <2>1. {"ctm", "rctm", "sr", "myinfo"} \subseteq Kinds
    BY DEF Kinds
  <2> QED BY <1>3, <2>1, RequestKeeps, GetNickListKeeps
          DEF ConnectToMe, RevConnectToMe, SR, MyINFO
<1> QED BY <1>1, <1>2, <1>3, DoRecvKeeps, TickKeeps, OtherKeeps DEF Next
-----------------------------------------------------------------------------
LEMMA Invariance == Spec => []FloodInv
BY InitFloodInv, NextFloodInv, PTL DEF Spec

\* The types, and that no count that is asked ever goes round, below zero or
\* above a word: what is taken off the two counts had been counted on both
\* (UncountDeflood, CheckForFlood).
THEOREM TypeCorrect == Spec => []TypeOK
<1>1. FloodInv => TypeOK
  BY DEF FloodInv
<1> QED BY <1>1, Invariance, PTL

\* No stretch of time as long as a limit's lets more than twice the limit
\* through, whatever the handlers refuse in between (CheckForFlood).
THEOREM BurstsAreBounded == Spec => []NoBurst
<1>1. FloodInv => NoBurst
  <2> SUFFICES ASSUME FloodInv, NEW k \in Kinds, NEW f \in {"one", "two"}, On(k, f)
               PROVE  LastFew(passed[k], Limits[k][f].time, 2 * Limits[k][f].count)
    BY DEF NoBurst
  <2>1. f \in Windows /\ f \in Streams
    BY DEF Windows, Streams
  <2>2. Apart(passed[k], win[k][f], Limits[k][f].time, Limits[k][f].count)
    BY <2>1 DEF FloodInv, Passing
  <2>3. passed[k] \in Seq(Nat) /\ win[k][f] \in Window
    BY <2>1 DEF FloodInv, TypeOK
  <2> QED BY <2>1, <2>2, <2>3, ApartIsFew, LimitFacts
<1> QED BY <1>1, Invariance, PTL

\* Nor is more read than twice what one window of the data takes, or than two
\* first visits bring (DoRecv, CheckForDataFlood).
THEOREM DelugesAreBounded == Spec => []NoDeluge
<1>1. FloodInv => NoDeluge
  <2> SUFFICES ASSUME FloodInv, NEW s \in Streams, DataLimits[s].action # 0
               PROVE  \E most \in {DataLimits[s].count - 1, Chunk} :
                        LastFew(read, DataLimits[s].time, 2 * most)
    BY DEF NoDeluge
  <2>1. Apart(read, recv[s], DataLimits[s].time, Most(s))
    BY DEF FloodInv, Reading
  <2>2. read \in Seq(Nat) /\ recv[s] \in Window
    BY DEF FloodInv, TypeOK
  <2>3. LastFew(read, DataLimits[s].time, 2 * Most(s))
    BY <2>1, <2>2, ApartIsFew, DataFacts
  <2>4. Most(s) \in {DataLimits[s].count - 1, Chunk}
    BY DEF Most
  <2> QED BY <2>3, <2>4
<1> QED BY <1>1, Invariance, PTL

(***************************************************************************)
(* The registrations, the profiles and the operators (Registry).           *)
(*                                                                         *)
(* ListInv does not ask whether the hub is up: SaveProfiles and FinalClose *)
(* that die leave members and list as they are, and Start clears both.     *)
(***************************************************************************)

User == [st : Phases, profile : None .. MaxProfiles, op : BOOLEAN,
         temp : BOOLEAN, hideKey : BOOLEAN, hidden : BOOLEAN,
         waits : Names \cup {Garbled, NotAsked}]
Table == {f \in Seq(Profile) : Len(f) <= MaxProfiles}
Numbers == [Nicks -> None .. MaxProfiles]

LEMMA TypeParts ==
    RegistryTypeOK <=>
      /\ hub \in {"up", "down", "dead"} /\ holes \in BOOLEAN
      /\ profiles \in Table /\ profFile \in Table
      /\ regs \in Numbers /\ regFile \in Numbers
      /\ saveCalls \in 0 .. SaveEvery
      /\ member \in [Nicks -> User]
      /\ listed \in [Nicks -> 0 .. MaxListed]
BY DEF RegistryTypeOK, User, Table, Numbers

LEMMA OutType == Out \in User
BY BoundsAssumption DEF Out, User, Phases, None

\* The least of a set of numbers.
LEMMA LeastExists ==
    ASSUME NEW S \in SUBSET Nat, S # {}
    PROVE  \E x \in S : \A y \in S : x <= y
<1> DEFINE R == OpToRel(<, Nat)
<1>1. IsWellFoundedOn(R, Nat)
  BY NatLessThanWellFounded
<1>2. PICK x \in S : \A y \in S : <<y, x>> \notin R
  BY <1>1, WFMin
<1>3. \A y \in S : ~(y < x)
  BY <1>2 DEF OpToRel
<1> QED BY <1>3

\* A name that is there is found.
LEMMA ProfileFound ==
    ASSUME RegistryTypeOK, NEW name, Named(name) # {}
    PROVE  GetProfileIndex(name) \in Ids
<1>1. Count \in Nat
  BY LenProperties DEF Count, RegistryTypeOK
<1>2. Named(name) \in SUBSET Nat /\ Named(name) \subseteq Ids
  BY <1>1 DEF Named, Ids
<1>3. \E p \in Named(name) : \A q \in Named(name) : p <= q
  BY <1>2, LeastExists
<1>4. GetProfileIndex(name) \in Named(name)
  BY <1>3 DEF GetProfileIndex
<1> QED BY <1>2, <1>4

LEMMA IdsType ==
    ASSUME RegistryTypeOK
    PROVE  /\ Count \in Nat /\ Count <= MaxProfiles /\ Ids \subseteq 0 .. MaxProfiles
           /\ \A p : HasKey(p) \in BOOLEAN
           /\ \A p \in Ids : p + 1 \in 1 .. Len(profiles) /\ profiles[p + 1] \in Profile
<1>1. profiles \in Seq(Profile) /\ Count \in Nat /\ Count <= MaxProfiles
  BY LenProperties DEF RegistryTypeOK, Count
<1>2. Ids \subseteq 0 .. MaxProfiles
  BY <1>1, BoundsAssumption DEF Ids
<1>3. \A p \in Ids : p + 1 \in 1 .. Len(profiles)
  BY <1>1 DEF Ids, Count
<1>4. \A p \in Ids : profiles[p + 1] \in Profile
  BY <1>1, <1>3, ElementOfSeq
<1>5. \A p \in Ids : profiles[p + 1].key \in BOOLEAN
  BY <1>4 DEF Profile
<1>6. \A p : HasKey(p) \in BOOLEAN
  BY <1>5 DEF HasKey
<1> QED BY <1>1, <1>2, <1>3, <1>4, <1>6

LEMMA TypePartsPrimed ==
    RegistryTypeOK' <=>
      /\ hub' \in {"up", "down", "dead"} /\ holes' \in BOOLEAN
      /\ profiles' \in Table /\ profFile' \in Table
      /\ regs' \in Numbers /\ regFile' \in Numbers
      /\ saveCalls' \in 0 .. SaveEvery
      /\ member' \in [Nicks -> User]
      /\ listed' \in [Nicks -> 0 .. MaxListed]
BY DEF RegistryTypeOK, User, Table, Numbers

LEMMA UserParts ==
    ASSUME NEW u \in User
    PROVE  /\ \A x \in Phases : [u EXCEPT !.st = x] \in User
           /\ \A x \in None .. MaxProfiles : [u EXCEPT !.profile = x] \in User
           /\ \A x \in BOOLEAN : [u EXCEPT !.op = x] \in User
           /\ \A x \in BOOLEAN : [u EXCEPT !.temp = x] \in User
           /\ \A x \in BOOLEAN : [u EXCEPT !.hideKey = x] \in User
           /\ \A x \in BOOLEAN : [u EXCEPT !.hidden = x] \in User
           /\ \A x \in Names \cup {Garbled, NotAsked} : [u EXCEPT !.waits = x] \in User
BY DEF User

LEMMA UserFields ==
    ASSUME NEW u \in User
    PROVE  /\ u.st \in Phases /\ u.profile \in None .. MaxProfiles
           /\ u.op \in BOOLEAN /\ u.temp \in BOOLEAN
           /\ u.hideKey \in BOOLEAN /\ u.hidden \in BOOLEAN
           /\ u.waits \in Names \cup {Garbled, NotAsked}
BY DEF User

\* The list of operators stays in its range.
LEMMA ListType ==
    ASSUME RegistryTypeOK, NEW n \in Nicks,
           Add2OpList(n) \/ DelFromOpList(n) \/ listed' = listed
    PROVE  listed' \in [Nicks -> 0 .. MaxListed]
<1>1. listed \in [Nicks -> 0 .. MaxListed] /\ MaxListed \in Nat
  BY BoundsAssumption DEF RegistryTypeOK
<1>2. \A k \in 0 .. MaxListed : /\ k < MaxListed => k + 1 \in 0 .. MaxListed
                                /\ (IF k > 0 THEN k - 1 ELSE 0) \in 0 .. MaxListed
  BY <1>1
<1> QED BY <1>1, <1>2 DEF Add2OpList, DelFromOpList

LEMMA SaveType ==
    ASSUME RegistryTypeOK, NEW r \in Numbers, SaveOnChange(r) \/ SaveNow(r)
    PROVE  regFile' \in Numbers /\ saveCalls' \in 0 .. SaveEvery
<1>1. saveCalls \in 0 .. SaveEvery /\ SaveEvery \in Nat /\ regFile \in Numbers
  BY BoundsAssumption, TypeParts
<1> QED BY <1>1 DEF SaveOnChange, SaveNow

LEMMA PromotedType ==
    ASSUME RegistryTypeOK, NEW n \in Nicks, NEW p \in Ids
    PROVE  Promoted(n, p) \in User
<1>1. PICK u \in User : u = member[n]
  BY TypeParts
<1>2. p \in None .. MaxProfiles /\ (u.op \/ HasKey(p)) \in BOOLEAN
  BY IdsType, BoundsAssumption DEF None
<1>3. PICK v : v = [u EXCEPT !.profile = p]
  OBVIOUS
<1>4. v \in User /\ v.op = u.op
  BY <1>2, <1>3, UserParts DEF User
<1>5. Promoted(n, p) = [v EXCEPT !.op = u.op \/ HasKey(p)]
  BY <1>1, <1>3 DEF Promoted, User
<1> QED BY <1>2, <1>4, <1>5, UserParts

\* A step that replaces one member.
LEMMA OneMemberType ==
    ASSUME RegistryTypeOK, NEW n \in Nicks, NEW u \in User,
           member' = [member EXCEPT ![n] = u]
    PROVE  member' \in [Nicks -> User]
BY TypeParts

LEMMA BecomesType ==
    ASSUME RegistryTypeOK, NEW n \in Nicks, NEW u \in User, Becomes(n, u)
    PROVE  member' \in [Nicks -> User] /\ listed' \in [Nicks -> 0 .. MaxListed]
<1>1. member' = [member EXCEPT ![n] = u] /\ (Add2OpList(n) \/ listed' = listed)
  BY DEF Becomes
<1> QED BY <1>1, OneMemberType, ListType
-----------------------------------------------------------------------------
\* Members come, go and log in.
LEMMA MemberStepType ==
    ASSUME RegistryTypeOK, NEW n \in Nicks,
           \/ Enter(n) \/ MyPass(n) \/ Add2Userlist(n) \/ Leaves(n)
           \/ Speaks(n) \/ KickMessage(n)
    PROVE  RegistryTypeOK'
<1>1. PICK u \in User : u = member[n]
  BY TypeParts
<1>2. Out \in User /\ {"out", "asked", "login", "in"} = Phases
  BY OutType DEF Phases
<1>3. CASE Enter(n)
  <2>1. PICK st \in Phases : /\ member' = [member EXCEPT ![n] = [Out EXCEPT !.st = st]]
                             /\ UNCHANGED <<hub, table, store, listed>>
    BY <1>2, <1>3 DEF Enter
  <2>2. member' \in [Nicks -> User]
    BY <1>2, <2>1, UserParts, OneMemberType
  <2> QED BY <2>1, <2>2, TypeParts, TypePartsPrimed DEF table, store
<1>4. CASE MyPass(n)
  <2>1. CASE Dies
    BY <2>1, TypeParts, TypePartsPrimed DEF Dies, table, store, people
  <2>2. CASE ~Dies
    <3>1. /\ member' = [member EXCEPT ![n] = [u EXCEPT !.st = "login", !.profile = regs[n],
                                                        !.op = HasKey(regs[n])]]
          /\ UNCHANGED <<hub, table, store, listed>>
      BY <1>1, <1>4, <2>2, TypeParts DEF MyPass
    <3>2. regs[n] \in None .. MaxProfiles /\ HasKey(regs[n]) \in BOOLEAN
      BY TypeParts, IdsType DEF Numbers
    <3>3. [u EXCEPT !.st = "login", !.profile = regs[n], !.op = HasKey(regs[n])] \in User
      BY <1>2, <3>2 DEF User
    <3>4. member' \in [Nicks -> User]
      BY <3>1, <3>3, OneMemberType
    <3> QED BY <3>1, <3>4, TypeParts, TypePartsPrimed DEF table, store
  <2> QED BY <2>1, <2>2
<1>5. CASE Add2Userlist(n)
  <2>1. PICK waits \in Names \cup {Garbled, NotAsked} :
           /\ member' = [member EXCEPT ![n] = [u EXCEPT !.st = "in", !.waits = waits]]
           /\ Add2OpList(n) \/ listed' = listed
    BY <1>1, <1>5, UserFields DEF Add2Userlist
  <2>2. [u EXCEPT !.st = "in", !.waits = waits] \in User
    BY <1>2 DEF User
  <2>3. member' \in [Nicks -> User] /\ listed' \in [Nicks -> 0 .. MaxListed]
    BY <2>1, <2>2, OneMemberType, ListType
  <2>4. UNCHANGED <<hub, table, store>>
    BY <1>5 DEF Add2Userlist
  <2> QED BY <2>3, <2>4, TypeParts, TypePartsPrimed DEF table, store
<1>6. CASE Leaves(n)
  <2>1. member' = [member EXCEPT ![n] = Out] /\ (DelFromOpList(n) \/ listed' = listed)
    BY <1>6 DEF Leaves, LeaveOp
  <2>2. member' \in [Nicks -> User] /\ listed' \in [Nicks -> 0 .. MaxListed]
    BY <1>2, <2>1, OneMemberType, ListType
  <2>3. UNCHANGED <<hub, table, store>>
    BY <1>6 DEF Leaves
  <2> QED BY <2>2, <2>3, TypeParts, TypePartsPrimed DEF table, store
<1>7. CASE Speaks(n)
  BY <1>7, TypeParts, TypePartsPrimed DEF Speaks, Dies, table, store, people
<1>8. CASE KickMessage(n)
  <2>1. /\ member' = [member EXCEPT ![n] = [u EXCEPT !.waits = Garbled]]
        /\ UNCHANGED <<hub, table, store, listed>>
    BY <1>1, <1>8, TypeParts DEF KickMessage
  <2>2. member' \in [Nicks -> User]
    BY <2>1, UserParts, OneMemberType
  <2> QED BY <2>1, <2>2, TypeParts, TypePartsPrimed DEF table, store
<1> QED BY <1>3, <1>4, <1>5, <1>6, <1>7, <1>8

LEMMA NumbersType ==
    ASSUME RegistryTypeOK, NEW n \in Nicks, NEW p \in Ids \cup {None}
    PROVE  [regs EXCEPT ![n] = p] \in Numbers
<1>1. p \in None .. MaxProfiles
  BY IdsType, BoundsAssumption DEF None
<1> QED BY <1>1, TypeParts DEF Numbers

\* Registrations are added, at once or when a password comes.
LEMMA AddStepType ==
    ASSUME RegistryTypeOK, NEW n \in Nicks,
           AddRegUser(n) \/ LuaAddReg(n) \/ RegNewUser(n) \/ LuaAskReg(n) \/ LatePassword(n)
    PROVE  RegistryTypeOK'
<1>1. PICK u \in User : u = member[n]
  BY TypeParts
<1>2. CASE Dies
  BY <1>2, TypeParts, TypePartsPrimed DEF Dies, table, store, people
<1>3. ASSUME ~Dies, NEW p \in Ids, AddsNew(n, p) PROVE RegistryTypeOK'
  <2>1. /\ regs' = [regs EXCEPT ![n] = p] /\ SaveOnChange(regs')
        /\ Becomes(n, Promoted(n, p)) \/ UNCHANGED people
        /\ UNCHANGED <<hub, table>>
    BY <1>3 DEF AddsNew, AddNew
  <2>2. regs' \in Numbers /\ regFile' \in Numbers /\ saveCalls' \in 0 .. SaveEvery
    BY <2>1, NumbersType, SaveType
  <2>3. member' \in [Nicks -> User] /\ listed' \in [Nicks -> 0 .. MaxListed]
    BY <2>1, PromotedType, BecomesType, TypeParts DEF people
  <2> QED BY <2>1, <2>2, <2>3, TypeParts, TypePartsPrimed DEF table
<1>4. ASSUME NEW name \in Names, Asks(n, name) PROVE RegistryTypeOK'
  <2>1. /\ member' = [member EXCEPT ![n] = [u EXCEPT !.waits = name]]
        /\ UNCHANGED <<hub, table, store, listed>>
    BY <1>1, <1>4, TypeParts DEF Asks
  <2>2. member' \in [Nicks -> User]
    BY <2>1, UserParts, OneMemberType
  <2> QED BY <2>1, <2>2, TypeParts, TypePartsPrimed DEF table, store
<1>5. \A p \in Ids : profiles[p + 1].name \in Names
  BY IdsType DEF Profile
<1>6. CASE LatePassword(n) /\ ~Dies
  <2>1. PICK waits : waits = member[n].waits
    OBVIOUS
  <2>2. CASE Named(waits) = {}
    <3>1. /\ member' = [member EXCEPT ![n] = [u EXCEPT !.waits = NotAsked]]
          /\ UNCHANGED <<hub, table, store, listed>>
      BY <1>1, <1>6, <2>1, <2>2, TypeParts DEF LatePassword
    <3>2. member' \in [Nicks -> User]
      BY <3>1, UserParts, OneMemberType
    <3> QED BY <3>1, <3>2, TypeParts, TypePartsPrimed DEF table, store
  <2>3. CASE Named(waits) # {}
    <3>1. PICK p \in Ids : p = GetProfileIndex(waits)
      BY <2>3, ProfileFound
    <3>2. /\ \/ regs' = [regs EXCEPT ![n] = p] /\ SaveOnChange(regs')
             \/ UNCHANGED store
          /\ Becomes(n, [Promoted(n, p) EXCEPT !.waits = NotAsked])
          /\ UNCHANGED <<hub, table>>
      BY <1>6, <2>1, <2>3, <3>1 DEF LatePassword
    <3>3. regs' \in Numbers /\ regFile' \in Numbers /\ saveCalls' \in 0 .. SaveEvery
      BY <3>2, NumbersType, SaveType, TypeParts DEF store
    <3>4. [Promoted(n, p) EXCEPT !.waits = NotAsked] \in User
      BY PromotedType, UserParts
    <3>5. member' \in [Nicks -> User] /\ listed' \in [Nicks -> 0 .. MaxListed]
      BY <3>2, <3>4, BecomesType
    <3> QED BY <3>2, <3>3, <3>5, TypeParts, TypePartsPrimed DEF table
  <2> QED BY <2>2, <2>3
<1>7. CASE AddRegUser(n) \/ LuaAddReg(n)
  <2>1. PICK p \in Ids : AddsNew(n, p)
    BY <1>7, ProfileFound DEF AddRegUser, LuaAddReg
  <2> QED BY <1>2, <1>3, <2>1
<1> QED BY <1>2, <1>4, <1>5, <1>6, <1>7 DEF RegNewUser, LuaAskReg

\* Registrations are deleted and changed, members promoted and hidden.
LEMMA ChangeStepType ==
    ASSUME RegistryTypeOK, NEW n \in Nicks,
           \/ DelRegUser(n) \/ LuaDelReg(n) \/ LuaChangeReg(n) \/ Passwd(n) \/ Op(n)
           \/ HideUserKey(n) \/ HideUser(n)
    PROVE  RegistryTypeOK'
<1>1. PICK u \in User : u = member[n]
  BY TypeParts
<1>2. CASE Dies
  BY <1>2, TypeParts, TypePartsPrimed DEF Dies, table, store, people
<1>3. CASE Delete(n)
  <2>1. /\ regs' = [regs EXCEPT ![n] = None] /\ SaveOnChange(regs')
        /\ \/ member' = [member EXCEPT ![n] = [u EXCEPT !.profile = None, !.op = FALSE]]
           \/ member' = member
        /\ DelFromOpList(n) \/ listed' = listed
        /\ UNCHANGED <<hub, table>>
    BY <1>1, <1>3, TypeParts DEF Delete, people
  <2>2. regs' \in Numbers /\ regFile' \in Numbers /\ saveCalls' \in 0 .. SaveEvery
    BY <2>1, NumbersType, SaveType
  <2>3. [u EXCEPT !.profile = None, !.op = FALSE] \in User
    <3>1. None \in None .. MaxProfiles /\ FALSE \in BOOLEAN
      BY BoundsAssumption DEF None
    <3> QED BY <3>1 DEF User
  <2>4. member' \in [Nicks -> User] /\ listed' \in [Nicks -> 0 .. MaxListed]
    BY <2>1, <2>3, OneMemberType, ListType, TypeParts
  <2> QED BY <2>1, <2>2, <2>4, TypeParts, TypePartsPrimed DEF table
<1>4. CASE ChangeReg(n) /\ ~Dies
  <2>1. PICK p \in Ids :
           /\ regs' = [regs EXCEPT ![n] = p] /\ SaveOnChange(regs')
           /\ IF n \in Online /\ member[n].profile # p
              THEN /\ member' = [member EXCEPT ![n].profile = p, ![n].op = HasKey(p)]
                   /\ CASE member[n].op = HasKey(p) \/ member[n].hideKey ->
                             UNCHANGED listed
                        [] HasKey(p) /\ ~member[n].op /\ ~member[n].hideKey ->
                             Add2OpList(n)
                        [] ~HasKey(p) /\ member[n].op /\ ~member[n].hideKey ->
                             DelFromOpList(n)
              ELSE UNCHANGED people
           /\ UNCHANGED <<hub, table>>
    BY <1>4 DEF ChangeReg
  <2>2. regs' \in Numbers /\ regFile' \in Numbers /\ saveCalls' \in 0 .. SaveEvery
    BY <2>1, NumbersType, SaveType
  <2>3. p \in None .. MaxProfiles /\ HasKey(p) \in BOOLEAN
    BY IdsType, BoundsAssumption DEF None
  <2>4. [u EXCEPT !.profile = p, !.op = HasKey(p)] \in User
    BY <2>3 DEF User
  <2>5. \/ member' = [member EXCEPT ![n] = [u EXCEPT !.profile = p, !.op = HasKey(p)]]
        \/ member' = member
    BY <1>1, <2>1, TypeParts DEF people
  <2>6. Add2OpList(n) \/ DelFromOpList(n) \/ listed' = listed
    <3>1. member[n].op \in BOOLEAN /\ member[n].hideKey \in BOOLEAN
      BY <1>1, UserFields
    <3> QED BY <2>1, <2>3, <3>1 DEF people
  <2>7. member' \in [Nicks -> User] /\ listed' \in [Nicks -> 0 .. MaxListed]
    BY <2>4, <2>5, <2>6, OneMemberType, ListType, TypeParts
  <2> QED BY <2>1, <2>2, <2>7, TypeParts, TypePartsPrimed DEF table
<1>5. CASE Passwd(n)
  <2>1. SaveOnChange(regs) /\ regs \in Numbers /\ UNCHANGED <<hub, table, regs, people>>
    BY <1>5, TypeParts DEF Passwd
  <2> QED BY <2>1, SaveType, TypeParts, TypePartsPrimed DEF table, people
<1>6. CASE Op(n) /\ ~Dies
  <2>1. PICK p \in Ids : p = GetProfileIndex(Operator)
    BY <1>6, ProfileFound DEF Op
  <2>2. /\ Becomes(n, [u EXCEPT !.op = TRUE, !.temp = TRUE, !.profile = p])
        /\ UNCHANGED <<hub, table, store>>
    BY <1>1, <1>6, <2>1 DEF Op
  <2>3. p \in None .. MaxProfiles
    BY IdsType, BoundsAssumption DEF None
  <2>4. [u EXCEPT !.op = TRUE, !.temp = TRUE, !.profile = p] \in User
    BY <2>3 DEF User
  <2>5. member' \in [Nicks -> User] /\ listed' \in [Nicks -> 0 .. MaxListed]
    BY <2>2, <2>4, BecomesType
  <2> QED BY <2>2, <2>5, TypeParts, TypePartsPrimed DEF table, store
<1>7. CASE HideUserKey(n) \/ HideUser(n)
  <2>1. /\ \/ member' = [member EXCEPT ![n] = [u EXCEPT !.hideKey = ~u.hideKey]]
           \/ member' = [member EXCEPT ![n] = [u EXCEPT !.hidden = ~u.hidden]]
        /\ UNCHANGED <<hub, table, store>>
    BY <1>1, <1>7, TypeParts DEF HideUserKey, HideUser
  <2>2. Add2OpList(n) \/ DelFromOpList(n) \/ listed' = listed
    <3>1. u.op \in BOOLEAN /\ u.hideKey \in BOOLEAN /\ u.hidden \in BOOLEAN
      BY UserFields
    <3>2. CASE HideUserKey(n)
      BY <1>1, <3>1, <3>2 DEF HideUserKey
    <3>3. CASE HideUser(n)
      BY <1>1, <3>1, <3>3 DEF HideUser
    <3> QED BY <1>7, <3>2, <3>3
  <2>3. member' \in [Nicks -> User] /\ listed' \in [Nicks -> 0 .. MaxListed]
    BY <2>1, <2>2, UserParts, OneMemberType, ListType
  <2> QED BY <2>1, <2>3, TypeParts, TypePartsPrimed DEF table, store
<1> QED BY <1>2, <1>3, <1>4, <1>5, <1>6, <1>7 DEF DelRegUser, LuaDelReg, LuaChangeReg

LEMMA WithoutIs ==
    ASSUME NEW s, NEW i
    PROVE  Without(s, i) = SubSeq(s, 1, i - 1) \o SubSeq(s, i + 1, Len(s))
BY DEF Without

\* Profiles are added, removed, moved, edited and saved.
LEMMA ProfileStepType ==
    ASSUME RegistryTypeOK,
           \/ LuaAddProfile \/ RemoveProfileByName \/ SetProfileName
           \/ SetProfilePermission \/ LuaSaveProfiles
           \/ \E p \in Ids : RemoveProfile(p) \/ MoveDown(p) \/ MoveUp(p)
    PROVE  RegistryTypeOK'
<1>1. /\ profiles \in Seq(Profile) /\ Len(profiles) \in Nat /\ Count = Len(profiles)
      /\ Count <= MaxProfiles
  BY IdsType, TypeParts DEF Table, Count
<1>2. CASE Dies
  BY <1>2, TypeParts, TypePartsPrimed DEF Dies, table, store, people
<1>3. ASSUME NEW name \in Names, CreateProfile(name) PROVE RegistryTypeOK'
  <2>1. /\ profiles' = Append(profiles, [name |-> name, key |-> FALSE])
        /\ Count < MaxProfiles
        /\ UNCHANGED <<hub, holes, profFile, store, people>>
    BY <1>3 DEF CreateProfile
  <2>2. [name |-> name, key |-> FALSE] \in Profile
    BY DEF Profile
  <2>3. profiles' \in Seq(Profile) /\ Len(profiles') = Len(profiles) + 1
    BY <1>1, <2>1, <2>2, AppendProperties
  <2>4. profiles' \in Table
    BY <1>1, <2>1, <2>3, BoundsAssumption DEF Table
  <2> QED BY <2>1, <2>4, TypeParts, TypePartsPrimed DEF store, people
<1>4. ASSUME NEW p \in Ids, RemoveProfile(p) PROVE RegistryTypeOK'
  <2>1. p + 1 \in 1 .. Len(profiles) /\ p \in Nat
    BY IdsType DEF Ids
  <2> DEFINE a == SubSeq(profiles, 1, (p + 1) - 1)
             b == SubSeq(profiles, p + 1 + 1, Len(profiles))
  <2>3. a \in Seq(Profile) /\ Len(a) = p
    <3>1. \A i \in 1 .. (p + 1) - 1 : profiles[i] \in Profile
      BY <1>1, <2>1, ElementOfSeq
    <3>2. a \in Seq(Profile) /\ Len(a) = (IF 1 <= (p + 1) - 1 THEN ((p + 1) - 1) - 1 + 1 ELSE 0)
      BY <2>1, <3>1, SubSeqProperties
    <3> QED BY <2>1, <3>2
  <2>4. b \in Seq(Profile) /\ Len(b) = Len(profiles) - p - 1
    <3>1. \A i \in p + 1 + 1 .. Len(profiles) : profiles[i] \in Profile
      BY <1>1, <2>1, ElementOfSeq
    <3>2. b \in Seq(Profile)
          /\ Len(b) = (IF p + 1 + 1 <= Len(profiles)
                       THEN Len(profiles) - (p + 1 + 1) + 1 ELSE 0)
      BY <1>1, <2>1, <3>1, SubSeqProperties
    <3> QED BY <1>1, <2>1, <3>2
  <2>5. profiles' = a \o b
    <3>1. profiles' = Without(profiles, p + 1)
      BY <1>4 DEF RemoveProfile
    <3> QED BY <3>1, WithoutIs
  <2> HIDE DEF a, b
  <2>6. profiles' \in Seq(Profile) /\ Len(profiles') = Len(a) + Len(b)
    BY <2>3, <2>4, <2>5, ConcatProperties
  <2>7. profiles' \in Table
    BY <1>1, <2>1, <2>3, <2>4, <2>6, BoundsAssumption DEF Table
  <2>8. \A q \in None .. MaxProfiles : Below(p, q) \in None .. MaxProfiles
    BY <2>1, BoundsAssumption DEF Below, None
  <2>9. regs' \in Numbers
    BY <1>4, <2>8, TypeParts DEF RemoveProfile, Numbers
  <2>10. \A u \in User : [u EXCEPT !.profile = Below(p, @)] \in User
    BY <2>8 DEF User
  <2>11. member' \in [Nicks -> User]
    BY <1>4, <2>10, TypeParts DEF RemoveProfile
  <2>12. holes' = TRUE /\ UNCHANGED <<hub, profFile, regFile, saveCalls, listed>>
    BY <1>4 DEF RemoveProfile
  <2> QED BY <2>7, <2>9, <2>11, <2>12, TypeParts, TypePartsPrimed
<1>5. ASSUME NEW p \in Ids, NEW q \in Ids, Swap(p, q) PROVE RegistryTypeOK'
  <2>1. /\ p + 1 \in 1 .. Len(profiles) /\ profiles[p + 1] \in Profile
        /\ q + 1 \in 1 .. Len(profiles) /\ profiles[q + 1] \in Profile
        /\ {p, q} \subseteq None .. MaxProfiles
    BY IdsType, BoundsAssumption DEF None
  <2>2. profiles' \in Seq(Profile) /\ Len(profiles') = Len(profiles)
    <3>1. PICK s : s = [profiles EXCEPT ![p + 1] = profiles[q + 1]]
      OBVIOUS
    <3>2. s \in Seq(Profile) /\ Len(s) = Len(profiles)
      BY <1>1, <2>1, <3>1, ExceptSeq
    <3>3. profiles' = [s EXCEPT ![q + 1] = profiles[p + 1]]
      BY <1>5, <3>1 DEF Swap
    <3> QED BY <1>1, <2>1, <3>2, <3>3, ExceptSeq
  <2>3. profiles' \in Table
    BY <1>1, <2>2 DEF Table
  <2>4. \A x \in None .. MaxProfiles : Trade(p, q, x) \in None .. MaxProfiles
    BY <2>1 DEF Trade
  <2>5. regs' \in Numbers
    BY <1>5, <2>4, TypeParts DEF Swap, Numbers
  <2>6. \A u \in User : [u EXCEPT !.profile = Trade(p, q, @)] \in User
    BY <2>4 DEF User
  <2>7. member' \in [Nicks -> User]
    BY <1>5, <2>6, TypeParts DEF Swap
  <2>8. UNCHANGED <<hub, holes, profFile, regFile, saveCalls, listed>>
    BY <1>5 DEF Swap
  <2> QED BY <2>3, <2>5, <2>7, <2>8, TypeParts, TypePartsPrimed
<1>6. CASE SetProfileName \/ SetProfilePermission
  <2>1. PICK p \in Ids, r \in Profile : profiles' = [profiles EXCEPT ![p + 1] = r]
    <3>1. ASSUME NEW p \in Ids, NEW name \in Names,
                 profiles' = [profiles EXCEPT ![p + 1].name = name]
          PROVE  \E r \in Profile : profiles' = [profiles EXCEPT ![p + 1] = r]
      <4>1. [profiles[p + 1] EXCEPT !.name = name] \in Profile
        BY IdsType DEF Profile
      <4> QED BY <3>1, <4>1
    <3>2. ASSUME NEW p \in Ids, profiles' = [profiles EXCEPT ![p + 1].key = ~@]
          PROVE  \E r \in Profile : profiles' = [profiles EXCEPT ![p + 1] = r]
      <4>1. [profiles[p + 1] EXCEPT !.key = ~@] \in Profile
        BY IdsType DEF Profile
      <4> QED BY <3>2, <4>1
    <3> QED BY <1>6, <3>1, <3>2 DEF SetProfileName, SetProfilePermission
  <2>2. profiles' \in Table
    BY <1>1, <2>1, IdsType, ExceptSeq DEF Table
  <2>3. UNCHANGED <<hub, holes, profFile, store, people>>
    BY <1>6 DEF SetProfileName, SetProfilePermission
  <2> QED BY <2>2, <2>3, TypeParts, TypePartsPrimed DEF store, people
<1>7. CASE LuaSaveProfiles
  <2>1. <<>> \in Table
    BY EmptySeq, BoundsAssumption DEF Table
  <2>2. /\ hub' \in {"dead", hub} /\ profFile' \in {<<>>, profiles}
        /\ UNCHANGED <<profiles, holes, store, people>>
    BY <1>7 DEF LuaSaveProfiles, SaveProfiles, DiesSaving
  <2> QED BY <2>1, <2>2, TypeParts, TypePartsPrimed DEF store, people
<1>8. ASSUME NEW p \in Ids, MoveDown(p) \/ MoveUp(p) PROVE RegistryTypeOK'
  <2>1. \E q \in Ids : Swap(p, q)
    <3>1. MoveDown(p) => p + 1 \in Ids /\ Swap(p, p + 1)
      BY <1>1 DEF MoveDown, MoveProfileDown, Ids
    <3>2. MoveUp(p) => p - 1 \in Ids /\ Swap(p, p - 1)
      BY <1>1 DEF MoveUp, MoveProfileUp, Ids
    <3> QED BY <1>8, <3>1, <3>2
  <2> QED BY <1>5, <2>1
<1>9. LuaAddProfile /\ ~Dies => \E name \in Names : CreateProfile(name)
  BY DEF LuaAddProfile, AddProfile
<1>10. RemoveProfileByName => \E p \in Ids : RemoveProfile(p)
  BY ProfileFound DEF RemoveProfileByName
<1> QED BY <1>2, <1>3, <1>4, <1>6, <1>7, <1>8, <1>9, <1>10

\* Saves, the end of the process and its start.
LEMMA ProcessStepType ==
    ASSUME RegistryTypeOK,
           LuaSaveRegs \/ SaveOnTime \/ FinalClose \/ Crash \/ Start \/ AddRegCmdLine
    PROVE  RegistryTypeOK'
<1>1. Nobody => member' \in [Nicks -> User] /\ listed' \in [Nicks -> 0 .. MaxListed]
  BY OutType, BoundsAssumption DEF Nobody
<1>2. regs \in Numbers /\ (SaveNow(regs) => regFile' \in Numbers /\ saveCalls' \in 0 .. SaveEvery)
  BY SaveType, TypeParts
<1>3. Loaded(regFile) \in Numbers
  <2>1. Len(profFile) \in Nat /\ Len(profFile) <= MaxProfiles
    BY LenProperties, TypeParts DEF Table
  <2>2. \A f \in None .. MaxProfiles : Clamped(f, Len(profFile) - 1) \in None .. MaxProfiles
    BY <2>1, BoundsAssumption DEF Clamped, None
  <2> QED BY <2>2, TypeParts DEF Loaded, Numbers
<1>4. CASE LuaSaveRegs \/ SaveOnTime
  <2>1. SaveNow(regs) /\ UNCHANGED <<hub, table, regs, people>>
    BY <1>4 DEF LuaSaveRegs, SaveOnTime
  <2> QED BY <1>2, <2>1, TypeParts, TypePartsPrimed DEF table, people
<1>5. CASE FinalClose
  <2>1. <<>> \in Table
    BY EmptySeq, BoundsAssumption DEF Table
  <2>2. CASE DiesSaving
    BY <2>1, <2>2, TypeParts, TypePartsPrimed DEF DiesSaving, store, people
  <2>3. CASE ~DiesSaving
    <3>1. /\ hub' = "down" /\ profFile' = profiles /\ SaveNow(regs)
          /\ Nobody /\ UNCHANGED <<profiles, holes, regs>>
      BY <1>5, <2>3 DEF FinalClose
    <3> QED BY <1>1, <1>2, <3>1, TypeParts, TypePartsPrimed
  <2> QED BY <2>2, <2>3
<1>6. CASE Crash
  BY <1>1, <1>6, TypeParts, TypePartsPrimed DEF Crash, table, store
<1>7. CASE Start
  <2>1. 0 \in 0 .. SaveEvery
    BY BoundsAssumption
  <2> QED BY <1>1, <1>3, <1>7, <2>1, TypeParts, TypePartsPrimed DEF Start
<1>8. CASE AddRegCmdLine
  <2>1. PICK n \in Nicks, p \in 0 .. Len(profFile) - 1 :
          regFile' = [Loaded(regFile) EXCEPT ![n] = p]
    BY <1>8 DEF AddRegCmdLine
  <2>2. p \in None .. MaxProfiles
    <3>1. Len(profFile) \in Nat /\ Len(profFile) <= MaxProfiles
      BY LenProperties, TypeParts DEF Table
    <3> QED BY <3>1, BoundsAssumption DEF None
  <2>3. regFile' \in Numbers
    BY <1>3, <2>1, <2>2 DEF Numbers
  <2>4. UNCHANGED <<hub, table, regs, saveCalls, people>>
    BY <1>8 DEF AddRegCmdLine
  <2> QED BY <2>3, <2>4, TypeParts, TypePartsPrimed DEF table, people
<1> QED BY <1>4, <1>5, <1>6, <1>7, <1>8

LEMMA InitType == RegistryInit => RegistryTypeOK
<1> SUFFICES ASSUME RegistryInit PROVE RegistryTypeOK
  OBVIOUS
<1>1. profiles \in Table
  <2>1. PICK names \in [1 .. 2 -> Names] :
          profiles = [i \in 1 .. 2 |-> [name |-> names[i], key |-> i = 1]]
    BY DEF RegistryInit
  <2>2. \A i \in 1 .. 2 : [name |-> names[i], key |-> i = 1] \in Profile
    BY DEF Profile
  <2>3. profiles \in [1 .. 2 -> Profile]
    BY <2>1, <2>2
  <2>4. profiles \in Seq(Profile) /\ Len(profiles) = 2
    <3>1. Seq(Profile) = UNION {[1 .. n -> Profile] : n \in Nat} /\ 2 \in Nat
      BY SeqDef
    <3>2. profiles \in Seq(Profile)
      BY <2>3, <3>1, Zenon
    <3>3. Len(profiles) \in Nat /\ 1 .. Len(profiles) = 1 .. 2
      <4>1. DOMAIN profiles = 1 .. 2
        BY <2>3
      <4>2. DOMAIN profiles = 1 .. Len(profiles) /\ Len(profiles) \in Nat
        BY <3>2, LenProperties, Zenon
      <4> QED BY <4>1, <4>2
    <3>4. Len(profiles) = 2
      <4>1. \A k \in Nat : 1 .. k = 1 .. 2 => k = 2
        OBVIOUS
      <4> QED BY <3>3, <4>1, Zenon
    <3> QED BY <3>2, <3>4
  <2> QED BY <2>4, BoundsAssumption DEF Table
<1>2. regs \in Numbers /\ regFile = regs
  <2>1. PICK xml \in [Nicks -> None .. 2] : LoadXML(xml, 1)
    BY DEF RegistryInit
  <2>2. \A f \in None .. 2 : Clamped(f, 1) \in None .. MaxProfiles
    BY BoundsAssumption DEF Clamped, None
  <2> QED BY <2>1, <2>2 DEF LoadXML, Numbers
<1>3. 0 \in 0 .. SaveEvery /\ 0 \in 0 .. MaxListed
  BY BoundsAssumption
<1> QED BY <1>1, <1>2, <1>3, OutType, TypeParts DEF RegistryInit

LEMMA NextType == RegistryTypeOK /\ [RegistryNext]_registryVars => RegistryTypeOK'
<1> SUFFICES ASSUME RegistryTypeOK, [RegistryNext]_registryVars PROVE RegistryTypeOK'
  OBVIOUS
<1>1. CASE UNCHANGED registryVars
  BY <1>1, TypeParts, TypePartsPrimed DEF registryVars
<1>2. CASE RegistryNext
  BY <1>2, MemberStepType, AddStepType, ChangeStepType, ProfileStepType, ProcessStepType
     DEF RegistryNext, Running
<1> QED BY <1>1, <1>2

\* Every reachable state is well typed: whatever is added, moved and removed,
\* a registration and a member name a place the table may have or none.
THEOREM RegistryTypeCorrect == RegistrySpec => []RegistryTypeOK
BY InitType, NextType, PTL DEF RegistrySpec
-----------------------------------------------------------------------------
\* The list of operators.

\* What a step does to the place of a member in the list: nothing; one entry
\* more, for a member that was not to be shown; one less, or none left, for
\* one that is not to be shown any more.
Settled(n) ==
    \/ listed'[n] = listed[n] /\ (Shown(member'[n]) <=> Shown(member[n]))
    \/ /\ listed'[n] = listed[n] + 1 /\ ~Shown(member[n])
       /\ \/ Shown(member'[n])
          \/ member[n].st \in {"asked", "login"} \/ member[n].hidden
    \/ /\ ~Shown(member'[n])
       /\ listed'[n] \in {0, IF listed[n] > 0 THEN listed[n] - 1 ELSE 0}

\* The entries are there, of a hub that died, too.
ListInv == \A n \in Nicks : Shown(member[n]) => listed[n] > 0

LEMMA SettledKeeps ==
    ASSUME RegistryTypeOK, ListInv, NEW n \in Nicks, Settled(n)
    PROVE  /\ Shown(member'[n]) => listed'[n] > 0
           /\ Extra(n)' > Extra(n) =>
                member[n].st \in {"asked", "login"} \/ member[n].hidden
<1>1. PICK k \in Nat : k = listed[n]
  BY BoundsAssumption DEF RegistryTypeOK
<1>2. PICK j : j = listed'[n]
  OBVIOUS
<1>3. Shown(member[n]) => k > 0
  BY <1>1 DEF ListInv
<1>4. /\ Extra(n) = k - (IF Shown(member[n]) THEN 1 ELSE 0)
      /\ Extra(n)' = j - (IF Shown(member'[n]) THEN 1 ELSE 0)
  BY <1>1, <1>2 DEF Extra, Shown
<1>5. CASE j = k /\ (Shown(member'[n]) <=> Shown(member[n]))
  BY <1>1, <1>2, <1>3, <1>4, <1>5
<1>6. CASE /\ j = k + 1 /\ ~Shown(member[n])
           /\ \/ Shown(member'[n])
              \/ member[n].st \in {"asked", "login"} \/ member[n].hidden
  BY <1>1, <1>2, <1>4, <1>6
<1>7. CASE ~Shown(member'[n]) /\ j \in {0, IF k > 0 THEN k - 1 ELSE 0}
  BY <1>1, <1>2, <1>3, <1>4, <1>7
<1> QED BY <1>1, <1>2, <1>5, <1>6, <1>7 DEF Settled

\* A step about one member settles the others.
LEMMA OthersSettled ==
    ASSUME RegistryTypeOK, NEW n \in Nicks, NEW u, member' = [member EXCEPT ![n] = u],
           Add2OpList(n) \/ DelFromOpList(n) \/ listed' = listed
    PROVE  /\ \A m \in Nicks \ {n} : Settled(m)
           /\ member'[n] = u
           /\ Add2OpList(n) => listed'[n] = listed[n] + 1
           /\ DelFromOpList(n) => listed'[n] = IF listed[n] > 0 THEN listed[n] - 1 ELSE 0
<1>1. member \in [Nicks -> User] /\ listed \in [Nicks -> 0 .. MaxListed]
  BY TypeParts
<1>2. \A m \in Nicks \ {n} : member'[m] = member[m] /\ listed'[m] = listed[m]
  BY <1>1 DEF Add2OpList, DelFromOpList
<1>3. /\ member'[n] = u
      /\ Add2OpList(n) => listed'[n] = listed[n] + 1
      /\ DelFromOpList(n) => listed'[n] = IF listed[n] > 0 THEN listed[n] - 1 ELSE 0
  BY <1>1 DEF Add2OpList, DelFromOpList
<1> QED BY <1>2, <1>3 DEF Settled

\* Nobody's place changes.
LEMMA NobodyMoves ==
    ASSUME RegistryTypeOK, UNCHANGED listed,
           \A n \in Nicks : Shown(member'[n]) <=> Shown(member[n])
    PROVE  \A n \in Nicks : Settled(n)
BY DEF Settled

LEMMA BecomesSettles ==
    ASSUME RegistryTypeOK, NEW n \in Online, NEW u \in User, Becomes(n, u),
           u.st = member[n].st, u.hideKey = member[n].hideKey, u.hidden = member[n].hidden,
           member[n].op => u.op
    PROVE  \A m \in Nicks : Settled(m)
<1>1. n \in Nicks /\ member[n] \in User /\ member[n].st # "out"
  BY TypeParts DEF Online
<1>2. member' = [member EXCEPT ![n] = u] /\ (Add2OpList(n) \/ listed' = listed)
  BY DEF Becomes
<1>3. member'[n] = u /\ \A m \in Nicks \ {n} : Settled(m)
  BY <1>1, <1>2, OthersSettled
<1>4. CASE u.op /\ ~member[n].op /\ ~u.hideKey
  <2>1. listed'[n] = listed[n] + 1
    BY <1>1, <1>2, <1>4, OthersSettled DEF Becomes
  <2>2. Shown(member'[n]) \/ member[n].st \in {"asked", "login"} \/ member[n].hidden
    BY <1>1, <1>3, <1>4, UserFields DEF Shown, Phases
  <2> QED BY <1>3, <1>4, <2>1, <2>2 DEF Settled, Shown
<1>5. CASE ~(u.op /\ ~member[n].op /\ ~u.hideKey)
  <2>1. listed' = listed
    BY <1>5 DEF Becomes
  <2>2. Shown(member'[n]) <=> Shown(member[n])
    BY <1>3, <1>5 DEF Shown
  <2> QED BY <1>3, <2>1, <2>2 DEF Settled
<1> QED BY <1>4, <1>5

LEMMA MemberStepSettles ==
    ASSUME RegistryTypeOK, NEW n \in Nicks,
           \/ Enter(n) \/ MyPass(n) \/ Add2Userlist(n) \/ Leaves(n)
           \/ Speaks(n) \/ KickMessage(n)
    PROVE  \A m \in Nicks : Settled(m)
<1>1. PICK u \in User : u = member[n]
  BY TypeParts
<1>2. CASE Dies
  BY <1>2, NobodyMoves DEF Dies, people
<1>3. ASSUME NEW v, member' = [member EXCEPT ![n] = v], listed' = listed, Shown(v) <=> Shown(u)
      PROVE  \A m \in Nicks : Settled(m)
  <2>1. member'[n] = v /\ \A m \in Nicks \ {n} : Settled(m)
    BY <1>3, OthersSettled
  <2> QED BY <1>1, <1>3, <2>1 DEF Settled
<1>4. CASE Enter(n)
  <2>1. /\ member' = [member EXCEPT ![n] =
               [Out EXCEPT !.st = IF ~Registered(n) THEN "login" ELSE "asked"]]
        /\ listed' = listed /\ u.st = "out"
    BY <1>1, <1>4 DEF Enter, Online
  <2>2. ~Shown([Out EXCEPT !.st = IF ~Registered(n) THEN "login" ELSE "asked"])
    BY DEF Shown, Out
  <2> QED BY <1>3, <2>1, <2>2 DEF Shown
<1>5. CASE MyPass(n) /\ ~Dies
  <2>1. /\ member' = [member EXCEPT ![n] = [u EXCEPT !.st = "login", !.profile = regs[n],
                                                     !.op = HasKey(regs[n])]]
        /\ listed' = listed /\ u.st = "asked"
    BY <1>1, <1>5, TypeParts DEF MyPass
  <2>2. ~Shown([u EXCEPT !.st = "login", !.profile = regs[n], !.op = HasKey(regs[n])])
    BY DEF Shown, User
  <2> QED BY <1>3, <2>1, <2>2 DEF Shown
<1>6. CASE Add2Userlist(n)
  <2>1. PICK waits :
           LET v == [u EXCEPT !.st = "in", !.waits = waits] IN
           /\ member' = [member EXCEPT ![n] = v]
           /\ IF Shown(v) THEN Add2OpList(n) ELSE UNCHANGED listed
    BY <1>1, <1>6 DEF Add2Userlist
  <2>2. PICK v : v = [u EXCEPT !.st = "in", !.waits = waits]
    OBVIOUS
  <2>3. /\ member' = [member EXCEPT ![n] = v]
        /\ IF Shown(v) THEN Add2OpList(n) ELSE UNCHANGED listed
    BY <2>1, <2>2
  <2>4. ~Shown(u)
    BY <1>1, <1>6 DEF Add2Userlist, Shown
  <2>5. CASE Shown(v)
    <3>1. /\ member'[n] = v /\ listed'[n] = listed[n] + 1
          /\ \A m \in Nicks \ {n} : Settled(m)
      BY <2>3, <2>5, OthersSettled
    <3> QED BY <1>1, <2>4, <2>5, <3>1 DEF Settled
  <2>6. CASE ~Shown(v)
    BY <1>3, <2>3, <2>4, <2>6
  <2> QED BY <2>5, <2>6
<1>7. CASE Leaves(n)
  <2>1. member' = [member EXCEPT ![n] = Out] /\ LeaveOp(n) /\ ~Shown(Out)
    BY <1>7 DEF Leaves, Shown, Out
  <2>2. CASE u.st = "in" /\ u.op
    <3>1. DelFromOpList(n)
      BY <1>1, <2>1, <2>2 DEF LeaveOp
    <3>2. /\ member'[n] = Out /\ \A m \in Nicks \ {n} : Settled(m)
          /\ listed'[n] = IF listed[n] > 0 THEN listed[n] - 1 ELSE 0
      BY <2>1, <3>1, OthersSettled
    <3> QED BY <2>1, <3>2 DEF Settled
  <2>3. CASE ~(u.st = "in" /\ u.op)
    BY <1>1, <1>3, <2>1, <2>3 DEF LeaveOp, Shown
  <2> QED BY <2>2, <2>3
<1>8. CASE Speaks(n)
  BY <1>2, <1>8 DEF Speaks
<1>9. CASE KickMessage(n)
  <2>1. member' = [member EXCEPT ![n] = [u EXCEPT !.waits = Garbled]] /\ listed' = listed
    BY <1>1, <1>9, TypeParts DEF KickMessage
  <2>2. Shown([u EXCEPT !.waits = Garbled]) <=> Shown(u)
    BY DEF Shown, User
  <2> QED BY <1>3, <2>1, <2>2
<1> QED BY <1>2, <1>4, <1>5, <1>6, <1>7, <1>8, <1>9

LEMMA PromotedKeeps ==
    ASSUME RegistryTypeOK, NEW n \in Nicks, NEW p \in Ids
    PROVE  /\ Promoted(n, p) \in User
           /\ Promoted(n, p).st = member[n].st
           /\ Promoted(n, p).hideKey = member[n].hideKey
           /\ Promoted(n, p).hidden = member[n].hidden
           /\ Promoted(n, p).profile = p
           /\ member[n].op => Promoted(n, p).op
<1>1. member[n] \in User
  BY TypeParts
<1>2. /\ Promoted(n, p).st = member[n].st
      /\ Promoted(n, p).hideKey = member[n].hideKey
      /\ Promoted(n, p).hidden = member[n].hidden
      /\ Promoted(n, p).profile = p
      /\ Promoted(n, p).op = (member[n].op \/ HasKey(p))
  BY <1>1 DEF Promoted, User
<1> QED BY <1>2, PromotedType

LEMMA AddStepSettles ==
    ASSUME RegistryTypeOK, NEW n \in Nicks,
           AddRegUser(n) \/ LuaAddReg(n) \/ RegNewUser(n) \/ LuaAskReg(n) \/ LatePassword(n)
    PROVE  \A m \in Nicks : Settled(m)
<1>1. PICK u \in User : u = member[n]
  BY TypeParts
<1>2. CASE Dies
  BY <1>2, NobodyMoves DEF Dies, people
<1>3. ASSUME ~Dies, NEW p \in Ids, AddsNew(n, p) PROVE \A m \in Nicks : Settled(m)
  <2>1. (n \in Online /\ Becomes(n, Promoted(n, p))) \/ UNCHANGED people
    BY <1>3 DEF AddsNew, AddNew
  <2>2. CASE n \in Online /\ Becomes(n, Promoted(n, p))
    BY <2>2, PromotedKeeps, BecomesSettles
  <2>3. CASE UNCHANGED people
    BY <2>3, NobodyMoves DEF people
  <2> QED BY <2>1, <2>2, <2>3
<1>4. ASSUME NEW x, member' = [member EXCEPT ![n].waits = x], UNCHANGED listed
      PROVE  \A m \in Nicks : Settled(m)
  <2>1. \A m \in Nicks : /\ member'[m].st = member[m].st /\ member'[m].op = member[m].op
                         /\ member'[m].hideKey = member[m].hideKey
                         /\ member'[m].hidden = member[m].hidden
    <3>1. member' = [member EXCEPT ![n] = [u EXCEPT !.waits = x]]
      BY <1>1, <1>4, TypeParts
    <3> QED BY <1>1, <3>1, TypeParts DEF User
  <2> QED BY <1>4, <2>1, NobodyMoves DEF Shown
<1>5. CASE LatePassword(n) /\ ~Dies
  <2>1. PICK waits : waits = member[n].waits
    OBVIOUS
  <2>2. CASE Named(waits) = {}
    BY <1>4, <1>5, <2>1, <2>2 DEF LatePassword
  <2>3. CASE Named(waits) # {}
    <3>1. PICK p \in Ids : p = GetProfileIndex(waits)
      BY <2>3, ProfileFound
    <3>2. PICK v : v = [Promoted(n, p) EXCEPT !.waits = NotAsked]
      OBVIOUS
    <3>3. Becomes(n, v)
      BY <1>5, <2>1, <2>3, <3>1, <3>2 DEF LatePassword
    <3>4. /\ v \in User /\ v.st = member[n].st /\ v.hideKey = member[n].hideKey
          /\ v.hidden = member[n].hidden /\ (member[n].op => v.op)
      <4>1. PICK w \in User : w = Promoted(n, p)
        BY PromotedType
      <4>2. v \in User /\ v = [w EXCEPT !.waits = NotAsked]
        BY <3>2, <4>1, UserParts
      <4>3. v.st = w.st /\ v.hideKey = w.hideKey /\ v.hidden = w.hidden /\ v.op = w.op
        BY <4>2 DEF User
      <4> QED BY <4>1, <4>2, <4>3, PromotedKeeps
    <3>5. n \in Online
      BY <1>5 DEF LatePassword, Online
    <3> QED BY <3>3, <3>4, <3>5, BecomesSettles
  <2> QED BY <2>2, <2>3
<1>6. CASE AddRegUser(n) \/ LuaAddReg(n)
  <2>1. PICK p \in Ids : AddsNew(n, p)
    BY <1>6, ProfileFound DEF AddRegUser, LuaAddReg
  <2> QED BY <1>2, <1>3, <2>1
<1>7. CASE RegNewUser(n) \/ LuaAskReg(n)
  <2>1. PICK name : Asks(n, name)
    BY <1>7 DEF RegNewUser, LuaAskReg
  <2> QED BY <1>4, <2>1 DEF Asks
<1> QED BY <1>2, <1>5, <1>6, <1>7

LEMMA ChangeStepSettles ==
    ASSUME RegistryTypeOK, NEW n \in Nicks,
           \/ DelRegUser(n) \/ LuaDelReg(n) \/ LuaChangeReg(n) \/ Passwd(n) \/ Op(n)
           \/ HideUserKey(n) \/ HideUser(n)
    PROVE  \A m \in Nicks : Settled(m)
<1>1. PICK u \in User : u = member[n]
  BY TypeParts
<1>2. CASE UNCHANGED people
  BY <1>2, NobodyMoves DEF people
<1>3. Dies => UNCHANGED people
  BY DEF Dies
<1>4. ASSUME NEW v, member' = [member EXCEPT ![n] = v], listed' = listed, Shown(v) <=> Shown(u)
      PROVE  \A m \in Nicks : Settled(m)
  <2>1. member'[n] = v /\ \A m \in Nicks \ {n} : Settled(m)
    BY <1>4, OthersSettled
  <2> QED BY <1>1, <1>4, <2>1 DEF Settled
<1>5. ASSUME NEW v, member' = [member EXCEPT ![n] = v], DelFromOpList(n), ~Shown(v)
      PROVE  \A m \in Nicks : Settled(m)
  <2>1. /\ member'[n] = v /\ \A m \in Nicks \ {n} : Settled(m)
        /\ listed'[n] = IF listed[n] > 0 THEN listed[n] - 1 ELSE 0
    BY <1>5, OthersSettled
  <2> QED BY <1>5, <2>1 DEF Settled
<1>6. ASSUME NEW v, member' = [member EXCEPT ![n] = v], Add2OpList(n), ~Shown(u),
             Shown(v) \/ u.st \in {"asked", "login"} \/ u.hidden
      PROVE  \A m \in Nicks : Settled(m)
  <2>1. /\ member'[n] = v /\ listed'[n] = listed[n] + 1
        /\ \A m \in Nicks \ {n} : Settled(m)
    BY <1>6, OthersSettled
  <2> QED BY <1>1, <1>6, <2>1 DEF Settled
<1>7. CASE Delete(n) /\ ~UNCHANGED people
  <2>1. PICK v : v = [u EXCEPT !.profile = None, !.op = FALSE]
    OBVIOUS
  <2>2. /\ member' = [member EXCEPT ![n] = v]
        /\ IF u.op THEN DelFromOpList(n) ELSE UNCHANGED listed
    BY <1>1, <1>7, <2>1, TypeParts DEF Delete
  <2>3. ~Shown(v) /\ (~u.op => ~Shown(u))
    BY <2>1 DEF Shown, User
  <2> QED BY <1>4, <1>5, <2>2, <2>3
<1>8. CASE ChangeReg(n) /\ ~UNCHANGED people
  <2>1. PICK p \in Ids :
           /\ n \in Online
           /\ member' = [member EXCEPT ![n].profile = p, ![n].op = HasKey(p)]
           /\ CASE member[n].op = HasKey(p) \/ member[n].hideKey -> UNCHANGED listed
                [] HasKey(p) /\ ~member[n].op /\ ~member[n].hideKey -> Add2OpList(n)
                [] ~HasKey(p) /\ member[n].op /\ ~member[n].hideKey -> DelFromOpList(n)
    BY <1>3, <1>8 DEF ChangeReg
  <2>2. PICK v : v = [u EXCEPT !.profile = p, !.op = HasKey(p)]
    OBVIOUS
  <2>3. member' = [member EXCEPT ![n] = v]
    BY <1>1, <2>1, <2>2, TypeParts
  <2>4. /\ v.st = u.st /\ v.op = HasKey(p) /\ v.hideKey = u.hideKey /\ v.hidden = u.hidden
        /\ u.op \in BOOLEAN /\ u.hideKey \in BOOLEAN /\ HasKey(p) \in BOOLEAN
        /\ u.st \in Phases /\ u.st # "out"
    BY <1>1, <2>1, <2>2, IdsType DEF User, Online
  <2>5. CASE u.op = HasKey(p) \/ u.hideKey
    <3>1. listed' = listed
      BY <1>1, <2>1, <2>4, <2>5
    <3>2. Shown(v) <=> Shown(u)
      BY <2>4, <2>5 DEF Shown
    <3> QED BY <1>4, <2>3, <3>1, <3>2
  <2>6. CASE HasKey(p) /\ ~u.op /\ ~u.hideKey
    <3>1. Add2OpList(n)
      BY <1>1, <2>1, <2>4, <2>6
    <3>2. ~Shown(u) /\ (Shown(v) \/ u.st \in {"asked", "login"} \/ u.hidden)
      BY <2>4, <2>6 DEF Shown, Phases
    <3> QED BY <1>6, <2>3, <3>1, <3>2
  <2>7. CASE ~HasKey(p) /\ u.op /\ ~u.hideKey
    <3>1. DelFromOpList(n)
      BY <1>1, <2>1, <2>4, <2>7
    <3>2. ~Shown(v)
      BY <2>4, <2>7 DEF Shown
    <3> QED BY <1>5, <2>3, <3>1, <3>2
  <2> QED BY <2>4, <2>5, <2>6, <2>7
<1>9. CASE Passwd(n)
  BY <1>2, <1>9 DEF Passwd, people
<1>10. CASE Op(n) /\ ~Dies
  <2>1. PICK p \in Ids : p = GetProfileIndex(Operator)
    BY <1>10, ProfileFound DEF Op
  <2>2. PICK v : v = [u EXCEPT !.op = TRUE, !.temp = TRUE, !.profile = p]
    OBVIOUS
  <2>3. Becomes(n, v) /\ n \in Online
    BY <1>1, <1>10, <2>1, <2>2 DEF Op
  <2>4. p \in None .. MaxProfiles
    BY IdsType, BoundsAssumption DEF None
  <2>5. v \in User /\ v.st = u.st /\ v.hideKey = u.hideKey /\ v.hidden = u.hidden /\ v.op
    BY <2>2, <2>4 DEF User
  <2> QED BY <1>1, <2>3, <2>5, BecomesSettles
<1>11. CASE HideUserKey(n)
  <2>1. PICK v : v = [u EXCEPT !.hideKey = ~u.hideKey]
    OBVIOUS
  <2>2. /\ member' = [member EXCEPT ![n] = v]
        /\ v.st = u.st /\ v.op = u.op /\ v.hideKey = ~u.hideKey /\ v.hidden = u.hidden
    BY <1>1, <1>11, <2>1, TypeParts DEF HideUserKey, User
  <2>3. CASE u.st = "in" /\ u.op /\ ~u.hidden /\ u.hideKey
    <3>1. Add2OpList(n)
      BY <1>1, <1>11, <2>3 DEF HideUserKey
    <3> QED BY <1>6, <2>2, <2>3, <3>1 DEF Shown
  <2>4. CASE u.st = "in" /\ u.op /\ ~u.hidden /\ ~u.hideKey
    <3>1. DelFromOpList(n)
      BY <1>1, <1>11, <2>4 DEF HideUserKey
    <3> QED BY <1>5, <2>2, <2>4, <3>1 DEF Shown
  <2>5. CASE ~(u.st = "in" /\ u.op /\ ~u.hidden)
    <3>1. listed' = listed
      BY <1>1, <1>11, <2>5 DEF HideUserKey
    <3> QED BY <1>4, <2>2, <2>5, <3>1 DEF Shown
  <2> QED BY <2>3, <2>4, <2>5
<1>12. CASE HideUser(n)
  <2>1. PICK v : v = [u EXCEPT !.hidden = ~u.hidden]
    OBVIOUS
  <2>2. /\ member' = [member EXCEPT ![n] = v]
        /\ v.st = u.st /\ v.op = u.op /\ v.hideKey = u.hideKey /\ v.hidden = ~u.hidden
    BY <1>1, <1>12, <2>1, TypeParts DEF HideUser, User
  <2>3. CASE u.st = "in" /\ u.op /\ ~u.hideKey /\ u.hidden
    <3>1. Add2OpList(n)
      BY <1>1, <1>12, <2>3 DEF HideUser
    <3> QED BY <1>6, <2>2, <2>3, <3>1 DEF Shown
  <2>4. CASE u.st = "in" /\ u.op /\ ~u.hideKey /\ ~u.hidden
    <3>1. DelFromOpList(n)
      BY <1>1, <1>12, <2>4 DEF HideUser
    <3> QED BY <1>5, <2>2, <2>4, <3>1 DEF Shown
  <2>5. CASE ~(u.st = "in" /\ u.op /\ ~u.hideKey)
    <3>1. listed' = listed
      BY <1>1, <1>12, <2>5 DEF HideUser
    <3> QED BY <1>4, <2>2, <2>5, <3>1 DEF Shown
  <2> QED BY <2>3, <2>4, <2>5
<1> QED BY <1>2, <1>3, <1>7, <1>8, <1>9, <1>10, <1>11, <1>12
        DEF DelRegUser, LuaDelReg, LuaChangeReg

LEMMA ProfileStepSettles ==
    ASSUME RegistryTypeOK,
           \/ LuaAddProfile \/ RemoveProfileByName \/ SetProfileName
           \/ SetProfilePermission \/ LuaSaveProfiles
           \/ \E p \in Ids : RemoveProfile(p) \/ MoveDown(p) \/ MoveUp(p)
    PROVE  \A m \in Nicks : Settled(m)
<1>1. /\ listed' = listed
      /\ \A m \in Nicks : /\ member'[m].st = member[m].st /\ member'[m].op = member[m].op
                          /\ member'[m].hideKey = member[m].hideKey
                          /\ member'[m].hidden = member[m].hidden
  <2>1. CASE UNCHANGED people
    BY <2>1 DEF people
  <2>2. UNCHANGED people \/ \E p \in Ids : RemoveProfile(p) \/ MoveDown(p) \/ MoveUp(p)
    BY ProfileFound DEF LuaAddProfile, AddProfile, Dies, CreateProfile, RemoveProfileByName,
       SetProfileName, SetProfilePermission, LuaSaveProfiles, SaveProfiles, DiesSaving
  <2>3. ASSUME NEW p \in Ids, RemoveProfile(p)
        PROVE  \A m \in Nicks : /\ member'[m].st = member[m].st /\ member'[m].op = member[m].op
                                /\ member'[m].hideKey = member[m].hideKey
                                /\ member'[m].hidden = member[m].hidden
    BY <2>3, TypeParts DEF RemoveProfile, User
  <2>4. ASSUME NEW p, NEW q, Swap(p, q)
        PROVE  \A m \in Nicks : /\ member'[m].st = member[m].st /\ member'[m].op = member[m].op
                                /\ member'[m].hideKey = member[m].hideKey
                                /\ member'[m].hidden = member[m].hidden
    BY <2>4, TypeParts DEF Swap, User
  <2>5. ASSUME NEW p \in Ids, MoveDown(p) \/ MoveUp(p)
        PROVE  \E q : Swap(p, q)
    BY <2>5 DEF MoveDown, MoveUp, MoveProfileDown, MoveProfileUp
  <2>6. ASSUME NEW p \in Ids, RemoveProfile(p) \/ MoveDown(p) \/ MoveUp(p) PROVE listed' = listed
    BY <2>6, <2>5 DEF RemoveProfile, Swap
  <2> QED BY <2>1, <2>2, <2>3, <2>4, <2>5, <2>6
<1> QED BY <1>1, NobodyMoves DEF Shown

LEMMA ProcessStepSettles ==
    ASSUME RegistryTypeOK,
           LuaSaveRegs \/ SaveOnTime \/ FinalClose \/ Crash \/ Start \/ AddRegCmdLine
    PROVE  \A m \in Nicks : Settled(m)
<1>1. CASE UNCHANGED people
  BY <1>1, NobodyMoves DEF people
<1>2. CASE Nobody
  BY <1>2 DEF Nobody, Settled, Shown, Out
<1> QED BY <1>1, <1>2 DEF LuaSaveRegs, SaveOnTime, FinalClose, DiesSaving, Crash, Start,
           AddRegCmdLine

LEMMA EveryStepSettles ==
    ASSUME RegistryTypeOK, [RegistryNext]_registryVars
    PROVE  \A m \in Nicks : Settled(m)
<1>1. CASE UNCHANGED registryVars
  BY <1>1, NobodyMoves DEF registryVars
<1>2. CASE RegistryNext
  BY <1>2, MemberStepSettles, AddStepSettles, ChangeStepSettles, ProfileStepSettles,
     ProcessStepSettles DEF RegistryNext, Running
<1> QED BY <1>1, <1>2

LEMMA ListInvariance == RegistrySpec => []ListInv
<1>1. RegistryInit => ListInv
  BY DEF RegistryInit, ListInv, Shown, Out
<1>2. RegistryTypeOK /\ ListInv /\ [RegistryNext]_registryVars => ListInv'
  <2> SUFFICES ASSUME RegistryTypeOK, ListInv, [RegistryNext]_registryVars PROVE ListInv'
    OBVIOUS
  <2>1. \A n \in Nicks : Shown(member'[n]) => listed'[n] > 0
    BY EveryStepSettles, SettledKeeps
  <2> QED BY <2>1 DEF ListInv, Shown
<1> QED BY <1>1, <1>2, RegistryTypeCorrect, PTL DEF RegistrySpec

\* Every operator that hides neither itself nor its key stands in the list of
\* operators, whatever promotes, changes, hides and shows it (Add2OpList and
\* DelFromOpList, called from nine places that test different bits).
THEOREM OperatorsListed == RegistrySpec => []OperatorsShown
<1>1. ListInv => OperatorsShown
  BY DEF ListInv, OperatorsShown
<1> QED BY <1>1, ListInvariance, PTL

\* An entry too many comes from a promotion before the member is in the lists
\* or while it is hidden, and from nothing else.
THEOREM EntriesCorrect == RegistrySpec => EntriesMatchMembers
<1>1. RegistryTypeOK /\ ListInv /\ [RegistryNext]_registryVars =>
        [\A n \in Nicks : Extra(n)' > Extra(n) =>
            member[n].st \in {"asked", "login"} \/ member[n].hidden]_registryVars
  BY EveryStepSettles, SettledKeeps
<1> QED BY <1>1, RegistryTypeCorrect, ListInvariance, PTL DEF RegistrySpec, EntriesMatchMembers
-----------------------------------------------------------------------------
\* Members and their registrations.

\* How a member may part with its registration.
Parts(n) ==
    \/ member'[n].st = "out" \/ ~Registered(n)'
    \/ member'[n].temp /\ member'[n].op /\ ~member[n].op
    \/ member[n].waits # NotAsked /\ member'[n].waits = NotAsked
Follows(n) == Agrees(n) => Agrees(n)' \/ Parts(n)

\* Where neither moves, or both move together, they agree as before.
LEMMA StaysAgreed ==
    ASSUME NEW n \in Nicks, member'[n] = member[n], regs'[n] = regs[n]
    PROVE  Follows(n)
BY DEF Follows, Agrees, Registered

LEMMA OthersFollow ==
    ASSUME RegistryTypeOK, NEW n \in Nicks, NEW u, NEW p,
           member' = [member EXCEPT ![n] = u] \/ member' = member,
           regs' = [regs EXCEPT ![n] = p] \/ regs' = regs
    PROVE  \A m \in Nicks \ {n} : Follows(m)
<1>1. \A m \in Nicks \ {n} : member'[m] = member[m] /\ regs'[m] = regs[m]
  BY TypeParts DEF Numbers
<1> QED BY <1>1, StaysAgreed

\* Nobody's profile or registration changes.
LEMMA NobodyParts ==
    ASSUME RegistryTypeOK, UNCHANGED <<regs, member>>
    PROVE  \A m \in Nicks : Follows(m)
BY StaysAgreed

\* The steps of one member, but for a change of its registration.
LEMMA MemberFollows ==
    ASSUME RegistryTypeOK, NEW n \in Nicks,
           \/ Enter(n) \/ MyPass(n) \/ Add2Userlist(n) \/ Leaves(n)
           \/ Speaks(n) \/ KickMessage(n) \/ AddRegUser(n) \/ LuaAddReg(n) \/ RegNewUser(n)
           \/ LuaAskReg(n) \/ LatePassword(n) \/ DelRegUser(n) \/ LuaDelReg(n)
           \/ Passwd(n) \/ Op(n) \/ HideUserKey(n) \/ HideUser(n)
    PROVE  \A m \in Nicks : Follows(m)
<1>1. PICK u \in User : u = member[n]
  BY TypeParts
<1>2. CASE UNCHANGED <<regs, member>>
  BY <1>2, NobodyParts
<1>3. Dies => UNCHANGED <<regs, member>>
  BY DEF Dies, store, people
<1>4. ASSUME NEW v, member' = [member EXCEPT ![n] = v], regs' = regs,
             \/ ~Agrees(n) \/ v.st = "out"
             \/ v.profile = u.profile /\ v.st \in {"login", "in"}
             \/ v.temp /\ v.op /\ ~u.op
             \/ u.waits # NotAsked /\ v.waits = NotAsked
      PROVE  \A m \in Nicks : Follows(m)
  <2>1. member'[n] = v /\ regs'[n] = regs[n] /\ (Registered(n)' <=> Registered(n))
    BY <1>4, TypeParts DEF Registered
  <2>2. Follows(n)
    BY <1>1, <1>4, <2>1 DEF Follows, Parts, Agrees
  <2>3. \A m \in Nicks \ {n} : Follows(m)
    BY <1>4, OthersFollow
  <2> QED BY <2>2, <2>3
<1>5. CASE Enter(n)
  <2>1. PICK v : member' = [member EXCEPT ![n] = v] /\ regs' = regs
    BY <1>5 DEF Enter, store
  <2>2. ~Agrees(n)
    BY <1>5 DEF Enter, Agrees, Online
  <2> QED BY <1>4, <2>1, <2>2
<1>6. CASE MyPass(n) /\ ~Dies
  <2>1. PICK v : member' = [member EXCEPT ![n] = v] /\ regs' = regs
    BY <1>6 DEF MyPass, store
  <2>2. ~Agrees(n)
    BY <1>6 DEF MyPass, Agrees
  <2> QED BY <1>4, <2>1, <2>2
<1>7. CASE Add2Userlist(n)
  <2>1. PICK v, waits : /\ v = [u EXCEPT !.st = "in", !.waits = waits]
                        /\ member' = [member EXCEPT ![n] = v] /\ regs' = regs
    BY <1>1, <1>7 DEF Add2Userlist, store
  <2>2. v.profile = u.profile /\ v.st = "in"
    BY <2>1 DEF User
  <2> QED BY <1>4, <2>1, <2>2
<1>8. CASE Leaves(n)
  <2>1. member' = [member EXCEPT ![n] = Out] /\ regs' = regs /\ Out.st = "out"
    BY <1>8 DEF Leaves, store, Out
  <2> QED BY <1>4, <2>1
<1>9. CASE Speaks(n) \/ Passwd(n)
  BY <1>2, <1>3, <1>9 DEF Speaks, Passwd, people
<1>10. CASE KickMessage(n) \/ HideUserKey(n) \/ HideUser(n)
  <2>1. PICK v : /\ \/ v = [u EXCEPT !.waits = Garbled]
                    \/ v = [u EXCEPT !.hideKey = ~u.hideKey]
                    \/ v = [u EXCEPT !.hidden = ~u.hidden]
                 /\ member' = [member EXCEPT ![n] = v] /\ regs' = regs
    BY <1>1, <1>10, TypeParts DEF KickMessage, HideUserKey, HideUser, store
  <2>2. v.profile = u.profile /\ v.st = u.st
    BY <2>1 DEF User
  <2>3. ~Agrees(n) \/ u.st \in {"login", "in"}
    BY <1>1 DEF Agrees
  <2> QED BY <1>4, <2>1, <2>2, <2>3
<1>11. ASSUME NEW p, AddsNew(n, p), ~Dies PROVE \A m \in Nicks : Follows(m)
  <2>1. /\ ~Registered(n) /\ regs' = [regs EXCEPT ![n] = p]
        /\ (\E v : member' = [member EXCEPT ![n] = v]) \/ member' = member
    BY <1>11 DEF AddsNew, AddNew, Becomes, people
  <2>2. Follows(n)
    BY <2>1 DEF Follows, Agrees
  <2>3. \A m \in Nicks \ {n} : Follows(m)
    BY <2>1, OthersFollow
  <2> QED BY <2>2, <2>3
<1>12. ASSUME NEW name, Asks(n, name) PROVE \A m \in Nicks : Follows(m)
  <2>1. PICK v : /\ member' = [member EXCEPT ![n] = v] /\ regs' = regs
                 /\ v = [u EXCEPT !.waits = name]
    BY <1>1, <1>12, TypeParts DEF Asks, store
  <2>2. ~Agrees(n)
    BY <1>12 DEF Asks, Agrees
  <2> QED BY <1>4, <2>1, <2>2
<1>13. CASE LatePassword(n) /\ ~Dies
  <2>1. PICK waits : waits = member[n].waits
    OBVIOUS
  <2>2. PICK v : /\ member' = [member EXCEPT ![n] = v] /\ v.waits = NotAsked
                 /\ (\E p : regs' = [regs EXCEPT ![n] = p]) \/ regs' = regs
    <3>1. CASE Named(waits) = {}
      <4>1. PICK v : v = [u EXCEPT !.waits = NotAsked]
        OBVIOUS
      <4>2. member' = [member EXCEPT ![n] = v] /\ regs' = regs
        BY <1>1, <1>13, <2>1, <3>1, <4>1, TypeParts DEF LatePassword, store
      <4>3. v.waits = NotAsked
        BY <4>1 DEF User
      <4> QED BY <4>2, <4>3
    <3>2. CASE Named(waits) # {}
      <4>1. PICK p \in Ids : p = GetProfileIndex(waits)
        BY <3>2, ProfileFound
      <4>2. PICK w \in User : w = Promoted(n, p)
        BY PromotedType
      <4>3. PICK v : v = [w EXCEPT !.waits = NotAsked]
        OBVIOUS
      <4>4. /\ Becomes(n, v)
            /\ (\E q : regs' = [regs EXCEPT ![n] = q]) \/ regs' = regs
        BY <1>13, <2>1, <3>2, <4>1, <4>2, <4>3 DEF LatePassword, store
      <4>5. v.waits = NotAsked
        BY <4>3 DEF User
      <4> QED BY <4>4, <4>5 DEF Becomes
    <3> QED BY <3>1, <3>2
  <2>3. member'[n].waits = NotAsked /\ member[n].waits # NotAsked
    BY <1>13, <2>2, TypeParts DEF LatePassword
  <2>4. Follows(n)
    BY <2>3 DEF Follows, Parts
  <2>5. \A m \in Nicks \ {n} : Follows(m)
    BY <2>2, OthersFollow
  <2> QED BY <2>4, <2>5
<1>14. CASE Delete(n)
  <2>1. /\ regs' = [regs EXCEPT ![n] = None]
        /\ (\E v : member' = [member EXCEPT ![n] = v]) \/ member' = member
    <3>1. CASE n \in Online
      <4>1. member' = [member EXCEPT ![n] = [u EXCEPT !.profile = None, !.op = FALSE]]
        BY <1>1, <1>14, <3>1, TypeParts DEF Delete
      <4> QED BY <1>14, <4>1 DEF Delete
    <3>2. CASE n \notin Online
      BY <1>14, <3>2 DEF Delete, people
    <3> QED BY <3>1, <3>2
  <2>2. Follows(n)
    BY <2>1, TypeParts DEF Follows, Parts, Registered, Numbers
  <2>3. \A m \in Nicks \ {n} : Follows(m)
    BY <2>1, OthersFollow
  <2> QED BY <2>2, <2>3
<1>15. CASE Op(n) /\ ~Dies
  <2>1. PICK v, p : /\ v = [u EXCEPT !.op = TRUE, !.temp = TRUE, !.profile = p]
                    /\ member' = [member EXCEPT ![n] = v] /\ regs' = regs /\ ~u.op
    BY <1>1, <1>15 DEF Op, Becomes, store
  <2>2. v.temp /\ v.op
    BY <2>1 DEF User
  <2> QED BY <1>4, <2>1, <2>2
<1>16. CASE AddRegUser(n) \/ LuaAddReg(n) \/ RegNewUser(n) \/ LuaAskReg(n)
  <2>1. (\E p : AddsNew(n, p)) \/ (\E name : Asks(n, name))
    BY <1>16 DEF AddRegUser, LuaAddReg, RegNewUser, LuaAskReg
  <2> QED BY <1>2, <1>3, <1>11, <1>12, <2>1
<1> QED BY <1>2, <1>3, <1>5, <1>6, <1>7, <1>8, <1>9, <1>10, <1>13, <1>14, <1>15, <1>16
        DEF DelRegUser, LuaDelReg

LEMMA ChangeFollows ==
    ASSUME RegistryTypeOK, NEW n \in Nicks, LuaChangeReg(n)
    PROVE  \A m \in Nicks : Follows(m)
<1>1. PICK u \in User : u = member[n]
  BY TypeParts
<1>2. CASE Dies
  BY <1>2, NobodyParts DEF Dies, store, people
<1>3. CASE ~Dies
  <2>1. PICK p \in Ids :
           /\ regs' = [regs EXCEPT ![n] = p]
           /\ IF n \in Online /\ member[n].profile # p
              THEN member' = [member EXCEPT ![n].profile = p, ![n].op = HasKey(p)]
              ELSE member' = member
    BY <1>3 DEF LuaChangeReg, ChangeReg, people
  <2>2. p # None /\ regs'[n] = p
    BY <2>1, IdsType, TypeParts DEF None, Numbers
  <2>3. (\E v : member' = [member EXCEPT ![n] = v]) \/ member' = member
    <3>1. CASE n \in Online /\ member[n].profile # p
      <4>1. member' = [member EXCEPT ![n] = [u EXCEPT !.profile = p, !.op = HasKey(p)]]
        BY <1>1, <2>1, <3>1, TypeParts
      <4> QED BY <4>1
    <3> QED BY <2>1, <3>1
  <2>4. Agrees(n) => member'[n].profile = p /\ member'[n].st = member[n].st
    <3>1. CASE n \in Online /\ member[n].profile # p
      <4>1. PICK v : v = [u EXCEPT !.profile = p, !.op = HasKey(p)]
        OBVIOUS
      <4>2. member'[n] = v
        BY <1>1, <2>1, <3>1, <4>1, TypeParts
      <4>3. v.profile = p /\ v.st = u.st
        BY <4>1 DEF User
      <4> QED BY <1>1, <4>2, <4>3
    <3>2. CASE ~(n \in Online /\ member[n].profile # p)
      <4>1. Agrees(n) => n \in Online
        BY DEF Agrees, Online
      <4> QED BY <2>1, <3>2, <4>1
    <3> QED BY <3>1, <3>2
  <2>5. Follows(n)
    BY <2>2, <2>4 DEF Follows, Agrees, Registered
  <2>6. \A m \in Nicks \ {n} : Follows(m)
    BY <2>1, <2>3, OthersFollow
  <2> QED BY <2>5, <2>6
<1> QED BY <1>2, <1>3

\* Profiles that move take the numbers of the members and of the
\* registrations with them.
LEMMA NumbersFollow ==
    ASSUME NEW n \in Nicks, member'[n].st = member[n].st,
           Agrees(n) => member'[n].profile = regs'[n] /\ regs'[n] # None
    PROVE  Follows(n)
BY DEF Follows, Agrees, Registered

LEMMA ProfileFollows ==
    ASSUME RegistryTypeOK,
           \/ LuaAddProfile \/ RemoveProfileByName \/ SetProfileName
           \/ SetProfilePermission \/ LuaSaveProfiles
           \/ \E p \in Ids : RemoveProfile(p) \/ MoveDown(p) \/ MoveUp(p)
    PROVE  \A m \in Nicks : Follows(m)
<1>1. CASE UNCHANGED <<regs, member>>
  BY <1>1, NobodyParts
<1>2. ASSUME NEW p \in Ids, RemoveProfile(p), NEW m \in Nicks PROVE Follows(m)
  <2>1. PICK u \in User : u = member[m]
    BY TypeParts
  <2>2. /\ member'[m] = [u EXCEPT !.profile = Below(p, @)]
        /\ regs'[m] = Below(p, regs[m])
    BY <1>2, <2>1, TypeParts DEF RemoveProfile
  <2>3. member'[m].profile = Below(p, u.profile) /\ member'[m].st = u.st
    BY <2>2 DEF User
  <2>4. Registered(m) => Below(p, regs[m]) # None
    <3>1. p \in Nat /\ regs[m] \in None .. MaxProfiles
      BY IdsType, TypeParts, BoundsAssumption DEF Numbers
    <3> QED BY <3>1 DEF Registered, Below, None
  <2> QED BY <2>1, <2>2, <2>3, <2>4, NumbersFollow DEF Agrees
<1>3. ASSUME NEW p \in Ids, NEW q \in Ids, Swap(p, q), NEW m \in Nicks PROVE Follows(m)
  <2>1. PICK u \in User : u = member[m]
    BY TypeParts
  <2>2. /\ member'[m] = [u EXCEPT !.profile = Trade(p, q, @)]
        /\ regs'[m] = Trade(p, q, regs[m])
    BY <1>3, <2>1, TypeParts DEF Swap
  <2>3. member'[m].profile = Trade(p, q, u.profile) /\ member'[m].st = u.st
    BY <2>2 DEF User
  <2>4. Registered(m) => Trade(p, q, regs[m]) # None
    <3>1. p # None /\ q # None
      BY IdsType DEF None
    <3> QED BY <3>1 DEF Registered, Trade
  <2> QED BY <2>1, <2>2, <2>3, <2>4, NumbersFollow DEF Agrees
<1>4. ASSUME NEW p \in Ids, MoveDown(p) \/ MoveUp(p)
      PROVE  \E q \in Ids : Swap(p, q)
  <2>1. Count \in Nat
    BY IdsType
  <2>2. MoveDown(p) => p + 1 \in Ids /\ Swap(p, p + 1)
    BY <2>1 DEF MoveDown, MoveProfileDown, Ids
  <2>3. MoveUp(p) => p - 1 \in Ids /\ Swap(p, p - 1)
    BY <2>1 DEF MoveUp, MoveProfileUp, Ids
  <2> QED BY <1>4, <2>2, <2>3
<1>5. \/ UNCHANGED <<regs, member>>
      \/ \E p \in Ids : RemoveProfile(p) \/ MoveDown(p) \/ MoveUp(p)
  BY ProfileFound DEF LuaAddProfile, AddProfile, Dies, CreateProfile, RemoveProfileByName,
     SetProfileName, SetProfilePermission, LuaSaveProfiles, SaveProfiles, DiesSaving,
     store, people
<1> QED BY <1>1, <1>2, <1>3, <1>4, <1>5

LEMMA ProcessFollows ==
    ASSUME RegistryTypeOK,
           LuaSaveRegs \/ SaveOnTime \/ FinalClose \/ Crash \/ Start \/ AddRegCmdLine
    PROVE  \A m \in Nicks : Follows(m)
<1>1. CASE UNCHANGED <<regs, member>>
  BY <1>1, NobodyParts
<1>2. CASE Nobody
  BY <1>2 DEF Nobody, Follows, Parts, Out
<1> QED BY <1>1, <1>2 DEF LuaSaveRegs, SaveOnTime, FinalClose, DiesSaving, Crash, Start,
           AddRegCmdLine, store, people

\* A member keeps the profile of its registration: both numbers change
\* together when profiles are moved and removed, and they part only by the
\* command op and by a password that comes too late.
THEOREM RegistrationsFollowed == RegistrySpec => MembersFollowRegistrations
<1>1. RegistryTypeOK /\ [RegistryNext]_registryVars =>
        [\A n \in Nicks : Agrees(n) /\ ~Agrees(n)' =>
           \/ member'[n].st = "out" \/ ~Registered(n)'
           \/ member'[n].temp /\ member'[n].op /\ ~member[n].op
           \/ member[n].waits # NotAsked /\ member'[n].waits = NotAsked]_registryVars
  <2> SUFFICES ASSUME RegistryTypeOK, RegistryNext PROVE \A n \in Nicks : Follows(n)
    BY DEF Follows, Parts
  <2> QED BY MemberFollows, ChangeFollows, ProfileFollows, ProcessFollows
          DEF RegistryNext, Running
<1> QED BY <1>1, RegistryTypeCorrect, PTL DEF RegistrySpec, MembersFollowRegistrations

================================================================================
