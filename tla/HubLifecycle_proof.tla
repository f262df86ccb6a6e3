------------------------- MODULE HubLifecycle_proof -------------------------
(***************************************************************************)
(* Proofs about HubLifecycle, for any scripts, any depth of calls and any  *)
(* events.  A hub that was told to shut down, and not to restart as well,  *)
(* comes to its final stop before it waits for anything.  In histories     *)
(* that are not unruly, no Lua state is closed while its code is on the    *)
(* stack, the list of the running scripts is exact whenever no code runs,  *)
(* and a walk over it loses no script.                                     *)
(* Each argument is about the stack: what ends the hub lies at its bottom, *)
(* whatever scripts do only grows and shrinks above it, and a script       *)
(* without its place in the list has a task there that explains it.        *)
(***************************************************************************)
EXTENDS HubLifecycle, FiniteSetTheorems, WellFoundedInduction, TLAPS

IsSeq(w) == \E S : w \in Seq(S)

\* Tasks that only lie at the bottom of the stack.
Bottoms == {"serve", "process", "final"}

Walk(t) ==
    /\ t.do \in {"begin", "round"} => t.kind # "main"
    /\ t.do = "round" => t = Round(t.kind, t.rest, t.due)

\* Top-level code lies above the end of its start, and a callback whose TRUE
\* ends a walk above that walk.
Follows(t, w, i) ==
    t.do = "call" =>
        /\ t.why = "main" => i < Len(w) /\ w[i + 1].do = "started"
        /\ t.why \in {"arrival", "connected"} =>
              i < Len(w) /\ w[i + 1].do = "round"

Ordered(w) ==
    \A i \in 1..Len(w) :
        /\ w[i].do \in Bottoms => i = Len(w)
        /\ Walk(w[i])
        /\ Follows(w[i], w, i)

Stack(w) == IsSeq(w) /\ Ordered(w)
Upper(w) == Stack(w) /\ \A i \in 1..Len(w) : w[i].do \notin Bottoms

Ends(w) == w # <<>> /\ w[Len(w)].do \in {"process", "final"}

Keeps(w, v) == Stack(v) /\ (Ends(w) => Ends(v))

EndInv ==
    /\ isRestart \in BOOLEAN /\ isClose \in BOOLEAN
    /\ terminated \in BOOLEAN /\ both \in BOOLEAN
    /\ Stack(work)
    /\ hub = "serving" /\ (isRestart \/ (isClose /\ ~both)) =>
           terminated /\ Ends(work)
    /\ isRestart /\ isClose => both
-----------------------------------------------------------------------------
\* Sequences of tasks.

LEMMA Concat ==
    ASSUME NEW u, NEW w, IsSeq(u), IsSeq(w)
    PROVE  /\ IsSeq(u \o w) /\ Len(u \o w) = Len(u) + Len(w)
           /\ Len(u) \in Nat /\ Len(w) \in Nat
           /\ \A i \in 1..Len(u) : (u \o w)[i] = u[i]
           /\ \A i \in 1..Len(w) : (u \o w)[Len(u) + i] = w[i]
<1>1. PICK S : u \in Seq(S)
  BY DEF IsSeq
<1>2. PICK T : w \in Seq(T)
  BY DEF IsSeq
<1>3. u \in Seq(S \cup T) /\ w \in Seq(S \cup T)
  BY <1>1, <1>2
<1>4. u \o w \in Seq(S \cup T)
  BY <1>3
<1> QED BY <1>3, <1>4 DEF IsSeq

LEMMA TailSeq ==
    ASSUME NEW w, IsSeq(w), w # <<>>
    PROVE  /\ IsSeq(Tail(w)) /\ Len(w) \in Nat /\ Len(w) > 0
           /\ Len(Tail(w)) = Len(w) - 1
           /\ Head(w) = w[1]
           /\ \A i \in 1..(Len(w) - 1) : Tail(w)[i] = w[i + 1]
           /\ Len(w) # 1 => Tail(w) # <<>>
<1>1. PICK S : w \in Seq(S)
  BY DEF IsSeq
<1>2. Len(w) \in Nat /\ Len(w) > 0
  BY <1>1
<1>3. Tail(w) \in Seq(S) /\ Len(Tail(w)) = Len(w) - 1
  BY <1>1
<1>4. Len(w) # 1 => Tail(w) # <<>>
  <2>1. Tail(w) = <<>> => Len(Tail(w)) = Len(<<>>)
    BY Zenon
  <2> QED BY <1>2, <1>3, <2>1
<1>5. Head(w) = w[1]
  BY <1>1
<1>6. \A i \in 1..(Len(w) - 1) : Tail(w)[i] = w[i + 1]
  BY <1>1, <1>2
<1> QED BY <1>2, <1>3, <1>4, <1>5, <1>6 DEF IsSeq

LEMMA Short ==
    ASSUME NEW a, NEW b, NEW c, NEW d
    PROVE  IsSeq(<<>>) /\ IsSeq(<<a>>) /\ IsSeq(<<a, b>>) /\ IsSeq(<<a, b, c, d>>)
<1>1. <<>> \in Seq({a}) /\ <<a>> \in Seq({a}) /\ <<a, b>> \in Seq({a, b})
  OBVIOUS
<1>2. <<a, b, c, d>> \in Seq({a, b, c, d})
  OBVIOUS
<1> QED BY <1>1, <1>2 DEF IsSeq
-----------------------------------------------------------------------------
\* What is put on top of a stack, and what is taken off.

LEMMA UpperOnTop ==
    ASSUME NEW u, NEW w, Upper(u), Stack(w)
    PROVE  /\ Keeps(w, u \o w)
           /\ Upper(w) => Upper(u \o w)
<1> DEFINE v == u \o w
<1>1. /\ IsSeq(v) /\ Len(v) = Len(u) + Len(w) /\ Len(u) \in Nat /\ Len(w) \in Nat
      /\ \A i \in 1..Len(u) : v[i] = u[i]
      /\ \A i \in 1..Len(w) : v[Len(u) + i] = w[i]
  BY Concat DEF Upper, Stack
<1> HIDE DEF v
<1>2. ASSUME NEW i \in 1..Len(v), i <= Len(u)
      PROVE  v[i].do \notin Bottoms /\ Walk(v[i]) /\ Follows(v[i], v, i)
  <2>1. i \in 1..Len(u) /\ v[i] = u[i]
    BY <1>1, <1>2
  <2>2. i < Len(u) => v[i + 1] = u[i + 1] /\ i < Len(v)
    BY <1>1, <2>1
  <2> QED BY <2>1, <2>2 DEF Upper, Stack, Ordered, Follows
<1>3. ASSUME NEW j \in 1..Len(w)
      PROVE  /\ v[Len(u) + j] = w[j]
             /\ v[Len(u) + j].do \in Bottoms => Len(u) + j = Len(v)
             /\ Walk(v[Len(u) + j]) /\ Follows(v[Len(u) + j], v, Len(u) + j)
  <2>1. v[Len(u) + j] = w[j]
    BY <1>1
  <2>2. j < Len(w) => v[(Len(u) + j) + 1] = w[j + 1] /\ Len(u) + j < Len(v)
    <3> SUFFICES ASSUME j < Len(w)
                 PROVE  v[(Len(u) + j) + 1] = w[j + 1] /\ Len(u) + j < Len(v)
      OBVIOUS
    <3>1. j + 1 \in 1..Len(w) /\ (Len(u) + j) + 1 = Len(u) + (j + 1)
      BY <1>1
    <3> QED BY <1>1, <3>1
  <2>3. Walk(w[j]) /\ Follows(w[j], w, j) /\ (w[j].do \in Bottoms => j = Len(w))
    BY DEF Stack, Ordered
  <2> QED BY <1>1, <2>1, <2>2, <2>3 DEF Follows
<1>4. \A i \in 1..Len(v) : i > Len(u) =>
         \E j \in 1..Len(w) : i = Len(u) + j
  <2> SUFFICES ASSUME NEW i \in 1..Len(v), i > Len(u)
               PROVE  \E j \in 1..Len(w) : i = Len(u) + j
    OBVIOUS
  <2>1. i - Len(u) \in 1..Len(w) /\ i = Len(u) + (i - Len(u))
    BY <1>1
  <2> QED BY <2>1
<1>5. Stack(v)
  <2> SUFFICES ASSUME NEW i \in 1..Len(v)
               PROVE  /\ v[i].do \in Bottoms => i = Len(v)
                      /\ Walk(v[i]) /\ Follows(v[i], v, i)
    BY <1>1 DEF Stack, Ordered
  <2>1. CASE i <= Len(u)
    BY <1>2, <2>1
  <2>2. CASE i > Len(u)
    <3>1. PICK j \in 1..Len(w) : i = Len(u) + j
      BY <1>4, <2>2
    <3> QED BY <1>3, <3>1
  <2> QED BY <1>1, <2>1, <2>2
<1>6. Ends(w) => Ends(v)
  <2> SUFFICES ASSUME Ends(w) PROVE Ends(v)
    OBVIOUS
  <2>1. Len(w) \in 1..Len(w)
    BY <1>1 DEF Ends, Stack, IsSeq
  <2>2. v[Len(v)] = w[Len(w)] /\ v # <<>>
    BY <1>1, <2>1
  <2> QED BY <2>2 DEF Ends
<1>7. Upper(w) => Upper(v)
  <2> SUFFICES ASSUME Upper(w), NEW i \in 1..Len(v)
               PROVE  v[i].do \notin Bottoms
    BY <1>5 DEF Upper
  <2>1. CASE i <= Len(u)
    BY <1>2, <2>1
  <2>2. CASE i > Len(u)
    <3>1. PICK j \in 1..Len(w) : i = Len(u) + j
      BY <1>4, <2>2
    <3> QED BY <1>3, <3>1 DEF Upper
  <2> QED BY <1>1, <2>1, <2>2
<1> QED BY <1>5, <1>6, <1>7 DEF Keeps, v

LEMMA Popped ==
    ASSUME NEW w, Stack(w), w # <<>>
    PROVE  /\ Stack(Tail(w))
           /\ Head(w).do \notin Bottoms => Keeps(w, Tail(w))
<1> DEFINE v == Tail(w)
<1>1. /\ IsSeq(v) /\ Len(w) \in Nat /\ Len(w) > 0 /\ Len(v) = Len(w) - 1
      /\ Head(w) = w[1]
      /\ \A i \in 1..(Len(w) - 1) : v[i] = w[i + 1]
      /\ Len(w) # 1 => v # <<>>
  BY TailSeq DEF Stack
<1> HIDE DEF v
<1>2. ASSUME NEW i \in 1..Len(v)
      PROVE  /\ v[i].do \in Bottoms => i = Len(v)
             /\ Walk(v[i]) /\ Follows(v[i], v, i)
  <2>1. v[i] = w[i + 1] /\ i + 1 \in 1..Len(w)
    BY <1>1
  <2>2. i < Len(v) => v[i + 1] = w[(i + 1) + 1] /\ i + 1 < Len(w)
    BY <1>1
  <2>3. i + 1 < Len(w) => i < Len(v)
    BY <1>1
  <2>4. Walk(w[i + 1]) /\ Follows(w[i + 1], w, i + 1)
        /\ (w[i + 1].do \in Bottoms => i + 1 = Len(w))
    BY <2>1 DEF Stack, Ordered
  <2> QED BY <1>1, <2>1, <2>2, <2>3, <2>4 DEF Follows
<1>3. Stack(v)
  BY <1>1, <1>2 DEF Stack, Ordered
<1>4. Head(w).do \notin Bottoms /\ Ends(w) => Ends(v)
  <2> SUFFICES ASSUME Head(w).do \notin Bottoms, Ends(w) PROVE Ends(v)
    OBVIOUS
  <2>1. Len(w) # 1
    BY <1>1 DEF Ends, Bottoms
  <2>2. v # <<>> /\ v[Len(v)] = w[Len(w)]
    BY <1>1, <2>1
  <2> QED BY <2>2 DEF Ends
<1> QED BY <1>3, <1>4 DEF Keeps, v
-----------------------------------------------------------------------------
\* The tasks of the specification.

\* Needs nothing below it.
Free(t) ==
    /\ t.do \notin Bottoms /\ Walk(t)
    /\ t.do = "call" => t.why \notin {"main", "arrival", "connected"}

LEMMA FreeTasks ==
    ASSUME NEW a, NEW b, NEW c, NEW d, Free(a), Free(b), Free(c), Free(d)
    PROVE  Upper(<<>>) /\ Upper(<<a>>) /\ Upper(<<a, b>>) /\ Upper(<<a, b, c, d>>)
<1>1. ASSUME NEW w, IsSeq(w), \A i \in 1..Len(w) : Free(w[i])
      PROVE  Upper(w)
  BY <1>1 DEF Upper, Stack, Ordered, Free, Follows
<1>2. Len(<<>>) = 0 /\ Len(<<a>>) = 1 /\ Len(<<a, b>>) = 2 /\ Len(<<a, b, c, d>>) = 4
  OBVIOUS
<1>3. \A i \in 1..Len(<<>>) : Free((<<>>)[i])
  BY <1>2
<1>4. \A i \in 1..Len(<<a>>) : Free((<<a>>)[i])
  BY <1>2
<1>5. \A i \in 1..Len(<<a, b>>) : Free((<<a, b>>)[i])
  BY <1>2
<1>6. \A i \in 1..Len(<<a, b, c, d>>) : Free((<<a, b, c, d>>)[i])
  BY <1>2
<1>7. IsSeq(<<>>) /\ IsSeq(<<a>>) /\ IsSeq(<<a, b>>) /\ IsSeq(<<a, b, c, d>>)
  BY Short
<1> HIDE DEF Free, Upper
<1> QED BY <1>1, <1>3, <1>4, <1>5, <1>6, <1>7, Zenon

LEMMA TasksAreFree ==
    /\ \A x, alone : Free(StartOf(x, alone))
    /\ \A x : Free(StopOf(x))
    /\ \A i : Free(StartFrom(i))
    /\ Free(StopAll)
    /\ \A kind, forced : kind # "main" => Free(Begin(kind, forced))
    /\ \A kind, rest, due : kind # "main" => Free(Round(kind, rest, due))
    /\ \A x, why : why \notin {"main", "arrival", "connected"} => Free(Call(x, why))
BY DEF Free, Bottoms, Walk, StartOf, StopOf, StartFrom, StopAll, Begin, Round, Call

\* Those that need what they are pushed with.
LEMMA StartIsUpper ==
    ASSUME NEW x, NEW alone
    PROVE  Upper(<<Call(x, "main"), Started(x, alone)>>)
<1> DEFINE w == <<Call(x, "main"), Started(x, alone)>>
<1>1. IsSeq(w) /\ Len(w) = 2 /\ w[1] = Call(x, "main") /\ w[2] = Started(x, alone)
  BY Short
<1> HIDE DEF w
<1>2. \A i \in 1..2 : w[i].do \notin Bottoms /\ Walk(w[i]) /\ Follows(w[i], w, i)
  BY <1>1 DEF Bottoms, Walk, Follows, Call, Started
<1>3. Upper(w)
  BY <1>1, <1>2 DEF Upper, Stack, Ordered
<1> QED BY <1>3 DEF w

LEMMA WalkIsUpper ==
    ASSUME NEW x, NEW kind, NEW rest, NEW due, kind # "main"
    PROVE  Upper(<<Call(x, kind), Round(kind, rest, due)>>)
<1> DEFINE w == <<Call(x, kind), Round(kind, rest, due)>>
<1>1. /\ IsSeq(w) /\ Len(w) = 2
      /\ w[1] = Call(x, kind) /\ w[2] = Round(kind, rest, due)
  BY Short
<1> HIDE DEF w
<1>2. \A i \in 1..2 : w[i].do \notin Bottoms /\ Walk(w[i]) /\ Follows(w[i], w, i)
  BY <1>1 DEF Bottoms, Walk, Follows, Call, Round
<1>3. Upper(w)
  BY <1>1, <1>2 DEF Upper, Stack, Ordered
<1> QED BY <1>3 DEF w

LEMMA StillWalk ==
    ASSUME NEW t, Walk(t), t.do = "round", NEW z, NEW u, u = [t EXCEPT !.due = z]
    PROVE  u.do = "round" /\ Walk(u)
<1>1. PICK kind, rest, due : t = Round(kind, rest, due) /\ kind # "main"
  BY DEF Walk, Round
<1>2. u = Round(kind, rest, z)
  BY <1>1 DEF Round
<1> QED BY <1>1, <1>2 DEF Walk, Round

\* Closing a state changes what walks owe, and nothing else.
LEMMA ForgetsKeeps ==
    ASSUME NEW w, NEW xs, Stack(w)
    PROVE  Keeps(w, Forgets(w, xs))
<1> DEFINE v == Forgets(w, xs)
<1>1. PICK S : w \in Seq(S)
  BY DEF Stack, IsSeq
<1>2. Len(w) \in Nat /\ DOMAIN w = 1..Len(w)
  BY <1>1
<1>3. v = [i \in 1..Len(w) |-> v[i]]
  BY <1>2 DEF Forgets
<1>4. v \in Seq({v[i] : i \in 1..Len(w)}) /\ Len(v) = Len(w)
  BY <1>2, <1>3
<1>5. ASSUME NEW i \in 1..Len(w)
      PROVE  /\ v[i].do = w[i].do /\ Walk(v[i])
             /\ v[i].do = "call" => v[i].why = w[i].why
  <2>1. Walk(w[i])
    BY DEF Stack, Ordered
  <2>2. CASE w[i].do = "round"
    <3>1. v[i] = [w[i] EXCEPT !.due = @ \ xs]
      BY <1>2, <2>2 DEF Forgets
    <3>2. PICK z : v[i] = [w[i] EXCEPT !.due = z]
      BY <3>1
    <3> HIDE DEF v
    <3> QED BY <2>1, <2>2, <3>2, StillWalk
  <2>3. CASE w[i].do # "round"
    <3>1. v[i] = w[i]
      BY <1>2, <2>3 DEF Forgets
    <3> QED BY <2>1, <3>1
  <2> QED BY <2>2, <2>3
<1> HIDE DEF v
<1>6. Stack(v)
  <2>1. IsSeq(v)
    BY <1>4 DEF IsSeq
  <2>2. ASSUME NEW i \in 1..Len(w)
        PROVE  /\ v[i].do \in Bottoms => i = Len(v)
               /\ Walk(v[i]) /\ Follows(v[i], v, i)
    <3>1. /\ w[i].do \in Bottoms => i = Len(w)
          /\ Follows(w[i], w, i)
      BY DEF Stack, Ordered
    <3>2. i < Len(w) => i + 1 \in 1..Len(w)
      BY <1>2
    <3> QED BY <1>4, <1>5, <3>1, <3>2 DEF Follows
  <2> QED BY <1>4, <2>1, <2>2 DEF Stack, Ordered
<1>7. Ends(w) => Ends(v)
  <2> SUFFICES ASSUME Ends(w) PROVE Ends(v)
    OBVIOUS
  <2>1. Len(w) \in 1..Len(w)
    BY <1>1 DEF Ends
  <2> QED BY <1>4, <1>5, <2>1 DEF Ends
<1> QED BY <1>6, <1>7 DEF Keeps, v
-----------------------------------------------------------------------------
\* Scripts, and the manager that serves them, leave the bottom as it is.

LEMMA Replaces ==
    ASSUME NEW w, Stack(w), w # <<>>, Head(w).do \notin Bottoms,
           NEW ts, Upper(ts)
    PROVE  Keeps(w, ts \o Tail(w))
<1>1. Stack(Tail(w)) /\ Keeps(w, Tail(w))
  BY Popped
<1>2. Keeps(Tail(w), ts \o Tail(w))
  BY <1>1, UpperOnTop
<1> QED BY <1>1, <1>2 DEF Keeps

LEMMA ReplacesTwo ==
    ASSUME NEW w, Stack(w), w # <<>>, NEW do, do \notin Bottoms,
           Head(w).do = "call", 1 < Len(w), w[2].do = do, NEW ts, Upper(ts)
    PROVE  Keeps(w, ts \o Tail(Tail(w)))
<1>1. Stack(Tail(w)) /\ Keeps(w, Tail(w))
  BY Popped DEF Bottoms
<1>2. Tail(w) # <<>> /\ Head(Tail(w)).do = do
  <2>1. /\ Len(w) \in Nat /\ Len(Tail(w)) = Len(w) - 1
        /\ \A i \in 1..(Len(w) - 1) : Tail(w)[i] = w[i + 1]
        /\ Len(w) # 1 => Tail(w) # <<>>
    BY TailSeq DEF Stack
  <2>2. Tail(w) # <<>>
    BY <2>1
  <2>3. Head(Tail(w)) = Tail(w)[1]
    BY <1>1, <2>2, TailSeq DEF Stack
  <2>4. Tail(w)[1] = w[2]
    BY <2>1
  <2> QED BY <2>2, <2>3, <2>4
<1>3. Keeps(Tail(w), ts \o Tail(Tail(w)))
  BY <1>1, <1>2, Replaces
<1> QED BY <1>1, <1>3 DEF Keeps

LEMMA HeadCall ==
    ASSUME Stack(work), At("call")
    PROVE  Follows(Head(work), work, 1)
<1>1. work # <<>>
  BY DEF At
<1>2. Head(work) = work[1] /\ Len(work) \in Nat /\ Len(work) > 0
  BY <1>1, TailSeq DEF Stack
<1> QED BY <1>2 DEF Stack, Ordered

LEMMA StopTasksUpper ==
    ASSUME NEW x, NEW ts, Upper(ts)
    PROVE  Upper(StopTasks(x) \o ts)
<1>1. Free(Call(x, "last")) /\ Free(StopOf(x))
  BY TasksAreFree
<1>2. Upper(StopTasks(x))
  BY <1>1, FreeTasks DEF StopTasks
<1> QED BY <1>2, UpperOnTop DEF Upper

LEMMA ScriptStepKeeps ==
    ASSUME Stack(work), ScriptStep
    PROVE  Keeps(work, work')
<1> DEFINE plain == work # <<>> /\ Head(work).do \notin Bottoms
<1>1. CASE ScriptStart
  <2>1. plain /\ work' = <<Call(Caller, "main"), Started(Caller, Head(work).alone)>>
                              \o Tail(work)
    BY <1>1 DEF ScriptStart, At, Replace, Bottoms
  <2>2. Upper(<<Call(Caller, "main"), Started(Caller, Head(work).alone)>>)
    BY StartIsUpper
  <2> QED BY <2>1, <2>2, Replaces
<1>2. CASE ScriptStarted
  <2>1. PICK ts \in {<<Call(Caller, "startup")>>, <<>>} :
            plain /\ work' = ts \o Tail(work)
    BY <1>2 DEF ScriptStarted, At, Replace, Bottoms
  <2>2. Upper(ts)
    BY FreeTasks, TasksAreFree
  <2> QED BY <2>1, <2>2, Replaces
<1>3. CASE MainFails
  <2>1. plain /\ Head(work).do = "call" /\ work' = Tail(Tail(work))
    BY <1>3 DEF MainFails, At, Bottoms
  <2>2. 1 < Len(work) /\ work[2].do = "started"
    BY <1>3, HeadCall DEF MainFails, At, Follows
  <2>3. Keeps(work, (<<>>) \o Tail(Tail(work)))
    BY <2>1, <2>2, FreeTasks, TasksAreFree, ReplacesTwo DEF Bottoms
  <2> QED BY <2>1, <2>3
<1>4. CASE ScriptStop
  <2>1. plain /\ work' = Forgets(Tail(work), {Caller})
    BY <1>4 DEF ScriptStop, At, Bottoms
  <2>2. Keeps(work, Tail(work))
    BY <2>1, Popped
  <2> QED BY <2>1, <2>2, ForgetsKeeps DEF Keeps
<1>5. CASE StartNext
  <2>1. PICK x, i : plain /\ \E ts \in {<<>>, <<StartOf(x, FALSE), StartFrom(i)>>,
                                         <<StartFrom(i)>>} :
                               work' = ts \o Tail(work)
    BY <1>5 DEF StartNext, At, Replace, Bottoms
  <2>2. PICK ts \in {<<>>, <<StartOf(x, FALSE), StartFrom(i)>>, <<StartFrom(i)>>} :
            work' = ts \o Tail(work)
    BY <2>1
  <2>3. Upper(ts)
    BY FreeTasks, TasksAreFree
  <2> QED BY <2>1, <2>2, <2>3, Replaces
<1>6. CASE StopRunning
  <2>1. plain /\ work' = Forgets(Tail(work), ToSet(running))
    BY <1>6 DEF StopRunning, At, Bottoms
  <2>2. Keeps(work, Tail(work))
    BY <2>1, Popped
  <2> QED BY <2>1, <2>2, ForgetsKeeps DEF Keeps
<1>7. CASE BeginRound
  <2>1. PICK rest, due : plain /\ \E ts \in {<<>>, <<Round(Head(work).kind, rest, due)>>} :
                                    work' = ts \o Tail(work)
    BY <1>7 DEF BeginRound, At, Replace, Bottoms
  <2>2. PICK ts \in {<<>>, <<Round(Head(work).kind, rest, due)>>} :
            work' = ts \o Tail(work)
    BY <2>1
  <2>3. Head(work).kind # "main"
    <3>1. Head(work) = work[1] /\ Len(work) \in Nat /\ Len(work) > 0
      BY <2>1, TailSeq DEF Stack
    <3> QED BY <1>7, <3>1 DEF BeginRound, At, Stack, Ordered, Walk
  <2>4. Upper(ts)
    BY <2>3, FreeTasks, TasksAreFree
  <2> QED BY <2>1, <2>2, <2>4, Replaces
<1>8. CASE NextScript
  <2>1. plain /\ Head(work).kind # "main"
    <3>1. plain
      BY <1>8 DEF NextScript, At, Bottoms
    <3>2. Head(work) = work[1] /\ Len(work) \in Nat /\ Len(work) > 0
      BY <3>1, TailSeq DEF Stack
    <3> QED BY <1>8, <3>1, <3>2 DEF NextScript, At, Stack, Ordered, Walk
  <2>2. PICK x, rest, due :
            \E ts \in {<<>>, <<Call(x, Head(work).kind), Round(Head(work).kind, rest, due)>>,
                       <<Round(Head(work).kind, rest, due)>>} :
                work' = ts \o Tail(work)
    BY <1>8 DEF NextScript, Replace
  <2>3. PICK ts \in {<<>>, <<Call(x, Head(work).kind), Round(Head(work).kind, rest, due)>>,
                     <<Round(Head(work).kind, rest, due)>>} :
            work' = ts \o Tail(work)
    BY <2>2
  <2>4. Upper(ts)
    BY <2>1, FreeTasks, TasksAreFree, WalkIsUpper
  <2> QED BY <2>1, <2>3, <2>4, Replaces
<1>9. CASE Returns
  <2>1. plain /\ work' = Tail(work)
    BY <1>9 DEF Returns, At, Bottoms
  <2> QED BY <2>1, Popped
<1>10. CASE ReturnsTrue
  <2>1. PICK ts \in {<<Begin("disconnected", FALSE)>>, <<>>} :
            /\ plain /\ Head(work).do = "call"
            /\ work' = ts \o Tail(Tail(work))
    BY <1>10 DEF ReturnsTrue, At, Bottoms
  <2>2. 1 < Len(work) /\ work[2].do = "round"
    BY <1>10, HeadCall DEF ReturnsTrue, At, Follows
  <2>3. Upper(ts)
    BY FreeTasks, TasksAreFree
  <2> QED BY <2>1, <2>2, <2>3, ReplacesTwo DEF Bottoms
<1>11. CASE CallbackFails
  <2>1. plain /\ work' = Tail(work)
    BY <1>11 DEF CallbackFails, At, Bottoms
  <2> QED BY <2>1, Popped
<1>12. CASE AsksHub \/ LuaMove
  BY <1>12 DEF AsksHub, LuaMove, Keeps
<1>13. CASE DisconnectsUser
  <2>1. work' = <<Begin("disconnected", FALSE)>> \o work
    BY <1>13 DEF DisconnectsUser, Push
  <2>2. Upper(<<Begin("disconnected", FALSE)>>)
    BY FreeTasks, TasksAreFree
  <2> QED BY <2>1, <2>2, UpperOnTop
<1>14. CASE LuaStartScript
  <2>1. PICK x : work' = <<StartOf(x, TRUE)>> \o work
    BY <1>14 DEF LuaStartScript, StartScript, Push
  <2>2. Upper(<<StartOf(x, TRUE)>>)
    BY FreeTasks, TasksAreFree
  <2> QED BY <2>1, <2>2, UpperOnTop
<1>15. CASE LuaStopScript
  <2>1. PICK x : \/ work' = work
                 \/ \E ts \in {<<>>, <<StartOf(x, TRUE)>>} :
                        work' = (StopTasks(x) \o ts) \o work
    BY <1>15 DEF LuaStopScript, StopScript, Push
  <2>2. CASE work' = work
    BY <2>2 DEF Keeps
  <2>3. ASSUME NEW ts \in {<<>>, <<StartOf(x, TRUE)>>},
               work' = (StopTasks(x) \o ts) \o work
        PROVE  Keeps(work, work')
    <3>1. Upper(ts)
      BY FreeTasks, TasksAreFree
    <3> QED BY <2>3, <3>1, StopTasksUpper, UpperOnTop
  <2> QED BY <2>1, <2>2, <2>3
<1> QED
  BY <1>1, <1>2, <1>3, <1>4, <1>5, <1>6, <1>7, <1>8, <1>9, <1>10, <1>11,
     <1>12, <1>13, <1>14, <1>15 DEF ScriptStep
-----------------------------------------------------------------------------
\* The hub.

LEMMA BottomStacks ==
    /\ Stack(StartTasks)
    /\ Stack(EndTasks) /\ Ends(EndTasks)
    /\ \A batch : Stack(<<Process(batch)>>)
<1>1. ASSUME NEW t, t.do \in Bottoms, Walk(t), t.do # "call"
      PROVE  Stack(<<t>>)
  <2> DEFINE w == <<t>>
  <2>1. IsSeq(w) /\ Len(w) = 1 /\ w[1] = t
    BY Short
  <2> HIDE DEF w
  <2>2. Stack(w)
    BY <1>1, <2>1 DEF Stack, Ordered, Follows
  <2> QED BY <2>2 DEF w
<1>2. ASSUME NEW a, NEW t, Free(a), t.do \in Bottoms, Walk(t), t.do # "call"
      PROVE  Stack(<<a, t>>)
  <2> DEFINE w == <<a, t>>
  <2>1. IsSeq(w) /\ Len(w) = 2 /\ w[1] = a /\ w[2] = t
    BY Short
  <2> HIDE DEF w
  <2>2. Stack(w)
    BY <1>2, <2>1 DEF Stack, Ordered, Follows, Free
  <2> QED BY <2>2 DEF w
<1>3. /\ Serve.do \in Bottoms /\ Walk(Serve) /\ Serve.do # "call"
      /\ Final.do \in Bottoms /\ Walk(Final) /\ Final.do # "call"
  BY DEF Serve, Final, Bottoms, Walk
<1>4. ASSUME NEW batch
      PROVE  /\ Process(batch).do \in Bottoms /\ Walk(Process(batch))
             /\ Process(batch).do # "call"
  BY DEF Process, Bottoms, Walk
<1>5. Stack(StartTasks)
  BY <1>1, <1>2, <1>3, TasksAreFree DEF StartTasks
<1>6. Stack(EndTasks)
  BY <1>2, <1>3, TasksAreFree DEF EndTasks
<1>7. Ends(EndTasks)
  BY DEF Ends, EndTasks, Final
<1> QED BY <1>1, <1>4, <1>5, <1>6, <1>7

\* An event lies at the bottom, and so does the rest of its batch.
LEMMA AtBottom ==
    ASSUME Stack(work), work # <<>>, Head(work).do \in Bottoms
    PROVE  Len(work) = 1 /\ IsSeq(Tail(work)) /\ Len(Tail(work)) = 0
           /\ Head(work) = work[1]
<1>1. /\ Len(work) \in Nat /\ Len(work) > 0 /\ Head(work) = work[1]
      /\ IsSeq(Tail(work)) /\ Len(Tail(work)) = Len(work) - 1
  BY TailSeq DEF Stack
<1>2. 1 \in 1..Len(work)
  BY <1>1
<1>3. work[1].do \in Bottoms => 1 = Len(work)
  BY <1>2 DEF Stack, Ordered
<1> QED BY <1>1, <1>3

LEMMA NoTail ==
    ASSUME NEW ts, IsSeq(ts), NEW w, IsSeq(w), Len(w) = 0
    PROVE  ts \o w = ts
BY DEF IsSeq

LEMMA EventKeeps ==
    ASSUME Stack(work), At("process"), NEW ts, Upper(ts), NEW batch,
           work' = (ts \o <<Process(batch)>>) \o Tail(work)
    PROVE  Stack(work') /\ Ends(work')
<1>1. work # <<>> /\ Head(work).do \in Bottoms
  BY DEF At, Bottoms
<1>2. Stack(<<Process(batch)>>) /\ Ends(<<Process(batch)>>)
  BY BottomStacks DEF Ends, Process
<1>3. Stack(ts \o <<Process(batch)>>) /\ Ends(ts \o <<Process(batch)>>)
  BY <1>2, UpperOnTop DEF Keeps
<1>4. work' = ts \o <<Process(batch)>>
  BY <1>1, <1>3, AtBottom, NoTail DEF Stack
<1> QED BY <1>3, <1>4

LEMMA ThenKeeps ==
    ASSUME Stack(work), At("process"), work' = <<Then>> \o Tail(work)
    PROVE  Stack(work') /\ Ends(work')
<1>1. work # <<>> /\ Head(work).do \in Bottoms
  BY DEF At, Bottoms
<1>2. Stack(<<Then>>) /\ Ends(<<Then>>)
  BY BottomStacks DEF Ends, Then, Process
<1>3. work' = <<Then>>
  BY <1>1, <1>2, AtBottom, NoTail DEF Stack
<1> QED BY <1>2, <1>3

LEMMA EndInit == HubInit => EndInv
BY BottomStacks DEF HubInit, EndInv

\* While the hub waits nothing has been asked of it, unless both have.
LEMMA IdleClosing ==
    ASSUME EndInv, Idle
    PROVE  ~isRestart /\ (isClose => both)
BY DEF EndInv, Idle, Ends

LEMMA OutsideKeeps ==
    ASSUME EndInv, Idle, Stack(work'), UNCHANGED hubVars
    PROVE  EndInv'
BY IdleClosing DEF EndInv, hubVars

LEMMA EventStep ==
    ASSUME EndInv, At("process"), NEW ts, Upper(ts), NEW batch,
           work' = (ts \o <<Process(batch)>>) \o Tail(work),
           UNCHANGED <<hub, isRestart, isClose, terminated, both>>
    PROVE  EndInv'
BY EventKeeps DEF EndInv

\* The history variables of the lists are no part of the argument.
LEMMA EndStep == EndInv /\ [Next]_vars => EndInv'
<1> SUFFICES ASSUME EndInv, [Next]_vars PROVE EndInv'
    OBVIOUS
<1> USE DEF hubVars
<1>1. CASE UNCHANGED vars
  BY <1>1 DEF vars, scriptVars, EndInv
<1>2. CASE ScriptStep /\ UNCHANGED hubVars
  <2>1. Keeps(work, work')
    BY <1>2, ScriptStepKeeps DEF EndInv
  <2> QED BY <1>2, <2>1 DEF EndInv, Keeps
<1>3. CASE UserActs \/ TimerFires \/ OperatorRestarts
  <2>1. Idle /\ UNCHANGED hubVars
    BY <1>3 DEF UserActs, TimerFires, OperatorRestarts, Outside
  <2>2. Stack(work')
    <3>1. CASE UserActs
      <4>1. PICK kind \in {"arrival", "connected", "disconnected"} :
                work' = <<Begin(kind, FALSE)>>
        BY <3>1 DEF UserActs, Outside
      <4> QED BY <4>1, FreeTasks, TasksAreFree DEF Upper
    <3>2. CASE TimerFires
      <4>1. PICK x : work' = <<Call(x, "timer")>>
        BY <3>2 DEF TimerFires, Outside
      <4> QED BY <4>1, FreeTasks, TasksAreFree DEF Upper
    <3>3. CASE OperatorRestarts
      <4>1. work' = RestartTasks
        BY <3>3 DEF OperatorRestarts, Outside
      <4> QED BY <4>1, FreeTasks, TasksAreFree DEF Upper, RestartTasks
    <3> QED BY <1>3, <3>1, <3>2, <3>3
  <2> QED BY <2>1, <2>2, OutsideKeeps
<1>4. CASE OperatorStops
  <2>1. Idle /\ UNCHANGED hubVars
    BY <1>4 DEF OperatorStops, MayManage
  <2>2. PICK x : \E ts \in {<<>>, <<StartOf(x, TRUE)>>} :
                    work' = (StopTasks(x) \o ts) \o work
    BY <1>4 DEF OperatorStops, StopScript, Push
  <2>3. PICK ts \in {<<>>, <<StartOf(x, TRUE)>>} :
            work' = (StopTasks(x) \o ts) \o work
    BY <2>2
  <2>4. Upper(ts)
    BY FreeTasks, TasksAreFree
  <2>5. Stack(work')
    BY <2>3, <2>4, StopTasksUpper, UpperOnTop DEF Keeps, EndInv
  <2> QED BY <2>1, <2>5, OutsideKeeps
<1>5. CASE OperatorStarts
  <2>1. Idle /\ UNCHANGED hubVars
    BY <1>5 DEF OperatorStarts, MayManage
  <2>2. PICK x : work' = <<StartOf(x, TRUE)>> \o work
    BY <1>5 DEF OperatorStarts, StartScript, Push
  <2>3. Upper(<<StartOf(x, TRUE)>>)
    BY FreeTasks, TasksAreFree
  <2>4. Stack(work')
    BY <2>2, <2>3, UpperOnTop DEF Keeps, EndInv
  <2> QED BY <2>1, <2>4, OutsideKeeps
<1>6. CASE OperatorRestartsHub
  BY <1>6 DEF OperatorRestartsHub, EndInv
<1>7. CASE ProcessEvents
  <2>1. Idle /\ UNCHANGED hubVars /\ work' = <<Process(events)>>
    BY <1>7 DEF ProcessEvents
  <2> QED BY <2>1, BottomStacks, OutsideKeeps
<1>8. CASE Restart
  <2>1. /\ At("process") /\ work' = <<Then>> \o Tail(work)
        /\ isRestart' = TRUE /\ terminated' = TRUE /\ both' = (both \/ isClose)
        /\ isClose' = isClose
    BY <1>8 DEF Restart, AtEvent, Replace
  <2>2. Stack(work') /\ Ends(work')
    BY <2>1, ThenKeeps DEF EndInv
  <2> QED BY <2>1, <2>2 DEF EndInv
<1>9. CASE Shutdown
  <2>1. /\ At("process") /\ work' = <<Then>> \o Tail(work)
        /\ isRestart' = isRestart /\ hub' = hub
        /\ \/ isClose /\ isClose' = isClose /\ terminated' = terminated /\ both' = both
           \/ ~isClose /\ isClose' /\ terminated' /\ both' = (both \/ isRestart)
        /\ isClose' \in BOOLEAN /\ terminated' \in BOOLEAN
    BY <1>9 DEF Shutdown, AtEvent, Replace, EndInv
  <2>2. Stack(work') /\ Ends(work')
    BY <2>1, ThenKeeps DEF EndInv
  <2> QED BY <2>1, <2>2 DEF EndInv
<1>10. CASE StopScripting
  <2>1. PICK ts \in {<<Begin("exit", TRUE), StopAll>>, <<>>} :
            /\ At("process") /\ UNCHANGED hubVars
            /\ work' = (ts \o <<Then>>) \o Tail(work)
    BY <1>10 DEF StopScripting, AtEvent, Replace
  <2>2. Upper(ts)
    BY FreeTasks, TasksAreFree
  <2> QED BY <2>1, <2>2, EventStep DEF Then
<1>11. CASE RestartScripts
  <2>1. /\ At("process") /\ UNCHANGED <<hub, isRestart, isClose, terminated, both>>
        /\ work' = (RestartTasks \o <<Then>>) \o Tail(work)
    BY <1>11 DEF RestartScripts, AtEvent, Replace
  <2>2. Upper(RestartTasks)
    BY FreeTasks, TasksAreFree DEF RestartTasks
  <2> QED BY <2>1, <2>2, EventStep DEF Then
<1>12. CASE StopOrRestartScript
  <2>1. At("process") /\ UNCHANGED hubVars
    BY <1>12 DEF StopOrRestartScript, AtEvent
  <2>2. PICK x : \/ work' = <<Then>> \o Tail(work)
                 \/ \E ts \in {<<>>, <<StartOf(x, TRUE)>>} :
                        work' = ((StopTasks(x) \o ts) \o <<Then>>) \o Tail(work)
    BY <1>12 DEF StopOrRestartScript, Replace
  <2>3. CASE work' = <<Then>> \o Tail(work)
    <3>1. Stack(work') /\ Ends(work')
      BY <2>1, <2>3, ThenKeeps DEF EndInv
    <3> QED BY <2>1, <3>1 DEF EndInv
  <2>4. ASSUME NEW ts \in {<<>>, <<StartOf(x, TRUE)>>},
               work' = ((StopTasks(x) \o ts) \o <<Then>>) \o Tail(work)
        PROVE  EndInv'
    <3>1. Upper(StopTasks(x) \o ts)
      BY FreeTasks, TasksAreFree, StopTasksUpper
    <3> QED BY <2>1, <2>4, <3>1, EventStep DEF Then
  <2> QED BY <2>2, <2>3, <2>4
<1>13. CASE BatchDone
  <2>1. At("process") /\ UNCHANGED hubVars /\ work' = AfterBatch \o Tail(work)
    BY <1>13 DEF BatchDone, Replace
  <2>2. IsSeq(Tail(work)) /\ Len(Tail(work)) = 0
    BY <2>1, AtBottom DEF At, Bottoms, EndInv
  <2>3. Stack(AfterBatch) /\ (terminated => Ends(AfterBatch))
    BY BottomStacks, FreeTasks, TasksAreFree DEF AfterBatch, Upper
  <2>4. work' = AfterBatch
    BY <2>1, <2>2, <2>3, NoTail DEF Stack
  <2> QED BY <2>1, <2>3, <2>4 DEF EndInv
<1>14. CASE StartServing
  <2>1. /\ At("serve") /\ UNCHANGED <<hub, isRestart, isClose, both>>
        /\ terminated' = FALSE
        /\ work' = <<Begin("startup", FALSE)>> \o Tail(work)
    BY <1>14 DEF StartServing, Replace
  <2>2. Len(work) = 1 /\ Head(work) = work[1] /\ IsSeq(Tail(work))
        /\ Len(Tail(work)) = 0
    BY <2>1, AtBottom DEF At, Bottoms, EndInv
  <2>3. ~Ends(work)
    BY <2>1, <2>2 DEF Ends, At
  <2>4. Stack(<<Begin("startup", FALSE)>>)
    BY FreeTasks, TasksAreFree DEF Upper
  <2>5. Stack(work')
    BY <2>1, <2>2, <2>4, NoTail DEF Stack
  <2> QED BY <2>1, <2>3, <2>5 DEF EndInv
<1>15. CASE FinalStop
  <2>1. /\ isRestart' = FALSE
        /\ UNCHANGED <<isClose, terminated, both>>
        /\ \/ isRestart /\ work' = StartTasks
           \/ work' = <<>> /\ hub' # "serving"
    BY <1>15 DEF FinalStop
  <2>2. Stack(work')
    BY <2>1, BottomStacks, FreeTasks, TasksAreFree DEF Upper
  <2> QED BY <2>1, <2>2 DEF EndInv
<1>16. CASE Signal
  <2>1. CASE isClose
    BY <1>16, <2>1 DEF Signal, EndInv
  <2>2. CASE ~isClose
    <3>1. /\ Idle /\ isClose' = TRUE /\ terminated' = TRUE /\ work' = EndTasks
          /\ UNCHANGED <<isRestart, both>>
      BY <1>16, <2>2 DEF Signal
    <3>2. ~isRestart
      BY <3>1, IdleClosing
    <3>3. Stack(work') /\ Ends(work')
      BY <3>1, BottomStacks
    <3> QED BY <3>1, <3>2, <3>3 DEF EndInv
  <2> QED BY <2>1, <2>2
<1> QED
  BY <1>1, <1>2, <1>3, <1>4, <1>5, <1>6, <1>7, <1>8, <1>9, <1>10, <1>11, <1>12,
     <1>13, <1>14, <1>15, <1>16 DEF Next, HubStep

\* A hub that was told to shut down, and not to restart in the same batch,
\* does not go on serving (EventQueue::ProcessEvents, ServiceLoop::Looper,
\* ServerManager::FinalStop and the signal in mainLoop).
THEOREM ShutdownCorrect == Spec => []RunsUnlessClosing
<1>1. EndInv => RunsUnlessClosing
  BY IdleClosing DEF RunsUnlessClosing
<1> QED BY <1>1, EndInit, EndStep, PTL DEF Spec
-----------------------------------------------------------------------------
\* Closing the states.

\* No stop that is left to do closes a state whose code runs below it.
Owed(w) ==
    \A i, j \in 1..Len(w) : i < j /\ w[j].do = "call" =>
        /\ w[i].do # "stopAll"
        /\ w[i].do = "stop" => w[j].s # w[i].s

StopInv == ~unruly => ~broken /\ Owed(work)

Calm(u) == \A i \in 1..Len(u) : u[i].do \notin {"stop", "stopAll"}
Silent(w) == \A j \in 1..Len(w) : w[j].do # "call"

LEMMA OwedOnTop ==
    ASSUME NEW u, NEW w, IsSeq(u), IsSeq(w), Owed(u), Owed(w),
           \A i \in 1..Len(u), j \in 1..Len(w) : w[j].do = "call" =>
               /\ u[i].do # "stopAll"
               /\ u[i].do = "stop" => w[j].s # u[i].s
    PROVE  Owed(u \o w)
<1> DEFINE v == u \o w
<1>1. /\ Len(v) = Len(u) + Len(w) /\ Len(u) \in Nat /\ Len(w) \in Nat
      /\ \A i \in 1..Len(u) : v[i] = u[i]
      /\ \A i \in 1..Len(w) : v[Len(u) + i] = w[i]
  BY Concat
<1> HIDE DEF v
<1>2. ASSUME NEW k \in 1..Len(v), k > Len(u)
      PROVE  k - Len(u) \in 1..Len(w) /\ v[k] = w[k - Len(u)]
  <2>1. k - Len(u) \in 1..Len(w) /\ Len(u) + (k - Len(u)) = k
    BY <1>1, <1>2
  <2> QED BY <1>1, <2>1
<1>3. ASSUME NEW i \in 1..Len(v), NEW j \in 1..Len(v), i < j, v[j].do = "call"
      PROVE  v[i].do # "stopAll" /\ (v[i].do = "stop" => v[j].s # v[i].s)
  <2>1. CASE j <= Len(u)
    <3>1. i \in 1..Len(u) /\ j \in 1..Len(u) /\ v[i] = u[i] /\ v[j] = u[j]
      BY <1>1, <1>3, <2>1
    <3> QED BY <1>3, <3>1 DEF Owed
  <2>2. CASE i <= Len(u) /\ j > Len(u)
    <3>1. i \in 1..Len(u) /\ v[i] = u[i]
      BY <1>1, <2>2
    <3> QED BY <1>2, <1>3, <2>2, <3>1
  <2>3. CASE i > Len(u) /\ j > Len(u)
    <3>1. i - Len(u) < j - Len(u)
      BY <1>1, <1>3
    <3> QED BY <1>2, <1>3, <2>3, <3>1 DEF Owed
  <2> QED BY <1>1, <1>3, <2>1, <2>2, <2>3
<1> QED BY <1>3 DEF Owed, v

LEMMA CalmOnTop ==
    ASSUME NEW u, NEW w, IsSeq(u), IsSeq(w), Calm(u), Owed(w)
    PROVE  Owed(u \o w)
<1>1. Owed(u)
  BY DEF Calm, Owed
<1> QED BY <1>1, OwedOnTop DEF Calm

LEMMA OwedPopped ==
    ASSUME NEW w, IsSeq(w), w # <<>>, Owed(w)
    PROVE  Owed(Tail(w))
<1>1. /\ Len(w) \in Nat /\ Len(Tail(w)) = Len(w) - 1
      /\ \A i \in 1..(Len(w) - 1) : Tail(w)[i] = w[i + 1]
  BY TailSeq
<1>2. ASSUME NEW i \in 1..Len(Tail(w)), NEW j \in 1..Len(Tail(w)), i < j,
             Tail(w)[j].do = "call"
      PROVE  /\ Tail(w)[i].do # "stopAll"
             /\ Tail(w)[i].do = "stop" => Tail(w)[j].s # Tail(w)[i].s
  <2>1. /\ i + 1 \in 1..Len(w) /\ j + 1 \in 1..Len(w) /\ i + 1 < j + 1
        /\ Tail(w)[i] = w[i + 1] /\ Tail(w)[j] = w[j + 1]
    BY <1>1, <1>2
  <2> QED BY <1>2, <2>1 DEF Owed
<1> QED BY <1>2 DEF Owed

LEMMA CalmReplaces ==
    ASSUME NEW u, NEW w, IsSeq(u), Calm(u), IsSeq(w), w # <<>>, Owed(w)
    PROVE  Owed(u \o Tail(w))
BY OwedPopped, CalmOnTop, TailSeq

LEMMA OwedForgets ==
    ASSUME NEW w, NEW xs, Stack(w), Owed(w)
    PROVE  Owed(Forgets(w, xs))
<1> DEFINE v == Forgets(w, xs)
<1>1. PICK S : w \in Seq(S)
  BY DEF Stack, IsSeq
<1>2. Len(w) \in Nat /\ DOMAIN w = 1..Len(w)
  BY <1>1
<1>3. v = [i \in 1..Len(w) |-> v[i]]
  BY <1>2 DEF Forgets
<1>4. Len(v) = Len(w)
  BY <1>2, <1>3
<1>5. ASSUME NEW i \in 1..Len(w)
      PROVE  v[i] = w[i] \/ v[i].do = "round"
  <2>1. CASE w[i].do = "round"
    <3>1. v[i] = [w[i] EXCEPT !.due = @ \ xs] /\ Walk(w[i])
      BY <1>2, <2>1 DEF Forgets, Stack, Ordered
    <3> QED BY <2>1, <3>1, StillWalk
  <2>2. CASE w[i].do # "round"
    BY <1>2, <2>2 DEF Forgets
  <2> QED BY <2>1, <2>2
<1> HIDE DEF v
<1>6. Owed(v)
  BY <1>4, <1>5 DEF Owed
<1> QED BY <1>6 DEF v

LEMMA CalmTasks ==
    ASSUME NEW a, NEW b, a.do \notin {"stop", "stopAll"}, b.do \notin {"stop", "stopAll"}
    PROVE  Calm(<<>>) /\ Calm(<<a>>) /\ Calm(<<a, b>>)
<1>1. Calm(<<a>>)
  <2>1. Len(<<a>>) = 1 /\ (<<a>>)[1] = a
    OBVIOUS
  <2> QED BY <2>1 DEF Calm
<1>2. Calm(<<a, b>>)
  <2>1. Len(<<a, b>>) = 2 /\ (<<a, b>>)[1] = a /\ (<<a, b>>)[2] = b
    OBVIOUS
  <2>2. \A i \in 1..2 : i = 1 \/ i = 2
    OBVIOUS
  <2> QED BY <2>1, <2>2 DEF Calm
<1>3. Calm(<<>>)
  BY DEF Calm
<1> QED BY <1>1, <1>2, <1>3

\* What closes one script, and what stops or restarts all of them.
LEMMA StopTasksOwed ==
    ASSUME NEW x, NEW ts \in {<<>>, <<StartOf(x, TRUE)>>}
    PROVE  /\ IsSeq(StopTasks(x) \o ts) /\ Owed(StopTasks(x) \o ts)
           /\ \A i \in 1..Len(StopTasks(x) \o ts) :
                LET t == (StopTasks(x) \o ts)[i]
                IN  t.do # "stopAll" /\ (t.do = "stop" => t.s = x)
<1>1. Calm(ts) /\ IsSeq(ts) /\ Owed(ts)
  <2>1. StartOf(x, TRUE).do \notin {"stop", "stopAll"}
    BY DEF StartOf
  <2>2. Calm(ts) /\ IsSeq(ts)
    BY <2>1, CalmTasks, Short
  <2> QED BY <2>2 DEF Calm, Owed
<1> DEFINE st == StopTasks(x)
<1>2. /\ IsSeq(st) /\ Owed(st)
      /\ \A i \in 1..Len(st) : st[i].do # "stopAll" /\ (st[i].do = "stop" => st[i].s = x)
  <2>1. CASE up
    <3>1. IsSeq(st) /\ Len(st) = 2 /\ st[1] = Call(x, "last") /\ st[2] = StopOf(x)
      BY <2>1, Short DEF StopTasks
    <3> HIDE DEF st
    <3>2. \A i \in 1..2 : i = 1 \/ i = 2
      OBVIOUS
    <3> QED BY <3>1, <3>2 DEF Owed, Call, StopOf
  <2>2. CASE ~up
    <3>1. IsSeq(st) /\ Len(st) = 1 /\ st[1] = StopOf(x)
      BY <2>2, Short DEF StopTasks
    <3> HIDE DEF st
    <3> QED BY <3>1 DEF Owed, StopOf
  <2> QED BY <2>1, <2>2
<1> HIDE DEF st
<1>3. /\ IsSeq(st \o ts) /\ Len(st \o ts) = Len(st) + Len(ts)
      /\ Len(st) \in Nat /\ Len(ts) \in Nat
      /\ \A i \in 1..Len(st) : (st \o ts)[i] = st[i]
      /\ \A i \in 1..Len(ts) : (st \o ts)[Len(st) + i] = ts[i]
  BY <1>1, <1>2, Concat
<1>4. \A j \in 1..Len(ts) : ts[j].do # "call"
  <2>1. CASE ts = <<>>
    BY <2>1
  <2>2. CASE ts = <<StartOf(x, TRUE)>>
    <3>1. Len(ts) = 1 /\ ts[1].do = "start"
      BY <2>2 DEF StartOf
    <3> QED BY <3>1
  <2> QED BY <2>1, <2>2
<1>5. Owed(st \o ts)
  BY <1>1, <1>2, <1>4, OwedOnTop
<1>6. ASSUME NEW i \in 1..Len(st \o ts)
      PROVE  /\ (st \o ts)[i].do # "stopAll"
             /\ (st \o ts)[i].do = "stop" => (st \o ts)[i].s = x
  <2>1. CASE i <= Len(st)
    BY <1>2, <1>3, <2>1
  <2>2. CASE i > Len(st)
    <3>1. i - Len(st) \in 1..Len(ts) /\ Len(st) + (i - Len(st)) = i
      BY <1>3, <2>2
    <3>2. (st \o ts)[i] = ts[i - Len(st)]
      BY <1>3, <3>1
    <3> QED BY <1>1, <3>1, <3>2 DEF Calm
  <2> QED BY <1>3, <2>1, <2>2
<1> QED BY <1>3, <1>5, <1>6 DEF st

LEMMA SilentTasks ==
    /\ IsSeq(RestartTasks) /\ Silent(RestartTasks)
    /\ \A f : IsSeq(<<Begin("exit", f), StopAll>>) /\ Silent(<<Begin("exit", f), StopAll>>)
    /\ \A batch : IsSeq(<<Process(batch)>>) /\ Silent(<<Process(batch)>>)
    /\ IsSeq(StartTasks) /\ Silent(StartTasks)
    /\ IsSeq(EndTasks) /\ Silent(EndTasks)
    /\ IsSeq(<<>>) /\ Silent(<<>>)
<1>1. ASSUME NEW a, NEW b, NEW c, NEW d,
             a.do # "call", b.do # "call", c.do # "call", d.do # "call"
      PROVE  Silent(<<>>) /\ Silent(<<a>>) /\ Silent(<<a, b>>) /\ Silent(<<a, b, c, d>>)
  <2>1. Len(<<>>) = 0 /\ Len(<<a>>) = 1 /\ Len(<<a, b>>) = 2 /\ Len(<<a, b, c, d>>) = 4
    OBVIOUS
  <2>2. (\A i \in 1..0 : FALSE) /\ (\A i \in 1..1 : i = 1) /\ (\A i \in 1..2 : i = 1 \/ i = 2)
        /\ (\A i \in 1..4 : i = 1 \/ i = 2 \/ i = 3 \/ i = 4)
    OBVIOUS
  <2>3. \A i \in 1..4 : (<<a, b, c, d>>)[i].do # "call"
    BY <1>1, <2>2
  <2>4. \A i \in 1..2 : (<<a, b>>)[i].do # "call"
    BY <1>1, <2>2
  <2>5. \A i \in 1..1 : (<<a>>)[i].do # "call"
    BY <1>1, <2>2
  <2> QED BY <2>1, <2>2, <2>3, <2>4, <2>5 DEF Silent
<1>2. /\ StopAll.do # "call" /\ Serve.do # "call" /\ Final.do # "call"
      /\ \A k, f : Begin(k, f).do # "call"
      /\ \A i : StartFrom(i).do # "call"
      /\ \A batch : Process(batch).do # "call"
  BY DEF StopAll, Serve, Final, Begin, StartFrom, Process
<1> HIDE DEF Silent
<1>3. Silent(RestartTasks) /\ IsSeq(RestartTasks)
  BY <1>1, <1>2, Short DEF RestartTasks
<1>4. \A f : IsSeq(<<Begin("exit", f), StopAll>>) /\ Silent(<<Begin("exit", f), StopAll>>)
  BY <1>1, <1>2, Short
<1>5. \A batch : IsSeq(<<Process(batch)>>) /\ Silent(<<Process(batch)>>)
  BY <1>1, <1>2, Short
<1>6. IsSeq(StartTasks) /\ Silent(StartTasks) /\ IsSeq(EndTasks) /\ Silent(EndTasks)
  BY <1>1, <1>2, Short DEF StartTasks, EndTasks
<1>7. IsSeq(<<>>) /\ Silent(<<>>)
  BY <1>1, <1>2, Short
<1> QED BY <1>3, <1>4, <1>5, <1>6, <1>7

LEMMA SilentOwed ==
    ASSUME NEW w, Silent(w)
    PROVE  Owed(w)
BY DEF Silent, Owed

LEMMA SilentConcat ==
    ASSUME NEW u, NEW w, IsSeq(u), IsSeq(w), Owed(u), Silent(w)
    PROVE  Owed(u \o w)
BY SilentOwed, OwedOnTop DEF Silent

\* Code that is not called by other code is all that runs.
LEMMA OneCall ==
    ASSUME Stack(work), At("call"), ~Nested
    PROVE  \A j \in 1..Len(work) : work[j].do = "call" => j = 1
<1>1. /\ Len(work) \in Nat /\ Len(work) > 0 /\ Head(work) = work[1]
      /\ DOMAIN work = 1..Len(work)
  BY TailSeq DEF At, Stack, IsSeq
<1>2. IsFiniteSet(Frames) /\ 1 \in Frames
  <2>1. IsFiniteSet(1..Len(work)) /\ Frames \subseteq 1..Len(work)
    BY <1>1, FS_Interval DEF Frames
  <2> QED BY <1>1, <2>1, FS_Subset DEF At, Frames
<1>3. ASSUME NEW j \in Frames, j # 1
      PROVE  FALSE
  <2>1. {1} \cup {j} \subseteq Frames /\ {1} \cup {j} = {1, j}
    BY <1>2
  <2>2. IsFiniteSet({1}) /\ Cardinality({1}) = 1 /\ j \notin {1}
    BY <1>3, FS_Singleton
  <2>3. Cardinality({1} \cup {j}) = 1 + 1
    BY <2>2, FS_AddElement
  <2>4. Cardinality({1} \cup {j}) <= Cardinality(Frames) /\ Cardinality(Frames) \in Nat
    BY <1>2, <2>1, FS_Subset, FS_CardinalityType
  <2> QED BY <2>3, <2>4 DEF Nested, Depth
<1> QED BY <1>1, <1>3 DEF Frames

LEMMA CalledOnly ==
    ASSUME Stack(work), At("call"), ~Nested
    PROVE  \A j \in 1..Len(work) : work[j].do = "call" => work[j].s = Caller
<1>1. Head(work) = work[1]
  BY TailSeq DEF At, Stack
<1> QED BY <1>1, OneCall DEF Caller

LEMMA ScriptStepOwes ==
    ASSUME Stack(work), Stack(work'), Owed(work), ~broken, ScriptStep, ~unruly'
    PROVE  Owed(work') /\ ~broken'
<1>0. IsSeq(work)
  BY DEF Stack
<1>1. CASE ScriptStart \/ ScriptStarted \/ StartNext
  <2>1. PICK a, b : /\ a.do \notin {"stop", "stopAll"} /\ b.do \notin {"stop", "stopAll"}
                    /\ \E u \in {<<>>, <<a>>, <<a, b>>} : work' = u \o Tail(work)
                    /\ work # <<>> /\ broken' = broken
    <3>1. CASE ScriptStart
      <4> DEFINE a == Call(Caller, "main")
                 b == Started(Caller, Head(work).alone)
      <4>1. a.do \notin {"stop", "stopAll"} /\ b.do \notin {"stop", "stopAll"}
        BY DEF Call, Started
      <4>2. work' = <<a, b>> \o Tail(work) /\ work # <<>> /\ broken' = broken
        BY <3>1 DEF ScriptStart, At, Replace
      <4> HIDE DEF a, b
      <4> QED BY <4>1, <4>2
    <3>2. CASE ScriptStarted
      <4> DEFINE a == Call(Caller, "startup")
      <4>1. a.do \notin {"stop", "stopAll"}
        BY DEF Call
      <4>2. /\ \E u \in {<<>>, <<a>>} : work' = u \o Tail(work)
            /\ work # <<>> /\ broken' = broken
        BY <3>2 DEF ScriptStarted, At, Replace
      <4> HIDE DEF a
      <4> QED BY <4>1, <4>2
    <3>3. CASE StartNext
      <4> DEFINE a == StartOf(table[Head(work).i], FALSE)
                 b == StartFrom(Head(work).i + 1)
      <4>1. a.do \notin {"stop", "stopAll"} /\ b.do \notin {"stop", "stopAll"}
        BY DEF StartOf, StartFrom
      <4>2. /\ \E u \in {<<>>, <<b>>, <<a, b>>} : work' = u \o Tail(work)
            /\ work # <<>> /\ broken' = broken
        BY <3>3 DEF StartNext, At, Replace
      <4> HIDE DEF a, b
      <4> QED BY <4>1, <4>2
    <3> QED BY <1>1, <3>1, <3>2, <3>3
  <2>2. PICK u \in {<<>>, <<a>>, <<a, b>>} : work' = u \o Tail(work)
    BY <2>1
  <2>3. Calm(u) /\ IsSeq(u)
    BY <2>1, CalmTasks, Short
  <2> QED BY <1>0, <2>1, <2>2, <2>3, CalmReplaces
<1>2. CASE BeginRound \/ NextScript
  <2>1. PICK a, b : /\ a.do \notin {"stop", "stopAll"} /\ b.do \notin {"stop", "stopAll"}
                    /\ \E u \in {<<>>, <<a>>, <<a, b>>} : work' = u \o Tail(work)
                    /\ work # <<>> /\ broken' = broken
    <3>1. CASE BeginRound
      <4> DEFINE a == Round(Head(work).kind, running, ToSet(running) \cap live)
      <4>1. a.do \notin {"stop", "stopAll"}
        BY DEF Round
      <4>2. /\ \E u \in {<<>>, <<a>>} : work' = u \o Tail(work)
            /\ work # <<>> /\ broken' = broken
        BY <3>1 DEF BeginRound, At, Replace
      <4> HIDE DEF a
      <4> QED BY <4>1, <4>2
    <3>2. CASE NextScript
      <4> DEFINE r == Head(work)
                 a == Call(Head(r.rest), r.kind)
                 b == Round(r.kind, Tail(r.rest), r.due \ {Head(r.rest)})
                 c == Round(r.kind, Tail(r.rest), r.due)
      <4>1. /\ a.do \notin {"stop", "stopAll"} /\ b.do \notin {"stop", "stopAll"}
            /\ c.do \notin {"stop", "stopAll"}
        BY DEF Round, Call
      <4>2. /\ \E u \in {<<>>, <<c>>, <<a, b>>} : work' = u \o Tail(work)
            /\ work # <<>> /\ broken' = broken
        BY <3>2 DEF NextScript, At, Replace
      <4> HIDE DEF a, b, c
      <4> QED BY <4>1, <4>2
    <3> QED BY <1>2, <3>1, <3>2
  <2>2. PICK u \in {<<>>, <<a>>, <<a, b>>} : work' = u \o Tail(work)
    BY <2>1
  <2>3. Calm(u) /\ IsSeq(u)
    BY <2>1, CalmTasks, Short
  <2> QED BY <1>0, <2>1, <2>2, <2>3, CalmReplaces
<1>3. CASE MainFails \/ ReturnsTrue
  <2> DEFINE a == Begin("disconnected", FALSE)
  <2>1. a.do \notin {"stop", "stopAll"}
    BY DEF Begin
  <2>2. work # <<>> /\ broken' = broken
        /\ \/ work' = Tail(Tail(work)) /\ Head(work).why = "main"
           \/ /\ \E u \in {<<>>, <<a>>} : work' = u \o Tail(Tail(work))
              /\ Head(work).why \in {"arrival", "connected"}
    BY <1>3 DEF MainFails, ReturnsTrue, At
  <2>3. Tail(work) # <<>> /\ IsSeq(Tail(work)) /\ Owed(Tail(work))
    <3>1. Follows(Head(work), work, 1) /\ Head(work).do = "call"
      BY <1>3, HeadCall DEF MainFails, ReturnsTrue, At
    <3>2. 1 < Len(work)
      BY <2>2, <3>1 DEF Follows
    <3>3. Tail(work) # <<>>
      <4>1. Len(work) \in Nat
        BY <1>0, <2>2, TailSeq
      <4>2. CASE Len(work) = 1
        BY <3>2, <4>2
      <4> QED BY <1>0, <2>2, <4>2, TailSeq
    <3> QED BY <1>0, <2>2, <3>3, TailSeq, OwedPopped
  <2> HIDE DEF a
  <2>4. CASE work' = Tail(Tail(work))
    BY <2>2, <2>3, <2>4, OwedPopped
  <2>5. ASSUME NEW u \in {<<>>, <<a>>}, work' = u \o Tail(Tail(work)) PROVE Owed(work')
    <3>1. Calm(u) /\ IsSeq(u)
      BY <2>1, CalmTasks, Short
    <3> QED BY <2>3, <2>5, <3>1, CalmReplaces
  <2> QED BY <2>2, <2>4, <2>5
<1>4. CASE Returns \/ CallbackFails
  <2>1. work # <<>> /\ work' = Tail(work) /\ broken' = broken
    BY <1>4 DEF Returns, CallbackFails, At
  <2> QED BY <1>0, <2>1, OwedPopped
<1>5. CASE AsksHub \/ LuaMove
  BY <1>5 DEF AsksHub, LuaMove
<1>6. CASE DisconnectsUser \/ LuaStartScript
  <2>1. PICK a : /\ a.do \notin {"stop", "stopAll"}
                 /\ work' = <<a>> \o work /\ broken' = broken
    <3>1. CASE DisconnectsUser
      <4>1. Begin("disconnected", FALSE).do \notin {"stop", "stopAll"}
        BY DEF Begin
      <4> QED BY <3>1, <4>1 DEF DisconnectsUser, Push
    <3>2. CASE LuaStartScript
      <4>1. \A x : StartOf(x, TRUE).do \notin {"stop", "stopAll"}
        BY DEF StartOf
      <4> QED BY <3>2, <4>1 DEF LuaStartScript, StartScript, Push
    <3> QED BY <1>6, <3>1, <3>2
  <2>2. Calm(<<a>>) /\ IsSeq(<<a>>)
    BY <2>1, CalmTasks, Short
  <2> QED BY <1>0, <2>1, <2>2, CalmOnTop
<1>7. CASE LuaStopScript
  <2>1. At("call") /\ broken' = broken
    BY <1>7 DEF LuaStopScript, StopScript
  <2>2. CASE work' = work
    BY <2>1, <2>2
  <2>3. CASE work' # work
    <3>1. PICK x : x # Caller /\ ~Nested
                   /\ \E ts \in {<<>>, <<StartOf(x, TRUE)>>} :
                        work' = (StopTasks(x) \o ts) \o work
      BY <1>7, <2>3 DEF LuaStopScript, StopScript, Push, Deferred
    <3>2. PICK ts \in {<<>>, <<StartOf(x, TRUE)>>} : work' = (StopTasks(x) \o ts) \o work
      BY <3>1
    <3> DEFINE u == StopTasks(x) \o ts
    <3>3. /\ IsSeq(u) /\ Owed(u)
          /\ \A i \in 1..Len(u) : u[i].do # "stopAll" /\ (u[i].do = "stop" => u[i].s = x)
      BY StopTasksOwed
    <3>4. \A j \in 1..Len(work) : work[j].do = "call" => work[j].s = Caller
      BY <2>1, <3>1, CalledOnly
    <3> HIDE DEF u
    <3>5. Owed(u \o work)
      BY <1>0, <3>1, <3>3, <3>4, OwedOnTop
    <3> QED BY <2>1, <3>2, <3>5 DEF u
  <2> QED BY <2>2, <2>3
<1>8. CASE ScriptStop \/ StopRunning
  <2>1. PICK ys : /\ work # <<>> /\ work' = Forgets(Tail(work), ys)
                  /\ broken' = (broken \/ RunsCodeOf(ys))
                  /\ \/ Head(work).do = "stop" /\ ys = {Head(work).s}
                     \/ Head(work).do = "stopAll"
    BY <1>8 DEF ScriptStop, StopRunning, Stops, At, Caller
  <2>2. /\ Len(work) \in Nat /\ Len(work) > 0 /\ Head(work) = work[1]
        /\ DOMAIN work = 1..Len(work)
    BY <1>0, <2>1, TailSeq DEF IsSeq
  <2>3. \A j \in 1..Len(work) : work[j].do = "call" =>
            /\ work[1].do # "stopAll"
            /\ work[1].do = "stop" => work[j].s # work[1].s
    <3>1. \A j \in 1..Len(work) : work[j].do = "call" => 1 < j /\ 1 \in 1..Len(work)
      BY <2>1, <2>2
    <3> QED BY <3>1 DEF Owed
  <2>4. ~RunsCodeOf(ys)
    BY <2>1, <2>2, <2>3 DEF RunsCodeOf, Frames
  <2>5. Owed(Tail(work)) /\ Stack(Tail(work))
    BY <1>0, <2>1, OwedPopped, Popped
  <2> QED BY <2>1, <2>4, <2>5, OwedForgets
<1> QED BY <1>1, <1>2, <1>3, <1>4, <1>5, <1>6, <1>7, <1>8 DEF ScriptStep

LEMMA StaysUnruly == [Next]_vars /\ unruly => unruly'
<1> SUFFICES ASSUME [Next]_vars, unruly PROVE unruly'
  OBVIOUS
<1>1. CASE UNCHANGED vars
  BY <1>1 DEF vars, scriptVars
<1>2. CASE ScriptStep
  <2>1. CASE ScriptStart \/ ScriptStarted \/ MainFails \/ ScriptStop \/ StartNext \/ StopRunning
    BY <2>1 DEF ScriptStart, ScriptStarted, MainFails, ScriptStop, StartNext, StopRunning
  <2>2. CASE BeginRound \/ NextScript \/ Returns \/ ReturnsTrue \/ CallbackFails \/ AsksHub
    BY <2>2 DEF BeginRound, NextScript, Returns, ReturnsTrue, CallbackFails, AsksHub
  <2>3. CASE DisconnectsUser \/ LuaMove \/ LuaStartScript \/ LuaStopScript
    BY <2>3 DEF DisconnectsUser, LuaMove, LuaStartScript, LuaStopScript
  <2> QED BY <1>2, <2>1, <2>2, <2>3 DEF ScriptStep
<1>3. CASE HubStep
  <2>1. CASE UserActs \/ TimerFires \/ OperatorRestarts \/ OperatorStops \/ OperatorStarts
             \/ OperatorRestartsHub \/ ProcessEvents
    BY <2>1 DEF UserActs, TimerFires, OperatorRestarts, OperatorStops, OperatorStarts,
                OperatorRestartsHub, ProcessEvents, Outside
  <2>2. CASE Restart \/ Shutdown \/ StopScripting \/ RestartScripts \/ StopOrRestartScript
             \/ BatchDone \/ StartServing \/ FinalStop \/ Signal
    BY <2>2 DEF Restart, Shutdown, StopScripting, RestartScripts, StopOrRestartScript,
                BatchDone, StartServing, FinalStop, Signal
  <2> QED BY <1>3, <2>1, <2>2 DEF HubStep
<1> QED BY <1>1, <1>2, <1>3 DEF Next

\* At the bottom of the stack, and while the hub waits, no code runs.
LEMMA BottomSilent ==
    ASSUME Stack(work), work # <<>>, Head(work).do \in Bottoms
    PROVE  Silent(work) /\ Frames = {}
<1>1. Len(work) = 1 /\ Head(work) = work[1]
  BY AtBottom
<1>2. Silent(work)
  BY <1>1 DEF Silent, Bottoms
<1>3. DOMAIN work = 1..Len(work)
  BY DEF Stack, IsSeq
<1> QED BY <1>2, <1>3 DEF Silent, Frames

LEMMA HubStepOwes ==
    ASSUME EndInv, Owed(work), ~broken, HubStep, ~unruly'
    PROVE  Owed(work') /\ ~broken'
<1>0. Stack(work) /\ IsSeq(work)
  BY DEF EndInv, Stack
<1>1. CASE UserActs \/ OperatorRestarts
  <2>1. broken' = broken /\ ((\E k : work' = <<Begin(k, FALSE)>>) \/ work' = RestartTasks)
    BY <1>1 DEF UserActs, OperatorRestarts, Outside
  <2>2. \A k : Owed(<<Begin(k, FALSE)>>)
    <3>1. \A k : Begin(k, FALSE).do \notin {"stop", "stopAll"}
      BY DEF Begin
    <3> QED BY <3>1, CalmTasks DEF Calm, Owed
  <2> QED BY <2>1, <2>2, SilentTasks, SilentOwed
<1>2. CASE TimerFires
  <2>1. PICK x : broken' = broken /\ work' = <<Call(x, "timer")>>
    BY <1>2 DEF TimerFires, Outside
  <2>2. Call(x, "timer").do \notin {"stop", "stopAll"}
    BY DEF Call
  <2>3. Calm(<<Call(x, "timer")>>)
    BY <2>2, CalmTasks
  <2> QED BY <2>1, <2>3 DEF Calm, Owed
<1>3. CASE OperatorStops
  <2>1. Idle /\ broken' = broken
    BY <1>3 DEF OperatorStops, MayManage, StopScript
  <2>2. PICK x : \E ts \in {<<>>, <<StartOf(x, TRUE)>>} :
                    work' = (StopTasks(x) \o ts) \o work
    BY <1>3 DEF OperatorStops, StopScript, Push
  <2>3. PICK ts \in {<<>>, <<StartOf(x, TRUE)>>} : work' = (StopTasks(x) \o ts) \o work
    BY <2>2
  <2>4. IsSeq(StopTasks(x) \o ts) /\ Owed(StopTasks(x) \o ts)
    BY StopTasksOwed
  <2>5. Silent(work)
    BY <2>1, SilentTasks DEF Idle
  <2> QED BY <1>0, <2>1, <2>3, <2>4, <2>5, SilentConcat
<1>4. CASE OperatorStarts
  <2>1. PICK x : broken' = broken /\ work' = <<StartOf(x, TRUE)>> \o work
    BY <1>4 DEF OperatorStarts, StartScript, Push
  <2>2. StartOf(x, TRUE).do \notin {"stop", "stopAll"}
    BY DEF StartOf
  <2>3. Calm(<<StartOf(x, TRUE)>>) /\ IsSeq(<<StartOf(x, TRUE)>>)
    BY <2>2, CalmTasks, Short
  <2> QED BY <1>0, <2>1, <2>3, CalmOnTop
<1>5. CASE OperatorRestartsHub
  BY <1>5 DEF OperatorRestartsHub
<1>6. CASE ProcessEvents \/ Signal
  <2>1. broken' = broken /\ (work' = <<Process(events)>> \/ work' = EndTasks \/ work' = work)
    BY <1>6 DEF ProcessEvents, Signal
  <2> QED BY <2>1, SilentTasks, SilentOwed
<1>7. CASE Restart \/ Shutdown \/ StopScripting \/ RestartScripts
  <2>1. At("process") /\ broken' = broken
        /\ \E u \in {<<>>, <<Begin("exit", TRUE), StopAll>>, RestartTasks} :
              work' = (u \o <<Then>>) \o Tail(work)
    <3>1. <<Then>> = (<<>>) \o <<Then>>
      OBVIOUS
    <3>2. CASE Restart \/ Shutdown
      BY <3>1, <3>2 DEF Restart, Shutdown, AtEvent, Replace
    <3>3. CASE StopScripting
      BY <3>3 DEF StopScripting, AtEvent, Replace
    <3>4. CASE RestartScripts
      BY <3>4 DEF RestartScripts, AtEvent, Replace
    <3> QED BY <1>7, <3>2, <3>3, <3>4
  <2>2. PICK u \in {<<>>, <<Begin("exit", TRUE), StopAll>>, RestartTasks} :
              work' = (u \o <<Then>>) \o Tail(work)
    BY <2>1
  <2>3. IsSeq(u) /\ Owed(u) /\ IsSeq(<<Then>>) /\ Silent(<<Then>>)
    BY SilentTasks, SilentOwed DEF Then
  <2>4. Owed(u \o <<Then>>) /\ IsSeq(u \o <<Then>>)
    BY <2>3, SilentConcat, Concat
  <2>5. Len(Tail(work)) = 0 /\ IsSeq(Tail(work))
    BY <1>0, <2>1, AtBottom DEF At, Bottoms
  <2>6. work' = u \o <<Then>>
    BY <2>2, <2>4, <2>5, NoTail
  <2> QED BY <2>1, <2>4, <2>6
<1>8. CASE StopOrRestartScript
  <2>1. At("process") /\ broken' = broken
    BY <1>8 DEF StopOrRestartScript, AtEvent
  <2>2. PICK x : \/ work' = <<Then>> \o Tail(work)
                 \/ \E ts \in {<<>>, <<StartOf(x, TRUE)>>} :
                        work' = ((StopTasks(x) \o ts) \o <<Then>>) \o Tail(work)
    BY <1>8 DEF StopOrRestartScript, Replace
  <2>3. Len(Tail(work)) = 0 /\ IsSeq(Tail(work))
    BY <1>0, <2>1, AtBottom DEF At, Bottoms
  <2>4. IsSeq(<<Then>>) /\ Silent(<<Then>>) /\ Owed(<<Then>>)
    BY SilentTasks, SilentOwed DEF Then
  <2>5. CASE work' = <<Then>> \o Tail(work)
    BY <2>1, <2>3, <2>4, <2>5, NoTail
  <2>6. ASSUME NEW ts \in {<<>>, <<StartOf(x, TRUE)>>},
               work' = ((StopTasks(x) \o ts) \o <<Then>>) \o Tail(work)
        PROVE  Owed(work')
    <3>1. IsSeq(StopTasks(x) \o ts) /\ Owed(StopTasks(x) \o ts)
      BY StopTasksOwed
    <3>2. Owed((StopTasks(x) \o ts) \o <<Then>>) /\ IsSeq((StopTasks(x) \o ts) \o <<Then>>)
      BY <2>4, <3>1, SilentConcat, Concat
    <3> QED BY <2>3, <2>6, <3>2, NoTail
  <2> QED BY <2>1, <2>2, <2>5, <2>6
<1>9. CASE BatchDone \/ StartServing
  <2>1. PICK u : /\ work # <<>> /\ Head(work).do \in Bottoms /\ broken' = broken
                 /\ u \in {<<>>, EndTasks, <<Begin("startup", FALSE)>>}
                 /\ work' = u \o Tail(work)
    BY <1>9 DEF BatchDone, StartServing, At, Replace, AfterBatch, Bottoms
  <2>2. IsSeq(u) /\ Owed(u)
    <3>1. Begin("startup", FALSE).do \notin {"stop", "stopAll"}
      BY DEF Begin
    <3>2. Calm(<<Begin("startup", FALSE)>>) /\ IsSeq(<<Begin("startup", FALSE)>>)
      BY <3>1, CalmTasks, Short
    <3>3. Owed(<<Begin("startup", FALSE)>>)
      BY <3>2 DEF Calm, Owed
    <3> QED BY <2>1, <3>2, <3>3, SilentTasks, SilentOwed
  <2>3. Len(Tail(work)) = 0 /\ IsSeq(Tail(work))
    BY <1>0, <2>1, AtBottom
  <2> QED BY <2>1, <2>2, <2>3, NoTail
<1>10. CASE FinalStop
  <2>1. At("final") /\ (work' = StartTasks \/ work' = <<>>)
        /\ (broken' = broken \/ broken' = (broken \/ RunsCodeOf(ToSet(running))))
    BY <1>10 DEF FinalStop, Stops
  <2>2. Frames = {}
    BY <1>0, <2>1, BottomSilent DEF At, Bottoms
  <2>3. ~broken'
    BY <2>1, <2>2 DEF RunsCodeOf
  <2> QED BY <2>1, <2>3, SilentTasks, SilentOwed
<1> QED BY <1>1, <1>2, <1>3, <1>4, <1>5, <1>6, <1>7, <1>8, <1>9, <1>10 DEF HubStep

LEMMA StopInit == HubInit => StopInv
BY SilentTasks, SilentOwed DEF HubInit, ScriptInit, StopInv

LEMMA StopStep == EndInv /\ StopInv /\ [Next]_vars => StopInv'
<1> SUFFICES ASSUME EndInv, StopInv, [Next]_vars, ~unruly' PROVE ~broken' /\ Owed(work')
  BY DEF StopInv
<1>1. ~broken /\ Owed(work)
  BY StaysUnruly DEF StopInv
<1>2. Stack(work) /\ Stack(work')
  BY EndStep DEF EndInv
<1>3. CASE UNCHANGED vars
  BY <1>1, <1>3 DEF vars, scriptVars
<1> QED BY <1>1, <1>2, <1>3, ScriptStepOwes, HubStepOwes DEF Next

\* lua_close is not called on a state whose code is on the stack: a script is
\* stopped by another one's code, by the hub when no code runs, or by an
\* event for itself (the library's StopScript, ScriptManager::Stop, FinalStop).
\* That holds of histories without nested stops and without a script that stops
\* itself from a coroutine, whose Lua state is not the one of the script.
THEOREM ClosingIsSafe == Spec => []StatesOutliveCalls
<1>1. StopInv => StatesOutliveCalls
  BY DEF StopInv, StatesOutliveCalls
<1> QED BY <1>1, EndInit, EndStep, StopInit, StopStep, PTL DEF Spec
-----------------------------------------------------------------------------
\* The table and the list.

\* The table holds every script once.
Perm(tbl) ==
    /\ tbl \in Seq(Scripts)
    /\ \A i, j \in 1..Len(tbl) : i # j => tbl[i] # tbl[j]
    /\ \A x \in Scripts : \E i \in 1..Len(tbl) : tbl[i] = x

LEMMA TableIsPerm ==
    ASSUME NEW tbl \in SetToSeqs(Scripts)
    PROVE  Perm(tbl)
<1> DEFINE D == 1..Cardinality(Scripts)
<1>1. tbl \in [D -> Scripts] /\ \A i, j \in D : i # j => tbl[i] # tbl[j]
  BY DEF SetToSeqs
<1>2. Cardinality(Scripts) \in Nat
  BY ScriptAssumption, FS_CardinalityType
<1>3. IsFiniteSet(D) /\ Cardinality(D) = Cardinality(Scripts)
  BY <1>2, FS_Interval
<1>4. tbl \in Injection(D, Scripts)
  BY <1>1 DEF Injection, IsInjective
<1>5. tbl \in Surjection(D, Scripts)
  BY <1>3, <1>4, ScriptAssumption, FS_Injection
<1>6. \A x \in Scripts : \E i \in D : tbl[i] = x
  BY <1>5 DEF Surjection
<1>7. tbl \in Seq(Scripts) /\ Len(tbl) = Cardinality(Scripts)
  BY <1>1, <1>2
<1> QED BY <1>1, <1>6, <1>7 DEF Perm

LEMMA SwapIsPerm ==
    ASSUME NEW tbl, Perm(tbl), NEW n \in 1..(Len(tbl) - 1),
           NEW new, new = [tbl EXCEPT ![n] = tbl[n + 1], ![n + 1] = tbl[n]]
    PROVE  Perm(new)
<1>1. tbl \in Seq(Scripts) /\ Len(tbl) \in Nat /\ n \in 1..Len(tbl) /\ n + 1 \in 1..Len(tbl)
  BY DEF Perm
<1>2. /\ new \in Seq(Scripts) /\ Len(new) = Len(tbl)
      /\ new[n] = tbl[n + 1] /\ new[n + 1] = tbl[n]
      /\ \A i \in 1..Len(tbl) : i # n /\ i # n + 1 => new[i] = tbl[i]
  BY <1>1
<1>3. \A i, j \in 1..Len(tbl) : i # j => new[i] # new[j]
  BY <1>1, <1>2 DEF Perm
<1>4. ASSUME NEW x \in Scripts PROVE \E i \in 1..Len(tbl) : new[i] = x
  <2>1. PICK i \in 1..Len(tbl) : tbl[i] = x
    BY DEF Perm
  <2>2. CASE i = n
    BY <1>1, <1>2, <2>1, <2>2
  <2>3. CASE i = n + 1
    BY <1>1, <1>2, <2>1, <2>3
  <2> QED BY <1>2, <2>1, <2>2, <2>3
<1> QED BY <1>2, <1>3, <1>4 DEF Perm

LEMMA PlaceOf ==
    ASSUME NEW tbl, Perm(tbl)
    PROVE  /\ Len(tbl) \in Nat /\ DOMAIN tbl = 1..Len(tbl)
           /\ \A x \in Scripts : PlaceIn(tbl, x) \in 1..Len(tbl) /\ tbl[PlaceIn(tbl, x)] = x
           /\ \A i \in 1..Len(tbl) : tbl[i] \in Scripts /\ PlaceIn(tbl, tbl[i]) = i
<1>1. tbl \in Seq(Scripts) /\ Len(tbl) \in Nat /\ DOMAIN tbl = 1..Len(tbl)
  BY DEF Perm
<1>2. ASSUME NEW x \in Scripts
      PROVE  PlaceIn(tbl, x) \in 1..Len(tbl) /\ tbl[PlaceIn(tbl, x)] = x
  <2>1. \E i \in DOMAIN tbl : tbl[i] = x
    BY <1>1 DEF Perm
  <2> QED BY <1>1, <2>1 DEF PlaceIn
<1>3. ASSUME NEW i \in 1..Len(tbl) PROVE tbl[i] \in Scripts /\ PlaceIn(tbl, tbl[i]) = i
  <2>1. tbl[i] \in Scripts
    BY <1>1
  <2>2. PlaceIn(tbl, tbl[i]) \in 1..Len(tbl) /\ tbl[PlaceIn(tbl, tbl[i])] = tbl[i]
    BY <1>2, <2>1
  <2> QED BY <2>1, <2>2 DEF Perm
<1> QED BY <1>1, <1>2, <1>3

\* The scripts of a list, in the order of the table.
Lists(list, tbl, S) ==
    /\ list \in Seq(Scripts)
    /\ InOrder(list, tbl)
    /\ ToSet(list) = S

LEMMA ListFacts ==
    ASSUME NEW list, NEW tbl, NEW S, Lists(list, tbl, S)
    PROVE  /\ Len(list) \in Nat /\ DOMAIN list = 1..Len(list) /\ S \subseteq Scripts
           /\ S = {list[i] : i \in 1..Len(list)}
           /\ \A i \in 1..Len(list) : list[i] \in S
           /\ \A x \in S : \E i \in 1..Len(list) : list[i] = x
           /\ \A i, j \in 1..Len(list) :
                 i < j => PlaceIn(tbl, list[i]) < PlaceIn(tbl, list[j])
<1>1. list \in Seq(Scripts) /\ Len(list) \in Nat /\ DOMAIN list = 1..Len(list)
  BY DEF Lists
<1>2. S = {list[i] : i \in 1..Len(list)}
  BY <1>1 DEF Lists, ToSet
<1>3. S \subseteq Scripts
  BY <1>1, <1>2
<1> QED BY <1>1, <1>2, <1>3 DEF Lists, InOrder

LEMMA EmptyList == \A tbl : Lists(<<>>, tbl, {})
BY DEF Lists, InOrder, ToSet

\* A list is known by its length and its elements.
LEMMA MakesList ==
    ASSUME NEW tbl, NEW list \in Seq(Scripts), NEW S,
           \A i \in 1..Len(list) : list[i] \in S,
           \A x \in S : \E i \in 1..Len(list) : list[i] = x,
           \A i, j \in 1..Len(list) :
              i < j => PlaceIn(tbl, list[i]) < PlaceIn(tbl, list[j])
    PROVE  Lists(list, tbl, S)
<1>1. DOMAIN list = 1..Len(list)
  OBVIOUS
<1>2. ToSet(list) = S
  BY <1>1 DEF ToSet
<1> QED BY <1>1, <1>2 DEF Lists, InOrder

\* A script that is after those of a list goes to its end.
LEMMA OneMore ==
    ASSUME NEW tbl, Perm(tbl), NEW list, NEW S, Lists(list, tbl, S), NEW x \in Scripts,
           \A y \in S : PlaceIn(tbl, y) < PlaceIn(tbl, x)
    PROVE  Lists(Append(list, x), tbl, S \cup {x})
<1> DEFINE new == Append(list, x)
<1>1. /\ list \in Seq(Scripts) /\ Len(list) \in Nat
      /\ \A i \in 1..Len(list) : list[i] \in S
      /\ \A y \in S : \E i \in 1..Len(list) : list[i] = y
      /\ \A i, j \in 1..Len(list) :
            i < j => PlaceIn(tbl, list[i]) < PlaceIn(tbl, list[j])
  BY ListFacts DEF Lists
<1>2. /\ new \in Seq(Scripts) /\ Len(new) = Len(list) + 1 /\ new[Len(list) + 1] = x
      /\ \A i \in 1..Len(list) : new[i] = list[i]
  BY <1>1
<1> HIDE DEF new
<1>3. \A i \in 1..Len(new) : i \in 1..Len(list) \/ i = Len(list) + 1
  BY <1>1, <1>2
<1>4. \A i \in 1..Len(new) : new[i] \in S \cup {x}
  BY <1>1, <1>2, <1>3
<1>5. ASSUME NEW y \in S \cup {x} PROVE \E i \in 1..Len(new) : new[i] = y
  <2>1. CASE y = x
    <3>1. Len(list) + 1 \in 1..Len(new)
      BY <1>1, <1>2
    <3> QED BY <1>2, <2>1, <3>1
  <2>2. CASE y \in S
    <3>1. PICK i \in 1..Len(list) : list[i] = y
      BY <1>1, <2>2
    <3>2. i \in 1..Len(new)
      BY <1>1, <1>2
    <3> QED BY <1>2, <3>1, <3>2
  <2> QED BY <2>1, <2>2
<1>6. ASSUME NEW i \in 1..Len(new), NEW j \in 1..Len(new), i < j
      PROVE  PlaceIn(tbl, new[i]) < PlaceIn(tbl, new[j])
  <2>1. i \in 1..Len(list)
    BY <1>1, <1>2, <1>6
  <2>2. CASE j \in 1..Len(list)
    BY <1>1, <1>2, <1>6, <2>1, <2>2
  <2>3. CASE j = Len(list) + 1
    BY <1>1, <1>2, <2>1, <2>3
  <2> QED BY <1>3, <2>2, <2>3
<1>7. Lists(new, tbl, S \cup {x})
  BY <1>2, <1>4, <1>5, <1>6, MakesList
<1> QED BY <1>7 DEF new

\* What the community modules and the library say of the operators used.
LEMMA LeastNumber ==
    ASSUME NEW S, S \subseteq Nat, S # {}
    PROVE  Min(S) \in S /\ \A j \in S : Min(S) <= j
<1> DEFINE R == OpToRel(<, Nat)
<1>1. \E x \in S : \A y \in S : ~ (<<y, x>> \in R)
  <2>1. IsWellFoundedOn(R, Nat)
    BY NatLessThanWellFounded
  <2> HIDE DEF R
  <2> QED BY <2>1, WFMin
<1>2. PICK x \in S : \A y \in S : ~ (<<y, x>> \in R)
  BY <1>1
<1>3. \A y \in S : x <= y
  <2> SUFFICES ASSUME NEW y \in S PROVE x <= y
    OBVIOUS
  <2>1. ~ (y < x)
    BY <1>2 DEF OpToRel
  <2> QED BY <2>1
<1>4. \E z \in S : \A y \in S : z =< y
  BY <1>3
<1> QED BY <1>4 DEF Min

\* The scripts in the places below n.
Firsts(tbl, n) == {tbl[j] : j \in {k \in 1..Len(tbl) : k < n}}

\* The loop over the table takes its places in turn.
LEMMA FirstsNext ==
    ASSUME NEW tbl, Perm(tbl), NEW n \in Nat \ {0}
    PROVE  /\ Firsts(tbl, 1) = {}
           /\ n > Len(tbl) => Firsts(tbl, n) = Scripts
           /\ n <= Len(tbl) => /\ Firsts(tbl, n + 1) = Firsts(tbl, n) \cup {tbl[n]}
                               /\ tbl[n] \in Scripts \ Firsts(tbl, n)
           /\ \A y \in Firsts(tbl, n) : y \in Scripts /\ PlaceIn(tbl, y) < n
<1>1. Len(tbl) \in Nat /\ DOMAIN tbl = 1..Len(tbl)
      /\ \A i \in 1..Len(tbl) : tbl[i] \in Scripts /\ PlaceIn(tbl, tbl[i]) = i
      /\ \A x \in Scripts : PlaceIn(tbl, x) \in 1..Len(tbl) /\ tbl[PlaceIn(tbl, x)] = x
  BY PlaceOf
<1>2. Firsts(tbl, 1) = {}
  BY <1>1 DEF Firsts
<1>3. \A y \in Firsts(tbl, n) : y \in Scripts /\ PlaceIn(tbl, y) < n
  BY <1>1 DEF Firsts
<1>4. n > Len(tbl) => Firsts(tbl, n) = Scripts
  <2> SUFFICES ASSUME n > Len(tbl) PROVE Firsts(tbl, n) = Scripts
    OBVIOUS
  <2>1. ASSUME NEW x \in Scripts PROVE x \in Firsts(tbl, n)
    <3>1. PlaceIn(tbl, x) \in 1..Len(tbl) /\ tbl[PlaceIn(tbl, x)] = x
      BY PlaceOf
    <3>2. PlaceIn(tbl, x) < n
      BY <1>1, <3>1
    <3> QED BY <3>1, <3>2 DEF Firsts
  <2>2. Scripts \subseteq Firsts(tbl, n)
    BY <2>1
  <2> QED BY <1>3, <2>2
<1>5. ASSUME n <= Len(tbl)
      PROVE  /\ Firsts(tbl, n + 1) = Firsts(tbl, n) \cup {tbl[n]}
             /\ tbl[n] \in Scripts \ Firsts(tbl, n)
  <2>1. n \in 1..Len(tbl)
    BY <1>1, <1>5
  <2>2. \A k \in 1..Len(tbl) : k < n + 1 <=> k < n \/ k = n
    BY <1>1
  <2>3. Firsts(tbl, n + 1) = Firsts(tbl, n) \cup {tbl[n]}
    BY <2>1, <2>2 DEF Firsts
  <2>4. PlaceIn(tbl, tbl[n]) = n
    BY <1>1, <2>1
  <2> QED BY <1>1, <1>3, <2>1, <2>3, <2>4
<1> QED BY <1>2, <1>3, <1>4, <1>5

\* Any scripts can be listed in the order of the table.
LEMMA Listable ==
    ASSUME NEW tbl, Perm(tbl), NEW S, S \subseteq Scripts
    PROVE  \E list : Lists(list, tbl, S)
<1> DEFINE Good(n) == \E list : Lists(list, tbl, S \cap Firsts(tbl, n))
           Bad == {n \in Nat \ {0} : ~Good(n)}
<1>1. Len(tbl) \in Nat
  BY PlaceOf
<1>2. Bad = {}
  <2> SUFFICES ASSUME Bad # {} PROVE FALSE
    OBVIOUS
  <2> DEFINE m == Min(Bad)
  <2>1. m \in Bad /\ \A j \in Bad : m <= j
    <3>1. Bad \subseteq Nat
      OBVIOUS
    <3> HIDE DEF Bad
    <3> QED BY <3>1, LeastNumber
  <2>2. m \in Nat \ {0} /\ ~Good(m)
    BY <2>1
  <2>3. m # 1
    <3>1. S \cap Firsts(tbl, 1) = {}
      BY FirstsNext
    <3>2. Good(1)
      BY <3>1, EmptyList
    <3> HIDE DEF Good, m
    <3> QED BY <2>2, <3>2
  <2> DEFINE k == m - 1
  <2>4. k \in Nat \ {0} /\ k + 1 = m /\ k \notin Bad
    <3> HIDE DEF Bad, m
    <3>1. m \in Nat \ {0}
      BY <2>2
    <3>2. k \in Nat \ {0} /\ k + 1 = m /\ ~(m <= k)
      BY <2>3, <3>1
    <3> QED BY <2>1, <3>2
  <2>5. Good(k)
    BY <2>4
  <2>6. PICK list : Lists(list, tbl, S \cap Firsts(tbl, k))
    BY <2>5
  <2> HIDE DEF Good, Bad, m, k
  <2>7. CASE k > Len(tbl)
    <3>1. m > Len(tbl)
      BY <1>1, <2>2, <2>4, <2>7
    <3>2. Firsts(tbl, k) = Scripts /\ Firsts(tbl, m) = Scripts
      BY <2>2, <2>4, <2>7, <3>1, FirstsNext
    <3>3. Good(m)
      BY <2>6, <3>2 DEF Good
    <3> QED BY <2>2, <3>3
  <2>8. CASE k <= Len(tbl)
    <3>1. /\ Firsts(tbl, m) = Firsts(tbl, k) \cup {tbl[k]}
          /\ \A y \in Firsts(tbl, k) : PlaceIn(tbl, y) < k
      BY <2>4, <2>8, FirstsNext
    <3>2. k \in 1..Len(tbl) /\ tbl[k] \in Scripts /\ PlaceIn(tbl, tbl[k]) = k
      <4>1. k \in 1..Len(tbl)
        BY <1>1, <2>4, <2>8
      <4> QED BY <4>1, PlaceOf
    <3>3. CASE tbl[k] \in S
      <4>1. Lists(Append(list, tbl[k]), tbl, (S \cap Firsts(tbl, k)) \cup {tbl[k]})
        BY <2>6, <3>1, <3>2, OneMore
      <4>2. (S \cap Firsts(tbl, k)) \cup {tbl[k]} = S \cap Firsts(tbl, m)
        BY <3>1, <3>3
      <4>3. Good(m)
        BY <4>1, <4>2 DEF Good
      <4> QED BY <2>2, <4>3
    <3>4. CASE tbl[k] \notin S
      <4>1. S \cap Firsts(tbl, k) = S \cap Firsts(tbl, m)
        BY <3>1, <3>4
      <4>2. Good(m)
        BY <2>6, <4>1 DEF Good
      <4> QED BY <2>2, <4>2
    <3> QED BY <3>3, <3>4
  <2> QED BY <1>1, <2>4, <2>7, <2>8
<1>3. Len(tbl) + 1 \in Nat \ {0} /\ Len(tbl) + 1 > Len(tbl)
  BY <1>1
<1>4. Good(Len(tbl) + 1)
  BY <1>2, <1>3
<1>5. S \cap Firsts(tbl, Len(tbl) + 1) = S
  BY <1>3, FirstsNext
<1> QED BY <1>4, <1>5

LEMMA ListIsOnce ==
    ASSUME NEW tbl, Perm(tbl), NEW list, NEW S, Lists(list, tbl, S)
    PROVE  list \in SetToSeqs(S)
<1> DEFINE D == 1..Len(list)
<1>1. /\ list \in Seq(Scripts) /\ Len(list) \in Nat /\ S \subseteq Scripts
      /\ \A i \in D : list[i] \in S
      /\ \A x \in S : \E i \in D : list[i] = x
      /\ \A i, j \in D : i < j => PlaceIn(tbl, list[i]) < PlaceIn(tbl, list[j])
  BY ListFacts DEF Lists
<1>2. \A i, j \in D : i # j => list[i] # list[j]
  <2> SUFFICES ASSUME NEW i \in D, NEW j \in D, i # j PROVE list[i] # list[j]
    OBVIOUS
  <2>1. PlaceIn(tbl, list[i]) \in 1..Len(tbl) /\ PlaceIn(tbl, list[j]) \in 1..Len(tbl)
        /\ Len(tbl) \in Nat
    <3>1. list[i] \in Scripts /\ list[j] \in Scripts
      BY <1>1
    <3> QED BY <3>1, PlaceOf
  <2>2. i < j \/ j < i
    BY <1>1
  <2>3. PlaceIn(tbl, list[i]) # PlaceIn(tbl, list[j])
    BY <1>1, <2>1, <2>2
  <2> QED BY <2>3
<1>3. list \in [D -> S]
  <2>1. list \in [D -> Scripts]
    BY <1>1
  <2> QED BY <1>1, <2>1
<1>4. list \in Bijection(D, S)
  BY <1>1, <1>2, <1>3 DEF Bijection, Injection, Surjection, IsInjective
<1>5. Cardinality(S) = Len(list)
  <2>1. IsFiniteSet(D) /\ Cardinality(D) = Len(list)
    <3>1. 1 \in Int /\ Len(list) \in Int /\ Len(list) >= 0
      BY <1>1
    <3>2. IsFiniteSet(1..Len(list)) /\ Cardinality(1..Len(list))
             = IF 1 > Len(list) THEN 0 ELSE Len(list) - 1 + 1
      BY <3>1, FS_Interval
    <3> QED BY <3>1, <3>2
  <2>2. ExistsBijection(D, S)
    BY <1>4 DEF ExistsBijection
  <2> QED BY <2>1, <2>2, FS_Bijection
<1> QED BY <1>2, <1>3, <1>5 DEF SetToSeqs

\* RebuildRunningList makes the list of the scripts that have a state.
LEMMA RunningIsList ==
    ASSUME NEW tbl, Perm(tbl), live \subseteq Scripts
    PROVE  Lists(RunningOf(tbl), tbl, live)
<1>1. PICK list : Lists(list, tbl, live)
  BY Listable
<1>2. list \in SetToSeqs(live) /\ InOrder(list, tbl)
  BY <1>1, ListIsOnce DEF Lists
<1> DEFINE new == RunningOf(tbl)
<1>3. new \in SetToSeqs(live) /\ InOrder(new, tbl)
  BY <1>2 DEF RunningOf
<1> HIDE DEF new
<1>4. IsFiniteSet(live)
  BY ScriptAssumption, FS_Subset
<1> DEFINE D == 1..Cardinality(live)
<1>5. Cardinality(live) \in Nat /\ new \in [D -> live]
      /\ \A i, j \in D : i # j => new[i] # new[j]
  BY <1>3, <1>4, FS_CardinalityType DEF SetToSeqs
<1>6. IsFiniteSet(D) /\ Cardinality(D) = Cardinality(live)
  BY <1>5, FS_Interval
<1>7. new \in Injection(D, live)
  BY <1>5 DEF Injection, IsInjective
<1>8. new \in Surjection(D, live)
  BY <1>4, <1>6, <1>7, FS_Injection
<1>9. DOMAIN new = D /\ \A x \in live : \E i \in D : new[i] = x
  BY <1>5, <1>8 DEF Surjection
<1>10. ToSet(new) = live
  BY <1>5, <1>9 DEF ToSet
<1>11. new \in Seq(Scripts)
  BY <1>5
<1>12. Lists(new, tbl, live)
  BY <1>3, <1>10, <1>11 DEF Lists
<1> QED BY <1>12 DEF new

\* A script enters the list before the first one that is later in the table.
LEMMA InsertFacts ==
    ASSUME NEW list \in Seq(Scripts), NEW n \in 1..Len(list), NEW x \in Scripts
    PROVE  /\ InsertAt(list, n, x) \in Seq(Scripts)
           /\ Len(InsertAt(list, n, x)) = Len(list) + 1
           /\ \A i \in 1..(n - 1) : InsertAt(list, n, x)[i] = list[i]
           /\ InsertAt(list, n, x)[n] = x
           /\ \A i \in n..Len(list) : InsertAt(list, n, x)[i + 1] = list[i]
<1> DEFINE a == SubSeq(list, 1, n - 1)
           b == SubSeq(list, n, Len(list))
<1>1. /\ a \in Seq(Scripts) /\ Len(a) = n - 1
      /\ \A i \in 1..(n - 1) : a[i] = list[i]
  OBVIOUS
<1>2. /\ b \in Seq(Scripts) /\ Len(b) = Len(list) - n + 1
      /\ \A i \in 1..(Len(list) - n + 1) : b[i] = list[n + i - 1]
  OBVIOUS
<1> HIDE DEF a, b
<1> DEFINE c == a \o <<x>>
           new == c \o b
<1>3. /\ c \in Seq(Scripts) /\ Len(c) = n /\ c[n] = x
      /\ \A i \in 1..(n - 1) : c[i] = list[i]
  BY <1>1
<1> HIDE DEF c
<1>4. /\ new \in Seq(Scripts) /\ Len(new) = Len(list) + 1
      /\ \A i \in 1..n : new[i] = c[i]
      /\ \A i \in 1..(Len(list) - n + 1) : new[n + i] = b[i]
  <2>1. new \in Seq(Scripts)
    BY <1>2, <1>3
  <2>2. IsSeq(c) /\ IsSeq(b)
    BY <1>2, <1>3 DEF IsSeq
  <2>3. /\ Len(new) = Len(c) + Len(b)
        /\ \A i \in 1..Len(c) : new[i] = c[i]
        /\ \A i \in 1..Len(b) : new[Len(c) + i] = b[i]
    BY <2>2, Concat
  <2> HIDE DEF new
  <2>4. Len(new) = Len(list) + 1
    BY <1>2, <1>3, <2>3
  <2> QED BY <1>2, <1>3, <2>1, <2>3, <2>4
<1> HIDE DEF new
<1>5. ASSUME NEW i \in n..Len(list) PROVE new[i + 1] = list[i]
  <2>1. i - n + 1 \in 1..(Len(list) - n + 1) /\ n + (i - n + 1) = i + 1
        /\ n + (i - n + 1) - 1 = i
    OBVIOUS
  <2>2. new[n + (i - n + 1)] = b[i - n + 1]
    BY <1>4, <2>1
  <2>3. b[i - n + 1] = list[n + (i - n + 1) - 1]
    BY <1>2, <2>1
  <2> QED BY <2>1, <2>2, <2>3
<1>6. new = InsertAt(list, n, x)
  BY DEF new, c, a, b, InsertAt
<1> QED BY <1>3, <1>4, <1>5, <1>6

\* A script is inserted before the first one that is later in the table.
LEMMA Inserted ==
    ASSUME NEW tbl, Perm(tbl), NEW list, NEW S, Lists(list, tbl, S), NEW x \in Scripts \ S,
           NEW n \in 1..Len(list), PlaceIn(tbl, list[n]) > PlaceIn(tbl, x),
           \A i \in 1..(n - 1) : ~ (PlaceIn(tbl, list[i]) > PlaceIn(tbl, x))
    PROVE  Lists(InsertAt(list, n, x), tbl, S \cup {x})
<1> DEFINE new == InsertAt(list, n, x)
<1>1. /\ list \in Seq(Scripts) /\ Len(list) \in Nat /\ S \subseteq Scripts
      /\ \A i \in 1..Len(list) : list[i] \in S
      /\ \A y \in S : \E i \in 1..Len(list) : list[i] = y
      /\ \A i, j \in 1..Len(list) : i < j => PlaceIn(tbl, list[i]) < PlaceIn(tbl, list[j])
  BY ListFacts DEF Lists
<1>2. /\ new \in Seq(Scripts) /\ Len(new) = Len(list) + 1
      /\ \A i \in 1..(n - 1) : new[i] = list[i]
      /\ new[n] = x
      /\ \A i \in n..Len(list) : new[i + 1] = list[i]
  <2>1. list \in Seq(Scripts) /\ x \in Scripts
    BY <1>1
  <2> HIDE DEF new
  <2> QED BY <2>1, InsertFacts DEF new
<1> HIDE DEF new
<1> DEFINE P(y) == PlaceIn(tbl, y)
<1>3. \A y \in Scripts : P(y) \in Nat /\ tbl[P(y)] = y
  BY PlaceOf
<1> HIDE DEF P
<1>4. \A i \in 1..(n - 1) : P(list[i]) < P(x)
  <2> SUFFICES ASSUME NEW i \in 1..(n - 1) PROVE P(list[i]) < P(x)
    OBVIOUS
  <2>1. list[i] \in S
    BY <1>1
  <2>2. list[i] # x /\ list[i] \in Scripts
    BY <1>1, <2>1
  <2>3. P(list[i]) # P(x) /\ P(list[i]) \in Nat /\ P(x) \in Nat
    BY <1>3, <2>2
  <2>4. ~ (P(list[i]) > P(x))
    BY DEF P
  <2> QED BY <2>3, <2>4
<1>5. \A i \in n..Len(list) : P(x) < P(list[i])
  <2> SUFFICES ASSUME NEW i \in n..Len(list) PROVE P(x) < P(list[i])
    OBVIOUS
  <2>1. i \in 1..Len(list) /\ (i = n \/ n < i)
    BY <1>1
  <2>2. list[i] \in Scripts /\ list[n] \in Scripts
    BY <1>1, <2>1
  <2>3. P(list[i]) \in Nat /\ P(x) \in Nat /\ P(list[n]) \in Nat
    BY <1>3, <2>2
  <2>4. P(list[n]) > P(x) /\ (n < i => P(list[n]) < P(list[i]))
    BY <1>1, <2>1 DEF P
  <2> QED BY <2>1, <2>3, <2>4
<1>6. \A i \in 1..Len(new) : i \in 1..(n - 1) \/ i = n \/ (i - 1 \in n..Len(list) /\ i = (i - 1) + 1)
  BY <1>1, <1>2
<1>7. ASSUME NEW i \in 1..Len(new)
      PROVE  /\ i < n => new[i] = list[i] /\ i \in 1..Len(list)
             /\ i > n => new[i] = list[i - 1] /\ i - 1 \in 1..Len(list)
  <2>1. i < n => i \in 1..(n - 1) /\ i \in 1..Len(list)
    BY <1>1
  <2>2. i > n => i - 1 \in n..Len(list) /\ (i - 1) + 1 = i /\ i - 1 \in 1..Len(list)
    BY <1>1, <1>2
  <2> QED BY <1>2, <2>1, <2>2
<1>8. ASSUME NEW i \in 1..Len(new) PROVE new[i] \in S \cup {x}
  <2>1. i < n \/ i = n \/ i > n
    BY <1>1, <1>2
  <2> QED BY <1>1, <1>2, <1>7, <2>1
<1>9. ASSUME NEW y \in S \cup {x} PROVE \E i \in 1..Len(new) : new[i] = y
  <2>1. CASE y = x
    BY <1>1, <1>2, <2>1
  <2>2. CASE y \in S
    <3>1. PICK i \in 1..Len(list) : list[i] = y
      BY <1>1, <2>2
    <3>2. CASE i < n
      <4>1. i \in 1..(n - 1) /\ i \in 1..Len(new)
        BY <1>1, <1>2, <3>2
      <4> QED BY <1>2, <3>1, <4>1
    <3>3. CASE i >= n
      <4>1. i \in n..Len(list) /\ i + 1 \in 1..Len(new)
        BY <1>1, <1>2, <3>3
      <4> QED BY <1>2, <3>1, <4>1
    <3> QED BY <3>2, <3>3
  <2> QED BY <2>1, <2>2
<1>10. ASSUME NEW i \in 1..Len(new), NEW j \in 1..Len(new), i < j
       PROVE  P(new[i]) < P(new[j])
  <2>1. CASE j < n
    <3>1. i < n /\ i \in 1..Len(list) /\ j \in 1..Len(list)
          /\ new[i] = list[i] /\ new[j] = list[j]
      BY <1>7, <1>10, <2>1
    <3> QED BY <1>1, <1>10, <3>1 DEF P
  <2>2. CASE j = n
    <3>1. i \in 1..(n - 1)
      BY <1>10, <2>2
    <3> QED BY <1>2, <1>4, <2>2, <3>1
  <2>3. CASE j > n /\ i < n
    <3>1. i \in 1..(n - 1) /\ j - 1 \in n..Len(list) /\ new[i] = list[i] /\ new[j] = list[j - 1]
      BY <1>1, <1>2, <1>7, <2>3
    <3>2. i \in 1..Len(list) /\ j - 1 \in 1..Len(list) /\ i < j - 1
      BY <1>1, <3>1
    <3> QED BY <1>1, <3>1, <3>2 DEF P
  <2>4. CASE j > n /\ i = n
    <3>1. j - 1 \in n..Len(list) /\ new[j] = list[j - 1]
      BY <1>1, <1>2, <1>7, <2>4
    <3> QED BY <1>2, <1>5, <2>4, <3>1
  <2>5. CASE j > n /\ i > n
    <3>1. i - 1 \in 1..Len(list) /\ j - 1 \in 1..Len(list) /\ i - 1 < j - 1
          /\ new[i] = list[i - 1] /\ new[j] = list[j - 1]
      BY <1>7, <1>10, <2>5
    <3> QED BY <1>1, <3>1 DEF P
  <2> QED BY <2>1, <2>2, <2>3, <2>4, <2>5
<1>11. Lists(new, tbl, S \cup {x})
  BY <1>2, <1>8, <1>9, <1>10, MakesList DEF P
<1> QED BY <1>11 DEF new

\* AddRunningScript keeps the list in order.
LEMMA ScriptEnters ==
    ASSUME Perm(table), NEW S, Lists(running, table, S), NEW x \in Scripts \ S
    PROVE  Lists(AddRunningScript(x), table, S \cup {x})
<1> DEFINE later == {i \in DOMAIN running : Place(running[i]) > Place(x)}
<1>1. /\ Len(running) \in Nat /\ DOMAIN running = 1..Len(running) /\ S \subseteq Scripts
      /\ \A i \in 1..Len(running) : running[i] \in S
      /\ \A y \in S : \E i \in 1..Len(running) : running[i] = y
  BY ListFacts
<1>2. \A y \in Scripts : PlaceIn(table, y) \in Nat /\ table[PlaceIn(table, y)] = y
  BY PlaceOf
<1>3. CASE later = {}
  <2>1. ASSUME NEW y \in S PROVE PlaceIn(table, y) < PlaceIn(table, x)
    <3>1. PICK i \in 1..Len(running) : running[i] = y
      BY <1>1
    <3>2. ~ (PlaceIn(table, y) > PlaceIn(table, x))
      BY <1>1, <1>3, <3>1 DEF Place
    <3>3. y \in Scripts /\ y # x
      BY <1>1
    <3>4. PlaceIn(table, y) # PlaceIn(table, x)
          /\ PlaceIn(table, y) \in Nat /\ PlaceIn(table, x) \in Nat
      BY <1>2, <3>3
    <3> QED BY <3>2, <3>4
  <2>2. Lists(Append(running, x), table, S \cup {x})
    BY <2>1, OneMore
  <2> QED BY <1>3, <2>2 DEF AddRunningScript
<1>4. CASE later # {}
  <2>1. later \subseteq Nat
    BY <1>1
  <2>2. Min(later) \in later /\ \A j \in later : Min(later) <= j
    BY <1>4, <2>1, LeastNumber
  <2> DEFINE n == Min(later)
  <2>3. /\ n \in 1..Len(running) /\ PlaceIn(table, running[n]) > PlaceIn(table, x)
        /\ \A i \in 1..Len(running) : i < n => ~ (PlaceIn(table, running[i]) > PlaceIn(table, x))
    <3>1. \A j \in later : j \in Nat /\ ~ (j < n)
      BY <2>1, <2>2
    <3> QED BY <1>1, <2>2, <3>1 DEF Place
  <2>4. AddRunningScript(x) = InsertAt(running, n, x)
    BY <1>4 DEF AddRunningScript
  <2> HIDE DEF n, later
  <2>5. \A i \in 1..(n - 1) : ~ (PlaceIn(table, running[i]) > PlaceIn(table, x))
    BY <1>1, <2>3
  <2> QED BY <2>3, <2>4, <2>5, Inserted
<1> QED BY <1>3, <1>4

\* What is left without one of its scripts.
LEMMA RemoveFacts ==
    ASSUME NEW list \in Seq(Scripts), NEW n \in 1..Len(list)
    PROVE  /\ RemoveAt(list, n) \in Seq(Scripts)
           /\ Len(RemoveAt(list, n)) = Len(list) - 1
           /\ \A i \in 1..(n - 1) : RemoveAt(list, n)[i] = list[i]
           /\ \A i \in n..(Len(list) - 1) : RemoveAt(list, n)[i] = list[i + 1]
<1> DEFINE a == SubSeq(list, 1, n - 1)
           b == SubSeq(list, n + 1, Len(list))
<1>1. /\ a \in Seq(Scripts) /\ Len(a) = n - 1
      /\ \A i \in 1..(n - 1) : a[i] = list[i]
  OBVIOUS
<1>2. /\ b \in Seq(Scripts) /\ Len(b) = Len(list) - n
      /\ \A i \in 1..(Len(list) - n) : b[i] = list[n + 1 + i - 1]
  OBVIOUS
<1> HIDE DEF a, b
<1> DEFINE new == a \o b
<1>3. new \in Seq(Scripts)
  BY <1>1, <1>2
<1>4. /\ Len(new) = Len(a) + Len(b)
      /\ \A i \in 1..Len(a) : new[i] = a[i]
      /\ \A i \in 1..Len(b) : new[Len(a) + i] = b[i]
  <2>1. IsSeq(a) /\ IsSeq(b)
    BY <1>1, <1>2 DEF IsSeq
  <2> QED BY <2>1, Concat
<1> HIDE DEF new
<1>5. Len(new) = Len(list) - 1 /\ \A i \in 1..(n - 1) : new[i] = list[i]
  BY <1>1, <1>2, <1>4
<1>6. ASSUME NEW i \in n..(Len(list) - 1) PROVE new[i] = list[i + 1]
  <2>1. i - n + 1 \in 1..(Len(list) - n) /\ (n - 1) + (i - n + 1) = i
        /\ n + 1 + (i - n + 1) - 1 = i + 1
    OBVIOUS
  <2>2. new[Len(a) + (i - n + 1)] = b[i - n + 1]
    BY <1>2, <1>4, <2>1
  <2>3. b[i - n + 1] = list[n + 1 + (i - n + 1) - 1]
    BY <1>2, <2>1
  <2> QED BY <1>1, <2>1, <2>2, <2>3
<1>7. new = RemoveAt(list, n)
  BY DEF new, a, b, RemoveAt
<1> QED BY <1>3, <1>5, <1>6, <1>7

\* What is left when one place of a list is taken out.
LEMMA Removed ==
    ASSUME NEW tbl, Perm(tbl), NEW list, NEW S, Lists(list, tbl, S),
           NEW n \in 1..Len(list)
    PROVE  Lists(RemoveAt(list, n), tbl, S \ {list[n]})
<1> DEFINE new == RemoveAt(list, n)
<1>1. /\ list \in Seq(Scripts) /\ Len(list) \in Nat /\ S \subseteq Scripts
      /\ \A i \in 1..Len(list) : list[i] \in S
      /\ \A y \in S : \E i \in 1..Len(list) : list[i] = y
      /\ \A i, j \in 1..Len(list) : i < j => PlaceIn(tbl, list[i]) < PlaceIn(tbl, list[j])
  BY ListFacts DEF Lists
<1>2. /\ new \in Seq(Scripts) /\ Len(new) = Len(list) - 1
      /\ \A i \in 1..(n - 1) : new[i] = list[i]
      /\ \A i \in n..(Len(list) - 1) : new[i] = list[i + 1]
  BY <1>1, RemoveFacts
<1> HIDE DEF new
<1>3. \A i \in 1..Len(list) : PlaceIn(tbl, list[i]) \in Nat
  <2>1. \A i \in 1..Len(list) : list[i] \in Scripts
    BY <1>1
  <2> QED BY <2>1, PlaceOf
<1>4. \A i \in 1..Len(list) : i # n => list[i] # list[n]
  <2> SUFFICES ASSUME NEW i \in 1..Len(list), i # n PROVE list[i] # list[n]
    OBVIOUS
  <2>1. i < n \/ n < i
    BY <1>1
  <2>2. PlaceIn(tbl, list[i]) # PlaceIn(tbl, list[n])
    BY <1>1, <1>3, <2>1
  <2> QED BY <2>2
<1> DEFINE Old(i) == IF i < n THEN i ELSE i + 1
<1>5. ASSUME NEW i \in 1..Len(new)
      PROVE  Old(i) \in 1..Len(list) /\ Old(i) # n /\ new[i] = list[Old(i)]
  <2>1. CASE i < n
    <3>1. i \in 1..(n - 1)
      BY <1>1, <2>1
    <3> QED BY <1>1, <1>2, <2>1, <3>1
  <2>2. CASE ~ (i < n)
    <3>1. i \in n..(Len(list) - 1)
      BY <1>1, <1>2, <2>2
    <3> QED BY <1>1, <1>2, <2>2, <3>1
  <2> QED BY <2>1, <2>2
<1>6. ASSUME NEW i \in 1..Len(new), NEW j \in 1..Len(new), i < j
      PROVE  PlaceIn(tbl, new[i]) < PlaceIn(tbl, new[j])
  <2>1. Old(i) < Old(j)
    BY <1>1, <1>2, <1>6
  <2> HIDE DEF Old
  <2> QED BY <1>1, <1>5, <2>1
<1>7. \A i \in 1..Len(new) : new[i] \in S \ {list[n]}
  <2> HIDE DEF Old
  <2> QED BY <1>1, <1>4, <1>5
<1>8. ASSUME NEW y \in S \ {list[n]} PROVE \E i \in 1..Len(new) : new[i] = y
  <2>1. PICK i \in 1..Len(list) : list[i] = y /\ i # n
    BY <1>1
  <2>2. CASE i < n
    <3>1. i \in 1..(n - 1) /\ i \in 1..Len(new)
      BY <1>1, <1>2, <2>2
    <3> QED BY <1>2, <2>1, <3>1
  <2>3. CASE i > n
    <3>1. i - 1 \in n..(Len(list) - 1) /\ i - 1 \in 1..Len(new) /\ (i - 1) + 1 = i
      BY <1>1, <1>2, <2>3
    <3>2. new[i - 1] = list[(i - 1) + 1]
      BY <1>2, <3>1
    <3> QED BY <2>1, <3>1, <3>2
  <2> QED BY <1>1, <2>1, <2>2, <2>3
<1>9. Lists(new, tbl, S \ {list[n]})
  BY <1>2, <1>6, <1>7, <1>8, MakesList
<1> QED BY <1>9 DEF new

\* RemoveRunningScript takes out one script and no other.
LEMMA ScriptLeaves ==
    ASSUME Perm(table), NEW S, Lists(running, table, S), NEW x \in S
    PROVE  Lists(RemoveRunningScript(x), table, S \ {x})
<1> DEFINE I == {i \in 1..Len(running) : running[i] = x}
<1>1. Len(running) \in Nat /\ \E i \in 1..Len(running) : running[i] = x
  BY ListFacts
<1>2. I # {} /\ I \subseteq Nat
  BY <1>1
<1>3. RemoveRunningScript(x) = RemoveAt(running, Min(I))
  BY <1>1, <1>2 DEF RemoveRunningScript, RemoveFirst, SelectInSeq
<1>4. Min(I) \in I
  BY <1>2, LeastNumber
<1>5. Min(I) \in 1..Len(running) /\ running[Min(I)] = x
  BY <1>4
<1> HIDE DEF I
<1> QED BY <1>3, <1>5, Removed

-----------------------------------------------------------------------------
\* The shape of the stack.

Closings == {"stop", "started"}

\* What may lie directly above a task.
Link(tbl, m, a, t) ==
    /\ t.do = "start" => a.do = "stop" /\ a.s = t.s /\ t.alone
    /\ t.do = "started" => a.do = "call" /\ a.s = t.s /\ a.why = "main"
    /\ t.do = "stop" => a.do = "call" /\ a.s = t.s /\ a.why = "last"
    /\ t.do = "startFrom" =>
          a.do = "stopAll" \/ (a.do \in {"start", "started"} /\ ~a.alone)
    /\ t.do = "round" =>
          /\ a.do = "call"
          /\ ~m => \A y \in ToSet(t.rest) : PlaceIn(tbl, a.s) < PlaceIn(tbl, y)

Plain(t) == t.do \notin {"start", "started", "stop", "startFrom", "round"}

Linked(tbl, m, w) == \A i \in 2..Len(w) : Link(tbl, m, w[i - 1], w[i])

\* What may lie anywhere below a task.
Beneath(m, a, b) ==
    /\ a.do \in Closings /\ b.do \in Closings \cup {"call"} => a.s # b.s
    /\ a.do \in {"stopAll", "startFrom"} =>
          b.do \notin {"call", "start", "started", "stop", "stopAll"}
    /\ a.do = "startFrom" => b.do # "startFrom"
    /\ m /\ a.do = "round" => b.do # "round"

Layered(m, w) == \A i, j \in 1..Len(w) : i < j => Beneath(m, w[i], w[j])

\* The tasks of a stack.
LEMMA SetOf ==
    /\ ToSet(<<>>) = {}
    /\ \A a : ToSet(<<a>>) = {a}
    /\ \A a, b : ToSet(<<a, b>>) = {a, b}
    /\ \A w : IsSeq(w) => /\ Len(w) \in Nat /\ ToSet(w) = {w[i] : i \in 1..Len(w)}
                          /\ \A i \in 1..Len(w) : w[i] \in ToSet(w)
<1>1. ASSUME NEW w, IsSeq(w)
      PROVE  /\ Len(w) \in Nat /\ ToSet(w) = {w[i] : i \in 1..Len(w)}
             /\ \A i \in 1..Len(w) : w[i] \in ToSet(w)
  <2>1. PICK S : w \in Seq(S)
    BY <1>1 DEF IsSeq
  <2> QED BY <2>1 DEF ToSet
<1>2. ToSet(<<>>) = {}
  BY DEF ToSet
<1>3. ASSUME NEW a PROVE ToSet(<<a>>) = {a}
  BY DEF ToSet
<1>4. ASSUME NEW a, NEW b PROVE ToSet(<<a, b>>) = {a, b}
  <2>1. DOMAIN <<a, b>> = {1, 2} /\ (<<a, b>>)[1] = a /\ (<<a, b>>)[2] = b
    OBVIOUS
  <2> QED BY <2>1 DEF ToSet
<1> QED BY <1>1, <1>2, <1>3, <1>4

LEMMA SetOfConcat ==
    ASSUME NEW u, NEW w, IsSeq(u), IsSeq(w)
    PROVE  ToSet(u \o w) = ToSet(u) \cup ToSet(w)
<1> DEFINE v == u \o w
<1>1. /\ IsSeq(v) /\ Len(v) = Len(u) + Len(w) /\ Len(u) \in Nat /\ Len(w) \in Nat
      /\ \A i \in 1..Len(u) : v[i] = u[i]
      /\ \A i \in 1..Len(w) : v[Len(u) + i] = w[i]
  BY Concat
<1> HIDE DEF v
<1>2. /\ ToSet(v) = {v[i] : i \in 1..Len(v)}
      /\ ToSet(u) = {u[i] : i \in 1..Len(u)}
      /\ ToSet(w) = {w[i] : i \in 1..Len(w)}
  BY <1>1, SetOf
<1>3. ASSUME NEW i \in 1..Len(v) PROVE v[i] \in ToSet(u) \cup ToSet(w)
  <2>1. CASE i \in 1..Len(u)
    BY <1>1, <1>2, <2>1
  <2>2. CASE i \notin 1..Len(u)
    <3>1. i - Len(u) \in 1..Len(w) /\ Len(u) + (i - Len(u)) = i
      BY <1>1, <2>2
    <3>2. v[i] = w[i - Len(u)]
      BY <1>1, <3>1
    <3> QED BY <1>2, <3>1, <3>2
  <2> QED BY <2>1, <2>2
<1>4. ToSet(v) \subseteq ToSet(u) \cup ToSet(w)
  BY <1>2, <1>3
<1>5. ToSet(u) \subseteq ToSet(v)
  <2>1. \A i \in 1..Len(u) : i \in 1..Len(v)
    BY <1>1
  <2> QED BY <1>1, <1>2, <2>1
<1>6. ToSet(w) \subseteq ToSet(v)
  <2>1. \A i \in 1..Len(w) : Len(u) + i \in 1..Len(v)
    BY <1>1
  <2> QED BY <1>1, <1>2, <2>1
<1>7. ToSet(v) = ToSet(u) \cup ToSet(w)
  BY <1>4, <1>5, <1>6
<1> QED BY <1>7 DEF v

\* Two stacks, one above the other.
LEMMA JoinLinked ==
    ASSUME NEW tbl, NEW m, NEW u, NEW w, IsSeq(u), IsSeq(w),
           Linked(tbl, m, u), Linked(tbl, m, w),
           Len(u) > 0 /\ w # <<>> => Link(tbl, m, u[Len(u)], Head(w))
    PROVE  Linked(tbl, m, u \o w)
<1> DEFINE v == u \o w
<1>1. /\ Len(v) = Len(u) + Len(w) /\ Len(u) \in Nat /\ Len(w) \in Nat
      /\ \A i \in 1..Len(u) : v[i] = u[i]
      /\ \A i \in 1..Len(w) : v[Len(u) + i] = w[i]
  BY Concat
<1> HIDE DEF v
<1>2. Len(w) > 0 => w # <<>> /\ Head(w) = w[1]
  <2>1. w = <<>> => Len(w) = Len(<<>>)
    BY Zenon
  <2> QED BY <1>1, <2>1, TailSeq
<1>3. ASSUME NEW i \in 2..Len(v)
      PROVE  Link(tbl, m, v[i - 1], v[i])
  <2>1. CASE i <= Len(u)
    <3>1. i \in 2..Len(u) /\ i \in 1..Len(u) /\ i - 1 \in 1..Len(u)
      BY <1>1, <2>1
    <3> QED BY <1>1, <3>1 DEF Linked
  <2>2. CASE i = Len(u) + 1
    <3>1. Len(u) > 0 /\ Len(w) > 0 /\ 1 \in 1..Len(w) /\ i - 1 = Len(u)
          /\ Len(u) \in 1..Len(u)
      BY <1>1, <2>2
    <3>2. v[i] = Head(w) /\ v[i - 1] = u[Len(u)]
      BY <1>1, <1>2, <2>2, <3>1
    <3> QED BY <1>2, <3>1, <3>2
  <2>3. CASE i > Len(u) + 1
    <3> DEFINE k == i - Len(u)
    <3>1. k \in 2..Len(w) /\ k \in 1..Len(w) /\ k - 1 \in 1..Len(w)
          /\ Len(u) + k = i /\ Len(u) + (k - 1) = i - 1
      BY <1>1, <2>3
    <3> HIDE DEF k
    <3>2. v[i] = w[k] /\ v[i - 1] = w[k - 1]
      BY <1>1, <3>1
    <3> QED BY <3>1, <3>2 DEF Linked
  <2> QED BY <1>1, <2>1, <2>2, <2>3
<1>4. Linked(tbl, m, v)
  BY <1>3 DEF Linked
<1> QED BY <1>4 DEF v

LEMMA JoinLayered ==
    ASSUME NEW m, NEW u, NEW w, IsSeq(u), IsSeq(w),
           Layered(m, u), Layered(m, w),
           \A a \in ToSet(u), b \in ToSet(w) : Beneath(m, a, b)
    PROVE  Layered(m, u \o w)
<1> DEFINE v == u \o w
<1>1. /\ Len(v) = Len(u) + Len(w) /\ Len(u) \in Nat /\ Len(w) \in Nat
      /\ \A i \in 1..Len(u) : v[i] = u[i]
      /\ \A i \in 1..Len(w) : v[Len(u) + i] = w[i]
  BY Concat
<1>2. (\A i \in 1..Len(u) : u[i] \in ToSet(u)) /\ (\A i \in 1..Len(w) : w[i] \in ToSet(w))
  BY SetOf
<1> HIDE DEF v
<1>3. ASSUME NEW i \in 1..Len(v), NEW j \in 1..Len(v), i < j
      PROVE  Beneath(m, v[i], v[j])
  <2>1. CASE j <= Len(u)
    <3>1. i \in 1..Len(u) /\ j \in 1..Len(u)
      BY <1>1, <1>3, <2>1
    <3> QED BY <1>1, <1>3, <3>1 DEF Layered
  <2>2. CASE i <= Len(u) /\ j > Len(u)
    <3>1. i \in 1..Len(u) /\ j - Len(u) \in 1..Len(w) /\ Len(u) + (j - Len(u)) = j
      BY <1>1, <2>2
    <3>2. v[i] = u[i] /\ v[j] = w[j - Len(u)]
      BY <1>1, <3>1
    <3> QED BY <1>2, <3>1, <3>2
  <2>3. CASE i > Len(u)
    <3>1. /\ i - Len(u) \in 1..Len(w) /\ Len(u) + (i - Len(u)) = i
          /\ j - Len(u) \in 1..Len(w) /\ Len(u) + (j - Len(u)) = j
          /\ i - Len(u) < j - Len(u)
      BY <1>1, <1>3, <2>3
    <3>2. v[i] = w[i - Len(u)] /\ v[j] = w[j - Len(u)]
      BY <1>1, <3>1
    <3> QED BY <3>1, <3>2 DEF Layered
  <2> QED BY <1>1, <2>1, <2>2, <2>3
<1>4. Layered(m, v)
  BY <1>3 DEF Layered
<1> QED BY <1>4 DEF v

LEMMA ShortStacks ==
    ASSUME NEW tbl, NEW m, NEW a, NEW b
    PROVE  /\ Linked(tbl, m, <<>>) /\ Linked(tbl, m, <<a>>)
           /\ Link(tbl, m, a, b) => Linked(tbl, m, <<a, b>>)
           /\ Layered(m, <<>>) /\ Layered(m, <<a>>)
           /\ Beneath(m, a, b) => Layered(m, <<a, b>>)
<1>1. Linked(tbl, m, <<>>) /\ Linked(tbl, m, <<a>>)
  BY DEF Linked
<1>2. Link(tbl, m, a, b) => Linked(tbl, m, <<a, b>>)
  <2>1. Len(<<a, b>>) = 2 /\ (<<a, b>>)[1] = a /\ (<<a, b>>)[2] = b
    OBVIOUS
  <2>2. \A i \in 2..2 : i = 2 /\ i - 1 = 1
    OBVIOUS
  <2> QED BY <2>1, <2>2 DEF Linked
<1>3. Layered(m, <<>>) /\ Layered(m, <<a>>)
  BY DEF Layered
<1>4. Beneath(m, a, b) => Layered(m, <<a, b>>)
  <2>1. Len(<<a, b>>) = 2 /\ (<<a, b>>)[1] = a /\ (<<a, b>>)[2] = b
    OBVIOUS
  <2>2. \A i, j \in 1..2 : i < j => i = 1 /\ j = 2
    OBVIOUS
  <2> QED BY <2>1, <2>2 DEF Layered
<1> QED BY <1>1, <1>2, <1>3, <1>4

LEMMA SetOfTail ==
    ASSUME NEW w, IsSeq(w), w # <<>>
    PROVE  ToSet(w) = {Head(w)} \cup ToSet(Tail(w))
<1> DEFINE v == Tail(w)
<1>1. /\ IsSeq(v) /\ Len(w) \in Nat /\ Len(w) > 0 /\ Len(v) = Len(w) - 1
      /\ Head(w) = w[1]
      /\ \A i \in 1..(Len(w) - 1) : v[i] = w[i + 1]
  BY TailSeq
<1> HIDE DEF v
<1>2. ToSet(w) = {w[i] : i \in 1..Len(w)} /\ ToSet(v) = {v[i] : i \in 1..Len(v)}
  BY <1>1, SetOf
<1>3. ToSet(w) = {Head(w)} \cup ToSet(v)
  <2>1. ASSUME NEW i \in 1..Len(w) PROVE w[i] \in {Head(w)} \cup ToSet(v)
    <3>1. CASE i = 1
      BY <1>1, <3>1
    <3>2. CASE i # 1
      <4>1. i - 1 \in 1..Len(v) /\ (i - 1) + 1 = i
        BY <1>1, <3>2
      <4>2. v[i - 1] = w[i]
        BY <1>1, <4>1
      <4> QED BY <1>2, <4>1, <4>2
    <3> QED BY <3>1, <3>2
  <2>2. ASSUME NEW i \in 1..Len(v) PROVE v[i] \in ToSet(w)
    <3>1. i + 1 \in 1..Len(w) /\ v[i] = w[i + 1]
      BY <1>1
    <3> QED BY <1>2, <3>1
  <2>3. Head(w) \in ToSet(w)
    BY <1>1, <1>2
  <2> QED BY <1>2, <2>1, <2>2, <2>3
<1> QED BY <1>3 DEF v

\* The head of a stack and what is below it.
LEMMA Below ==
    ASSUME NEW tbl, NEW m, NEW w, IsSeq(w), w # <<>>, Linked(tbl, m, w), Layered(m, w)
    PROVE  /\ IsSeq(Tail(w)) /\ Linked(tbl, m, Tail(w)) /\ Layered(m, Tail(w))
           /\ ToSet(w) = {Head(w)} \cup ToSet(Tail(w))
           /\ Tail(w) # <<>> => Link(tbl, m, Head(w), Head(Tail(w)))
           /\ \A b \in ToSet(Tail(w)) : Beneath(m, Head(w), b)
<1> DEFINE v == Tail(w)
<1>1. /\ IsSeq(v) /\ Len(w) \in Nat /\ Len(w) > 0 /\ Len(v) = Len(w) - 1
      /\ Head(w) = w[1]
      /\ \A i \in 1..(Len(w) - 1) : v[i] = w[i + 1]
  BY TailSeq
<1>3. ToSet(w) = {Head(w)} \cup ToSet(v)
  BY SetOfTail
<1> HIDE DEF v
<1>2. ToSet(w) = {w[i] : i \in 1..Len(w)} /\ ToSet(v) = {v[i] : i \in 1..Len(v)}
  BY <1>1, SetOf
<1>4. Linked(tbl, m, v)
  <2> SUFFICES ASSUME NEW i \in 2..Len(v) PROVE Link(tbl, m, v[i - 1], v[i])
    BY DEF Linked
  <2>1. i + 1 \in 2..Len(w) /\ i \in 1..(Len(w) - 1) /\ i - 1 \in 1..(Len(w) - 1)
        /\ (i - 1) + 1 = (i + 1) - 1
    BY <1>1
  <2>2. v[i] = w[i + 1] /\ v[i - 1] = w[(i + 1) - 1]
    BY <1>1, <2>1
  <2> QED BY <2>1, <2>2 DEF Linked
<1>5. Layered(m, v)
  <2> SUFFICES ASSUME NEW i \in 1..Len(v), NEW j \in 1..Len(v), i < j
               PROVE  Beneath(m, v[i], v[j])
    BY DEF Layered
  <2>1. i + 1 \in 1..Len(w) /\ j + 1 \in 1..Len(w) /\ i + 1 < j + 1
        /\ v[i] = w[i + 1] /\ v[j] = w[j + 1]
    BY <1>1
  <2> QED BY <2>1 DEF Layered
<1>6. v # <<>> => Link(tbl, m, Head(w), Head(v))
  <2> SUFFICES ASSUME v # <<>> PROVE Link(tbl, m, Head(w), Head(v))
    OBVIOUS
  <2>1. Len(v) > 0 /\ Head(v) = v[1]
    BY <1>1, TailSeq
  <2>2. 2 \in 2..Len(w) /\ v[1] = w[2] /\ 2 - 1 = 1
    <3>1. 1 \in 1..(Len(w) - 1) /\ 1 + 1 = 2
      BY <1>1, <2>1
    <3>2. v[1] = w[1 + 1]
      BY <1>1, <3>1
    <3> QED BY <1>1, <2>1, <3>1, <3>2
  <2>3. Link(tbl, m, w[2 - 1], w[2])
    BY <2>2 DEF Linked
  <2> QED BY <1>1, <2>1, <2>2, <2>3
<1>7. ASSUME NEW b \in ToSet(v) PROVE Beneath(m, Head(w), b)
  <2>1. PICK i \in 1..Len(v) : v[i] = b
    BY <1>2
  <2>2. 1 \in 1..Len(w) /\ i + 1 \in 1..Len(w) /\ 1 < i + 1 /\ b = w[i + 1]
    BY <1>1, <2>1
  <2> QED BY <1>1, <2>2 DEF Layered
<1> QED BY <1>1, <1>3, <1>4, <1>5, <1>6, <1>7 DEF v

\* The scripts that tasks of some kinds are about.
NamesOf(E, kinds) == {t.s : t \in {r \in E : r.do \in kinds}}
Has(E, do) == \E t \in E : t.do = do

LEMMA NamesOfSome ==
    /\ \A E : NamesOf(E, {"stop"}) \subseteq NamesOf(E, Closings)
    /\ \A E, kinds : \A t \in E : t.do \in kinds => t.s \in NamesOf(E, kinds)
    /\ \A E, kinds : \A x \in NamesOf(E, kinds) : \E t \in E : t.do \in kinds /\ t.s = x
BY DEF NamesOf, Closings

\* A start below the head lies under a stop.
LEMMA StartsUnderStops ==
    ASSUME NEW tbl, NEW m, NEW w, IsSeq(w), Linked(tbl, m, w)
    PROVE  \A i \in 1..Len(w) : w[i].do = "start" /\ i # 1 =>
               i - 1 \in 1..Len(w) /\ w[i - 1].do = "stop" /\ w[i - 1].s = w[i].s /\ w[i].alone
<1>1. Len(w) \in Nat
  BY SetOf
<1>2. \A i \in 1..Len(w) : i # 1 => i \in 2..Len(w) /\ i - 1 \in 1..Len(w)
  BY <1>1
<1> QED BY <1>2 DEF Linked, Link

\* Below the head a start is that of a script about to be stopped.
LEMMA TailStarts ==
    ASSUME NEW tbl, NEW m, NEW w, IsSeq(w), w # <<>>, Linked(tbl, m, w)
    PROVE  NamesOf(ToSet(Tail(w)), {"start"}) \subseteq NamesOf(ToSet(w), {"stop"})
<1> SUFFICES ASSUME NEW x \in NamesOf(ToSet(Tail(w)), {"start"})
             PROVE  x \in NamesOf(ToSet(w), {"stop"})
  OBVIOUS
<1>1. PICK t \in ToSet(Tail(w)) : t.do = "start" /\ t.s = x
  BY NamesOfSome
<1>2. /\ IsSeq(Tail(w)) /\ Len(w) \in Nat /\ Len(Tail(w)) = Len(w) - 1
      /\ \A i \in 1..(Len(w) - 1) : Tail(w)[i] = w[i + 1]
  BY TailSeq
<1>3. PICK k \in 1..Len(Tail(w)) : Tail(w)[k] = t
  <2>1. ToSet(Tail(w)) = {Tail(w)[k] : k \in 1..Len(Tail(w))}
    BY <1>2, SetOf
  <2> QED BY <1>1, <2>1
<1>4. k + 1 \in 1..Len(w) /\ k + 1 # 1 /\ w[k + 1] = t /\ k \in 1..Len(w) /\ (k + 1) - 1 = k
  BY <1>2, <1>3
<1>5. w[k].do = "stop" /\ w[k].s = x
  BY <1>1, <1>4, StartsUnderStops
<1>6. w[k] \in ToSet(w)
  BY <1>4, SetOf
<1> QED BY <1>5, <1>6, NamesOfSome

\* Closing states changes what walks owe and nothing else.
Lessened(t, r, xs) ==
    \/ r = t /\ t.do # "round"
    \/ /\ t.do = "round" /\ r.do = "round" /\ r.kind = t.kind
       /\ r.rest = t.rest /\ r.due = t.due \ xs

LEMMA OtherDue ==
    ASSUME NEW t, Walk(t), t.do = "round", NEW xs, NEW u, u = [t EXCEPT !.due = t.due \ xs]
    PROVE  Lessened(t, u, xs)
<1>1. PICK kind, rest, due : t = Round(kind, rest, due)
  BY DEF Walk
<1>2. t.due = due
  BY <1>1 DEF Round
<1>3. PICK z : z = due \ xs
  OBVIOUS
<1>4. u = [t EXCEPT !.due = z]
  BY <1>2, <1>3
<1>5. u = Round(kind, rest, z)
  BY <1>1, <1>4 DEF Round
<1> QED BY <1>1, <1>3, <1>5 DEF Round, Lessened

LEMMA ForgetsTask ==
    ASSUME NEW w, NEW xs, Stack(w)
    PROVE  /\ IsSeq(Forgets(w, xs)) /\ Len(Forgets(w, xs)) = Len(w) /\ Len(w) \in Nat
           /\ \A i \in 1..Len(w) : Lessened(w[i], Forgets(w, xs)[i], xs)
           /\ Forgets(w, xs) # <<>> => w # <<>> /\ Lessened(Head(w), Head(Forgets(w, xs)), xs)
<1> DEFINE v == Forgets(w, xs)
<1>1. PICK S : w \in Seq(S)
  BY DEF Stack, IsSeq
<1>2. Len(w) \in Nat /\ DOMAIN w = 1..Len(w)
  BY <1>1
<1>3. v = [i \in 1..Len(w) |-> v[i]]
  BY <1>2 DEF Forgets
<1>4. v \in Seq({v[i] : i \in 1..Len(w)}) /\ Len(v) = Len(w)
  BY <1>2, <1>3
<1>5. IsSeq(v)
  BY <1>4 DEF IsSeq
<1>6. ASSUME NEW i \in 1..Len(w) PROVE Lessened(w[i], v[i], xs)
  <2>1. CASE w[i].do = "round"
    <3>1. v[i] = [w[i] EXCEPT !.due = @ \ xs]
      BY <1>2, <2>1 DEF Forgets
    <3>2. Walk(w[i])
      BY DEF Stack, Ordered
    <3>3. v[i] = [w[i] EXCEPT !.due = w[i].due \ xs]
      BY <3>1
    <3> HIDE DEF v
    <3> QED BY <2>1, <3>2, <3>3, OtherDue
  <2>2. CASE w[i].do # "round"
    <3>1. v[i] = w[i]
      BY <1>2, <2>2 DEF Forgets
    <3> QED BY <2>2, <3>1 DEF Lessened
  <2> QED BY <2>1, <2>2
<1> HIDE DEF v
<1>7. v # <<>> => w # <<>> /\ Lessened(Head(w), Head(v), xs)
  <2> SUFFICES ASSUME v # <<>> PROVE w # <<>> /\ Lessened(Head(w), Head(v), xs)
    OBVIOUS
  <2>1. Len(v) > 0 /\ Head(v) = v[1]
    BY <1>5, TailSeq
  <2>2. w # <<>>
    <3>1. w = <<>> => Len(w) = Len(<<>>)
      BY Zenon
    <3>2. Len(<<>>) = 0
      OBVIOUS
    <3> QED BY <1>4, <2>1, <3>1, <3>2
  <2>3. Head(w) = w[1] /\ 1 \in 1..Len(w)
    BY <1>2, <1>4, <2>1, <2>2, TailSeq DEF Stack
  <2> QED BY <1>6, <2>1, <2>2, <2>3
<1> QED BY <1>2, <1>4, <1>5, <1>6, <1>7 DEF v

\* The shape of the stack is that before a state was closed.
LEMMA ForgetsShape ==
    ASSUME NEW w, NEW xs, Stack(w), NEW tbl, NEW m, Linked(tbl, m, w), Layered(m, w)
    PROVE  /\ Linked(tbl, m, Forgets(w, xs)) /\ Layered(m, Forgets(w, xs))
           /\ \A kinds : "round" \notin kinds =>
                 NamesOf(ToSet(Forgets(w, xs)), kinds) = NamesOf(ToSet(w), kinds)
           /\ \A r \in ToSet(Forgets(w, xs)) : \E t \in ToSet(w) : Lessened(t, r, xs)
           /\ \A t \in ToSet(w) : \E r \in ToSet(Forgets(w, xs)) : Lessened(t, r, xs)
<1> DEFINE v == Forgets(w, xs)
<1>1. /\ IsSeq(v) /\ Len(v) = Len(w) /\ Len(w) \in Nat
      /\ \A i \in 1..Len(w) : Lessened(w[i], v[i], xs)
  BY ForgetsTask
<1>2. ToSet(w) = {w[i] : i \in 1..Len(w)} /\ ToSet(v) = {v[i] : i \in 1..Len(w)}
  BY <1>1, SetOf DEF Stack
<1> HIDE DEF v
<1>3. Linked(tbl, m, v)
  <2> SUFFICES ASSUME NEW i \in 2..Len(v) PROVE Link(tbl, m, v[i - 1], v[i])
    BY DEF Linked
  <2>1. i \in 1..Len(w) /\ i - 1 \in 1..Len(w) /\ i \in 2..Len(w)
    BY <1>1
  <2>2. Link(tbl, m, w[i - 1], w[i])
    BY <2>1 DEF Linked
  <2>3. Lessened(w[i], v[i], xs) /\ Lessened(w[i - 1], v[i - 1], xs)
    BY <1>1, <2>1
  <2> QED BY <2>2, <2>3 DEF Link, Lessened
<1>4. Layered(m, v)
  <2> SUFFICES ASSUME NEW i \in 1..Len(v), NEW j \in 1..Len(v), i < j
               PROVE  Beneath(m, v[i], v[j])
    BY DEF Layered
  <2>1. Beneath(m, w[i], w[j]) /\ Lessened(w[i], v[i], xs) /\ Lessened(w[j], v[j], xs)
    BY <1>1 DEF Layered
  <2> QED BY <2>1 DEF Beneath, Lessened, Closings
<1>5. ASSUME NEW r \in ToSet(v) PROVE \E t \in ToSet(w) : Lessened(t, r, xs)
  BY <1>1, <1>2
<1>6. ASSUME NEW t \in ToSet(w) PROVE \E r \in ToSet(v) : Lessened(t, r, xs)
  BY <1>1, <1>2
<1>7. ASSUME NEW kinds, "round" \notin kinds
      PROVE  NamesOf(ToSet(v), kinds) = NamesOf(ToSet(w), kinds)
  <2>1. ASSUME NEW t \in ToSet(w), t.do \in kinds PROVE t \in ToSet(v)
    <3>1. PICK r \in ToSet(v) : Lessened(t, r, xs)
      BY <1>6
    <3> QED BY <1>7, <2>1, <3>1 DEF Lessened
  <2>2. ASSUME NEW r \in ToSet(v), r.do \in kinds PROVE r \in ToSet(w)
    <3>1. PICK t \in ToSet(w) : Lessened(t, r, xs)
      BY <1>5
    <3> QED BY <1>7, <2>2, <3>1 DEF Lessened
  <2> QED BY <2>1, <2>2 DEF NamesOf
<1> QED BY <1>3, <1>4, <1>5, <1>6, <1>7 DEF v

-----------------------------------------------------------------------------
\* What is kept.  E stands for the tasks of the stack and R for the scripts
\* of the list.

\* A script has its state from the start of its top-level code to its stop:
\* it is in the list, or about to enter it, or about to be closed, and only
\* one of these.  What is to be closed may be disabled already.
NamesOK(E, R, lv, en) ==
    /\ lv \subseteq Scripts
    /\ lv = R \cup NamesOf(E, Closings)
    /\ R \cap NamesOf(E, Closings) = {}
    /\ lv \subseteq en \cup NamesOf(E, {"stop"})
    /\ NamesOf(E, {"call"}) \subseteq lv
    /\ NamesOf(E, {"start"}) \subseteq en

\* The loop over the table has not come to a script that has its state.
StartsOK(E, tbl, lv) ==
    \A t \in E : t.do = "startFrom" =>
        /\ t.i \in Nat \ {0}
        /\ ~Has(E, "stopAll") =>
              lv \cup NamesOf(E, {"start"}) \subseteq Firsts(tbl, t.i)

\* What a walk owes calls to is still to come in its snapshot, runs or is
\* about to be stopped, and has no mark; without a move the snapshot is in the
\* order of the table.
WalksOK(E, R, tbl, m, marks) ==
    \A t \in E : t.do = "round" =>
        /\ t.rest \in Seq(Scripts)
        /\ t.due \subseteq ToSet(t.rest)
        /\ t.due \subseteq R \cup NamesOf(E, {"stop"})
        /\ m => t.due \cap marks = {}
        /\ ~m => InOrder(t.rest, tbl)

\* The script that is started next has no state.
Fresh(w, lv) == w # <<>> /\ Head(w).do = "start" => Head(w).s \notin lv

Shaped(w, tbl, m) == Linked(tbl, m, w) /\ Layered(m, w)

State(w, tbl, en, lv, run, m, marks) ==
    /\ Perm(tbl) /\ en \subseteq Scripts /\ Lists(run, tbl, ToSet(run))
    /\ Shaped(w, tbl, m)
    /\ NamesOK(ToSet(w), ToSet(run), lv, en)
    /\ StartsOK(ToSet(w), tbl, lv)
    /\ WalksOK(ToSet(w), ToSet(run), tbl, m, marks)
    /\ Fresh(w, lv)

\* Tasks that are put above others.
LEMMA Shapes ==
    ASSUME NEW tbl, NEW m, NEW u, NEW w, IsSeq(u), IsSeq(w),
           Shaped(u, tbl, m), Shaped(w, tbl, m),
           Len(u) > 0 /\ w # <<>> => Link(tbl, m, u[Len(u)], Head(w)),
           \A a \in ToSet(u), b \in ToSet(w) : Beneath(m, a, b)
    PROVE  /\ Shaped(u \o w, tbl, m) /\ ToSet(u \o w) = ToSet(u) \cup ToSet(w)
           /\ Len(u) > 0 => Head(u \o w) = u[1]
<1>1. Shaped(u \o w, tbl, m) /\ ToSet(u \o w) = ToSet(u) \cup ToSet(w)
  BY JoinLinked, JoinLayered, SetOfConcat DEF Shaped
<1>2. ASSUME Len(u) > 0 PROVE Head(u \o w) = u[1]
  <2>1. /\ IsSeq(u \o w) /\ Len(u \o w) = Len(u) + Len(w) /\ Len(u) \in Nat /\ Len(w) \in Nat
        /\ \A i \in 1..Len(u) : (u \o w)[i] = u[i]
    BY Concat
  <2>2. u \o w # <<>>
    <3>1. u \o w = <<>> => Len(u \o w) = Len(<<>>)
      BY Zenon
    <3>2. Len(<<>>) = 0
      OBVIOUS
    <3> QED BY <1>2, <2>1, <3>1, <3>2
  <2> QED BY <1>2, <2>1, <2>2, TailSeq
<1> QED BY <1>1, <1>2

\* One task above others.
LEMMA OnTop ==
    ASSUME NEW tbl, NEW m, NEW a, NEW w, IsSeq(w), Shaped(w, tbl, m),
           w # <<>> => Link(tbl, m, a, Head(w)),
           \A b \in ToSet(w) : Beneath(m, a, b)
    PROVE  /\ IsSeq(<<a>> \o w) /\ Shaped(<<a>> \o w, tbl, m)
           /\ ToSet(<<a>> \o w) = {a} \cup ToSet(w)
           /\ Head(<<a>> \o w) = a
<1> DEFINE u == <<a>>
<1>1. IsSeq(u) /\ Len(u) = 1 /\ u[1] = a /\ ToSet(u) = {a} /\ Shaped(u, tbl, m)
  BY Short, SetOf, ShortStacks DEF Shaped
<1> HIDE DEF u
<1>2. Len(u) > 0 /\ w # <<>> => Link(tbl, m, u[Len(u)], Head(w))
  BY <1>1
<1>3. \A c \in ToSet(u), b \in ToSet(w) : Beneath(m, c, b)
  BY <1>1
<1>4. /\ Shaped(u \o w, tbl, m) /\ ToSet(u \o w) = ToSet(u) \cup ToSet(w)
      /\ Head(u \o w) = u[1]
  <2>1. Linked(tbl, m, u \o w)
    BY <1>1, <1>2, JoinLinked DEF Shaped
  <2>2. Layered(m, u \o w)
    BY <1>1, <1>3, JoinLayered DEF Shaped
  <2>3. ToSet(u \o w) = ToSet(u) \cup ToSet(w)
    BY <1>1, SetOfConcat
  <2>4. Head(u \o w) = u[1]
    BY <1>1, <1>2, <1>3, Shapes
  <2> QED BY <2>1, <2>2, <2>3, <2>4 DEF Shaped
<1>5. IsSeq(u \o w)
  BY <1>1, Concat
<1>6. /\ IsSeq(u \o w) /\ Shaped(u \o w, tbl, m)
      /\ ToSet(u \o w) = {a} \cup ToSet(w) /\ Head(u \o w) = a
  BY <1>1, <1>4, <1>5
<1> QED BY <1>6 DEF u

\* What was below the head, when nothing else has changed.
LEMMA Popping ==
    ASSUME NEW w, Stack(w), w # <<>>, NEW tbl, NEW en, NEW lv, NEW run, NEW m, NEW marks,
           State(w, tbl, en, lv, run, m, marks),
           Head(w).do \notin {"start", "started", "stop", "stopAll"}
    PROVE  State(Tail(w), tbl, en, lv, run, m, marks)
<1> DEFINE h == Head(w)
           t == Tail(w)
           E == ToSet(t)
<1>1. /\ IsSeq(t) /\ Shaped(t, tbl, m)
      /\ ToSet(w) = {h} \cup E
      /\ t # <<>> => Link(tbl, m, h, Head(t))
  BY Below DEF State, Shaped, Stack
<1> HIDE DEF h, t, E
<1>2. h.do \notin {"start", "started", "stop", "stopAll"}
  BY DEF h
<1>3. ASSUME NEW kinds
      PROVE  NamesOf(ToSet(w), kinds)
                = (IF h.do \in kinds THEN {h.s} ELSE {}) \cup NamesOf(E, kinds)
  <2>1. ToSet(w) = {h} \cup E
    BY <1>1
  <2> QED BY <2>1 DEF NamesOf
<1>4. /\ NamesOf(ToSet(w), Closings) = NamesOf(E, Closings)
      /\ NamesOf(ToSet(w), {"stop"}) = NamesOf(E, {"stop"})
      /\ NamesOf(ToSet(w), {"start"}) = NamesOf(E, {"start"})
      /\ NamesOf(E, {"call"}) \subseteq NamesOf(ToSet(w), {"call"})
  BY <1>2, <1>3 DEF Closings
<1>5. NamesOK(E, ToSet(run), lv, en)
  <2>1. NamesOK(ToSet(w), ToSet(run), lv, en)
    BY DEF State
  <2> QED BY <1>4, <2>1 DEF NamesOK
<1>6. StartsOK(E, tbl, lv)
  <2>1. Has(ToSet(w), "stopAll") <=> Has(E, "stopAll")
    BY <1>1, <1>2 DEF Has
  <2>2. StartsOK(ToSet(w), tbl, lv)
    BY DEF State
  <2> QED BY <1>1, <1>4, <2>1, <2>2 DEF StartsOK
<1>7. WalksOK(E, ToSet(run), tbl, m, marks)
  <2>1. WalksOK(ToSet(w), ToSet(run), tbl, m, marks)
    BY DEF State
  <2> QED BY <1>1, <1>4, <2>1 DEF WalksOK
<1>8. Fresh(t, lv)
  BY <1>1, <1>2 DEF Fresh, Link
<1>9. State(t, tbl, en, lv, run, m, marks)
  BY <1>1, <1>5, <1>6, <1>7, <1>8 DEF State, E
<1> QED BY <1>9 DEF t

\* A walk that may be added.
WalkOK(t, E, R, tbl, m, marks) ==
    t.do = "round" =>
        /\ t.rest \in Seq(Scripts)
        /\ t.due \subseteq ToSet(t.rest)
        /\ t.due \subseteq R \cup NamesOf(E, {"stop"})
        /\ m => t.due \cap marks = {} /\ ~Has(E, "round")
        /\ ~m => InOrder(t.rest, tbl)

\* Code, a walk or its beginning, or an event above what lets it be there.
LEMMA Pushing ==
    ASSUME NEW w, IsSeq(w), NEW tbl, NEW en, NEW lv, NEW run, NEW m, NEW marks,
           State(w, tbl, en, lv, run, m, marks),
           NEW a, a.do \in {"call", "round", "begin", "process", "serve", "final"},
           w # <<>> => Link(tbl, m, a, Head(w)),
           a.do = "call" => a.s \in lv,
           WalkOK(a, ToSet(w), ToSet(run), tbl, m, marks)
    PROVE  State(<<a>> \o w, tbl, en, lv, run, m, marks)
<1> DEFINE E == ToSet(w)
           v == <<a>> \o w
<1>1. \A b \in E : Beneath(m, a, b)
  BY DEF Beneath, Closings, WalkOK, Has
<1>2. Shaped(v, tbl, m) /\ ToSet(v) = {a} \cup E /\ Head(v) = a
  <2>1. Shaped(w, tbl, m)
    BY DEF State
  <2> QED BY <1>1, <2>1, OnTop
<1>3. WalkOK(a, E, ToSet(run), tbl, m, marks)
  OBVIOUS
<1> HIDE DEF v, E
<1>4. ASSUME NEW kinds
      PROVE  NamesOf(ToSet(v), kinds)
                = (IF a.do \in kinds THEN {a.s} ELSE {}) \cup NamesOf(E, kinds)
  <2>1. ToSet(v) = {a} \cup E
    BY <1>2
  <2> QED BY <2>1 DEF NamesOf
<1>5. /\ NamesOf(ToSet(v), Closings) = NamesOf(E, Closings)
      /\ NamesOf(ToSet(v), {"stop"}) = NamesOf(E, {"stop"})
      /\ NamesOf(ToSet(v), {"start"}) = NamesOf(E, {"start"})
      /\ NamesOf(ToSet(v), {"call"}) \subseteq lv \cup NamesOf(E, {"call"})
  BY <1>4 DEF Closings
<1>6. NamesOK(ToSet(v), ToSet(run), lv, en)
  <2>1. NamesOK(E, ToSet(run), lv, en)
    BY DEF State, E
  <2> QED BY <1>5, <2>1 DEF NamesOK
<1>7. StartsOK(ToSet(v), tbl, lv)
  <2>1. Has(ToSet(v), "stopAll") <=> Has(E, "stopAll")
    BY <1>2 DEF Has
  <2>2. StartsOK(E, tbl, lv)
    BY DEF State, E
  <2> QED BY <1>2, <1>5, <2>1, <2>2 DEF StartsOK
<1>8. WalksOK(ToSet(v), ToSet(run), tbl, m, marks)
  <2>1. WalksOK(E, ToSet(run), tbl, m, marks)
    BY DEF State, E
  <2> QED BY <1>2, <1>5, <1>3, <2>1 DEF WalksOK, WalkOK
<1>9. Fresh(v, lv)
  BY <1>2 DEF Fresh
<1>10. State(v, tbl, en, lv, run, m, marks)
  BY <1>2, <1>6, <1>7, <1>8, <1>9 DEF State
<1> QED BY <1>10 DEF v

\* Where there is no walk the marks mean nothing.
LEMMA NoWalks ==
    ASSUME NEW w, IsSeq(w), NEW tbl, NEW en, NEW lv, NEW run, NEW m, NEW marks,
           State(w, tbl, en, lv, run, m, marks),
           m => ~Has(ToSet(w), "round"),
           NEW new, new = m \/ ~new, NEW other
    PROVE  State(w, tbl, en, lv, run, new, other)
<1>1. \A t \in ToSet(w) : m => t.do # "round"
  BY DEF Has
<1>2. Len(w) \in Nat /\ \A i \in 1..Len(w) : w[i] \in ToSet(w)
  BY SetOf
<1>3. Linked(tbl, new, w)
  <2> SUFFICES ASSUME NEW i \in 2..Len(w) PROVE Link(tbl, new, w[i - 1], w[i])
    BY DEF Linked
  <2>1. i \in 1..Len(w) /\ Link(tbl, m, w[i - 1], w[i])
    BY <1>2 DEF State, Shaped, Linked
  <2> QED BY <1>1, <1>2, <2>1 DEF Link
<1>4. Layered(new, w)
  <2> SUFFICES ASSUME NEW i \in 1..Len(w), NEW j \in 1..Len(w), i < j
               PROVE  Beneath(new, w[i], w[j])
    BY DEF Layered
  <2>1. Beneath(m, w[i], w[j])
    BY DEF State, Shaped, Layered
  <2> QED BY <2>1, <1>1, <1>2 DEF Beneath
<1>5. WalksOK(ToSet(w), ToSet(run), tbl, new, other)
  <2>1. WalksOK(ToSet(w), ToSet(run), tbl, m, marks)
    BY DEF State
  <2> QED BY <1>1, <2>1 DEF WalksOK
<1> QED BY <1>3, <1>4, <1>5 DEF State, Shaped

-----------------------------------------------------------------------------
\* Starts and stops that are put on the stack.

LEMMA Regroup ==
    ASSUME NEW a, NEW b, NEW c, IsSeq(a), IsSeq(b), IsSeq(c)
    PROVE  (a \o b) \o c = a \o (b \o c)
<1>1. PICK S : a \in Seq(S)
  BY DEF IsSeq
<1>2. PICK T : b \in Seq(T)
  BY DEF IsSeq
<1>3. PICK U : c \in Seq(U)
  BY DEF IsSeq
<1> DEFINE V == S \cup T \cup U
<1>4. a \in Seq(V) /\ b \in Seq(V) /\ c \in Seq(V)
  BY <1>1, <1>2, <1>3
<1> HIDE DEF V
<1> QED BY <1>4

\* A start above what needs nothing there.
LEMMA StartPushed ==
    ASSUME NEW w, IsSeq(w), NEW tbl, NEW en, NEW lv, NEW run, NEW m, NEW marks,
           State(w, tbl, en, lv, run, m, marks),
           w = <<>> \/ Plain(Head(w)),
           NEW x \in Scripts, x \notin lv,
           Has(ToSet(w), "startFrom") => Has(ToSet(w), "stopAll")
    PROVE  State(<<StartOf(x, TRUE)>> \o w, tbl, en \cup {x}, lv, run, m, marks)
<1> DEFINE a == StartOf(x, TRUE)
           E == ToSet(w)
           v == <<a>> \o w
           F == ToSet(v)
<1>1. a.do = "start" /\ a.s = x
  BY DEF StartOf
<1> HIDE DEF a
<1>2. \A b : Beneath(m, a, b)
  BY <1>1 DEF Beneath, Closings
<1>3. w # <<>> => Link(tbl, m, a, Head(w))
  BY DEF Link, Plain
<1>4. Shaped(v, tbl, m) /\ F = {a} \cup E /\ Head(v) = a
  <2>1. Shaped(w, tbl, m)
    BY DEF State
  <2> QED BY <1>2, <1>3, <2>1, OnTop
<1> HIDE DEF v, E, F
<1>5. /\ NamesOf(F, Closings) = NamesOf(E, Closings)
      /\ NamesOf(F, {"stop"}) = NamesOf(E, {"stop"})
      /\ NamesOf(F, {"call"}) = NamesOf(E, {"call"})
      /\ NamesOf(F, {"start"}) = {x} \cup NamesOf(E, {"start"})
  BY <1>1, <1>4 DEF NamesOf, Closings
<1>6. NamesOK(F, ToSet(run), lv, en \cup {x})
  <2>1. NamesOK(E, ToSet(run), lv, en)
    BY DEF State, E
  <2> QED BY <1>5, <2>1 DEF NamesOK
<1>7. StartsOK(F, tbl, lv)
  <2>1. StartsOK(E, tbl, lv)
    BY DEF State, E
  <2>2. Has(E, "startFrom") => Has(E, "stopAll")
    BY DEF E
  <2>3. ASSUME NEW t \in F, t.do = "startFrom"
        PROVE  t.i \in Nat \ {0} /\ Has(F, "stopAll")
    <3>1. t \in E
      BY <1>1, <1>4, <2>3
    <3>2. Has(E, "stopAll")
      BY <2>2, <2>3, <3>1 DEF Has
    <3> QED BY <1>4, <2>1, <2>3, <3>1, <3>2 DEF StartsOK, Has
  <2> QED BY <2>3 DEF StartsOK
<1>8. WalksOK(F, ToSet(run), tbl, m, marks)
  <2>1. WalksOK(E, ToSet(run), tbl, m, marks)
    BY DEF State, E
  <2> QED BY <1>1, <1>4, <1>5, <2>1 DEF WalksOK
<1>9. Fresh(v, lv)
  BY <1>1, <1>4 DEF Fresh
<1>10. State(v, tbl, en \cup {x}, lv, run, m, marks)
  BY <1>4, <1>6, <1>7, <1>8, <1>9 DEF State, F
<1> QED BY <1>10 DEF v, a

\* The end of a script, and perhaps its start after it.
LEMMA StopShape ==
    ASSUME NEW w, IsSeq(w), NEW tbl, NEW m, Shaped(w, tbl, m),
           w = <<>> \/ Plain(Head(w)),
           NEW x, x \notin NamesOf(ToSet(w), Closings), x \notin NamesOf(ToSet(w), {"call"}),
           NEW ts \in {<<>>, <<StartOf(x, TRUE)>>}
    PROVE  LET v == (StopTasks(x) \o ts) \o w
           IN  /\ Shaped(v, tbl, m) /\ Head(v).do # "start"
               /\ \E U : /\ ToSet(v) = U \cup ToSet(w)
                         /\ StopOf(x) \in U
                         /\ U \subseteq {StopOf(x), Call(x, "last"), StartOf(x, TRUE)}
                         /\ ts = <<>> => StartOf(x, TRUE) \notin U
<1> DEFINE a == StartOf(x, TRUE)
           b == StopOf(x)
           c == Call(x, "last")
           w1 == ts \o w
           w2 == <<b>> \o w1
           w3 == <<c>> \o w2
           v == (StopTasks(x) \o ts) \o w
<1>1. /\ a.do = "start" /\ a.s = x /\ a.alone = TRUE /\ b.do = "stop" /\ b.s = x
      /\ c.do = "call" /\ c.s = x /\ c.why = "last" /\ a # b /\ a # c
  BY DEF StartOf, StopOf, Call
<1>2. ts = <<>> \/ ts = <<a>>
  OBVIOUS
<1>3. v = w2 \/ v = w3
  <2>0. IsSeq(ts)
    BY <1>2, Short
  <2> HIDE DEF b, c
  <2>5. <<c, b>> = <<c>> \o <<b>>
    OBVIOUS
  <2>1. /\ IsSeq(ts) /\ IsSeq(<<b>>) /\ IsSeq(<<c>>) /\ IsSeq(<<c, b>>)
        /\ <<c, b>> = <<c>> \o <<b>>
    BY <2>0, <2>5, Short
  <2>2. IsSeq(w1)
    BY <2>1, Concat
  <2>3. (<<b>> \o ts) \o w = w2
    <3> DEFINE B == <<b>>
    <3>1. IsSeq(B)
      BY <2>1
    <3> HIDE DEF B
    <3>2. (B \o ts) \o w = B \o (ts \o w)
      BY <2>0, <3>1, Regroup
    <3> QED BY <3>2 DEF B
  <2>4. (<<c, b>> \o ts) \o w = w3
    <3> DEFINE C == <<c>>
               B == <<b>>
               D == B \o ts
    <3>1. IsSeq(C) /\ IsSeq(B) /\ <<c, b>> = C \o B
      BY <2>1
    <3>2. IsSeq(D)
      BY <2>1, Concat
    <3> HIDE DEF B, C
    <3>3. (C \o B) \o ts = C \o D
      BY <2>0, <3>1, Regroup, SMTT(60)
    <3> HIDE DEF D
    <3>4. (C \o D) \o w = C \o (D \o w)
      BY <3>1, <3>2, Regroup
    <3> QED BY <2>3, <3>1, <3>3, <3>4 DEF C, B, D
  <2> QED BY <2>3, <2>4 DEF StopTasks, b, c
<1> HIDE DEF a, b, c
<1>4. /\ IsSeq(w1) /\ Shaped(w1, tbl, m)
      /\ w1 # <<>> => Link(tbl, m, b, Head(w1))
      /\ \/ ts = <<>> /\ ToSet(w1) = ToSet(w)
         \/ ts # <<>> /\ ToSet(w1) = {a} \cup ToSet(w)
  <2>1. CASE ts = <<>>
    <3>1. w1 = w
      BY <2>1 DEF IsSeq
    <3>2. w # <<>> => Link(tbl, m, b, Head(w))
      BY DEF Link, Plain
    <3> HIDE DEF w1
    <3> QED BY <2>1, <3>1, <3>2
  <2>2. CASE ts = <<a>>
    <3>1. w # <<>> => Link(tbl, m, a, Head(w))
      BY DEF Link, Plain
    <3>2. \A z : Beneath(m, a, z)
      BY <1>1 DEF Beneath, Closings
    <3>3. /\ IsSeq(<<a>> \o w) /\ Shaped(<<a>> \o w, tbl, m)
          /\ ToSet(<<a>> \o w) = {a} \cup ToSet(w)
          /\ Head(<<a>> \o w) = a
      BY <3>1, <3>2, OnTop
    <3>4. Link(tbl, m, b, a)
      BY <1>1 DEF Link
    <3>5. ts # <<>>
      BY <2>2
    <3> QED BY <2>2, <3>3, <3>4, <3>5
  <2> QED BY <1>2, <2>1, <2>2
<1> HIDE DEF w1
<1>5. \A z \in ToSet(w1) : Beneath(m, b, z)
  <2>1. \A z \in ToSet(w) : z.do \in Closings \/ z.do = "call" => z.s # x
    BY DEF NamesOf
  <2>2. \A z \in ToSet(w1) : z \in ToSet(w) \/ z.do = "start"
    BY <1>1, <1>4
  <2> QED BY <1>1, <2>1, <2>2 DEF Beneath, Closings
<1>6. /\ IsSeq(w2) /\ Shaped(w2, tbl, m) /\ Head(w2) = b
      /\ ToSet(w2) = {b} \cup ToSet(w1)
  BY <1>4, <1>5, OnTop
<1> HIDE DEF w2
<1>7. Shaped(w3, tbl, m) /\ Head(w3) = c /\ ToSet(w3) = {c} \cup ToSet(w2)
  <2>1. Link(tbl, m, c, b)
    BY <1>1 DEF Link
  <2>2. \A z : Beneath(m, c, z)
    BY <1>1 DEF Beneath, Closings
  <2> QED BY <1>6, <2>1, <2>2, OnTop
<1> HIDE DEF w3, v
<1>8. Shaped(v, tbl, m) /\ Head(v).do # "start"
  BY <1>1, <1>3, <1>6, <1>7
<1>9. \E U : /\ ToSet(v) = U \cup ToSet(w)
             /\ b \in U /\ U \subseteq {b, c, a}
             /\ ts = <<>> => a \notin U
  <2> DEFINE U == {b} \cup (IF v = w2 THEN {} ELSE {c}) \cup (IF ts = <<>> THEN {} ELSE {a})
  <2>1. ToSet(v) = U \cup ToSet(w)
    <3>1. CASE ts = <<>>
      BY <1>3, <1>4, <1>6, <1>7, <3>1
    <3>2. CASE ts # <<>>
      BY <1>3, <1>4, <1>6, <1>7, <3>2
    <3> QED BY <3>1, <3>2
  <2>2. b \in U /\ U \subseteq {b, c, a} /\ (ts = <<>> => a \notin U)
    BY <1>1
  <2> HIDE DEF U
  <2> QED BY <2>1, <2>2
<1> QED BY <1>8, <1>9 DEF v, a, b, c

\* A script leaves the list and is to be stopped, and perhaps started again.
LEMMA StopPushed ==
    ASSUME NEW w, IsSeq(w), NEW tbl, NEW en, NEW lv, NEW run, NEW m, NEW marks,
           State(w, tbl, en, lv, run, m, marks),
           w = <<>> \/ Plain(Head(w)),
           NEW x \in ToSet(run), x \notin NamesOf(ToSet(w), {"call"}),
           NEW list, Lists(list, tbl, ToSet(run) \ {x}),
           NEW ts \in {<<>>, <<StartOf(x, TRUE)>>},
           NEW now, now = en \/ (now = en \ {x} /\ ts = <<>>),
           ts # <<>> => x \in now
    PROVE  State((StopTasks(x) \o ts) \o w, tbl, now, lv, list, m, marks)
<1> DEFINE v == (StopTasks(x) \o ts) \o w
           E == ToSet(w)
           F == ToSet(v)
           R == ToSet(run)
<1>1. /\ NamesOK(E, R, lv, en) /\ StartsOK(E, tbl, lv) /\ WalksOK(E, R, tbl, m, marks)
      /\ Shaped(w, tbl, m) /\ Perm(tbl) /\ en \subseteq Scripts
  BY DEF State
<1>2. x \notin NamesOf(E, Closings)
  BY <1>1 DEF NamesOK
<1>3. PICK U : /\ F = U \cup E
               /\ StopOf(x) \in U
               /\ U \subseteq {StopOf(x), Call(x, "last"), StartOf(x, TRUE)}
               /\ ts = <<>> => StartOf(x, TRUE) \notin U
  BY <1>1, <1>2, StopShape
<1>4. Shaped(v, tbl, m) /\ Head(v).do # "start"
  BY <1>1, <1>2, StopShape
<1>5. ToSet(list) = R \ {x}
  BY DEF Lists
<1> HIDE DEF v, E, F, R
<1>6. /\ NamesOf(F, Closings) = {x} \cup NamesOf(E, Closings)
      /\ NamesOf(F, {"stop"}) = {x} \cup NamesOf(E, {"stop"})
      /\ NamesOf(F, {"call"}) \subseteq {x} \cup NamesOf(E, {"call"})
      /\ NamesOf(F, {"start"}) \subseteq {x} \cup NamesOf(E, {"start"})
      /\ ts = <<>> => NamesOf(F, {"start"}) = NamesOf(E, {"start"})
  <2>1. /\ StopOf(x).do = "stop" /\ StopOf(x).s = x
        /\ Call(x, "last").do = "call" /\ Call(x, "last").s = x
        /\ StartOf(x, TRUE).do = "start" /\ StartOf(x, TRUE).s = x
    BY DEF StopOf, Call, StartOf
  <2>2. \A t \in U : t.s = x /\ (t.do \in {"stop", "call"} \/ (t.do = "start" /\ ts # <<>>))
    BY <1>3, <2>1
  <2> QED BY <1>3, <2>1, <2>2 DEF NamesOf, Closings
<1>7. \A t \in U : t.do \notin {"startFrom", "round", "stopAll"}
  BY <1>3 DEF StopOf, Call, StartOf
<1>8. x \in lv /\ x \in R /\ R \subseteq lv
  BY <1>1 DEF NamesOK, R
<1>9. x \notin NamesOf(E, {"start"})
  <2> SUFFICES ASSUME x \in NamesOf(E, {"start"}) PROVE FALSE
    OBVIOUS
  <2>1. PICK t \in E : t.do = "start" /\ t.s = x
    BY DEF NamesOf
  <2>2. E = {w[i] : i \in 1..Len(w)} /\ Len(w) \in Nat
    BY SetOf DEF E
  <2>3. PICK i \in 1..Len(w) : w[i] = t
    BY <2>1, <2>2
  <2>4. i # 1
    <3>1. Len(w) > 0
      BY <2>2, <2>3
    <3>2. w # <<>>
      BY <3>1
    <3>3. Head(w) = w[1]
      BY <3>2, TailSeq
    <3> QED BY <2>1, <2>3, <3>2, <3>3 DEF Plain
  <2>5. i - 1 \in 1..Len(w) /\ w[i - 1].do = "stop" /\ w[i - 1].s = x
    BY <1>1, <2>1, <2>3, <2>4, StartsUnderStops DEF Shaped
  <2>6. w[i - 1] \in E
    BY <2>2, <2>5
  <2> QED BY <1>2, <2>5, <2>6 DEF NamesOf, Closings
<1>10. NamesOK(F, ToSet(list), lv, now)
  <2>1. lv = (R \ {x}) \cup ({x} \cup NamesOf(E, Closings))
    BY <1>1, <1>8 DEF NamesOK
  <2>2. (R \ {x}) \cap ({x} \cup NamesOf(E, Closings)) = {}
    BY <1>1 DEF NamesOK
  <2>3. lv \subseteq now \cup ({x} \cup NamesOf(E, {"stop"}))
    BY <1>1 DEF NamesOK
  <2>4. NamesOf(F, {"call"}) \subseteq lv
    BY <1>1, <1>6, <1>8 DEF NamesOK
  <2>5. NamesOf(F, {"start"}) \subseteq now
    BY <1>1, <1>6, <1>9 DEF NamesOK
  <2> QED BY <1>1, <1>5, <1>6, <2>1, <2>2, <2>3, <2>4, <2>5 DEF NamesOK
<1>11. StartsOK(F, tbl, lv)
  <2>1. Has(F, "stopAll") <=> Has(E, "stopAll")
    BY <1>3, <1>7 DEF Has
  <2>2. lv \cup NamesOf(F, {"start"}) \subseteq lv \cup NamesOf(E, {"start"})
    BY <1>6, <1>8
  <2> QED BY <1>1, <1>3, <1>7, <2>1, <2>2 DEF StartsOK
<1>12. WalksOK(F, ToSet(list), tbl, m, marks)
  <2>1. R \cup NamesOf(E, {"stop"}) \subseteq ToSet(list) \cup NamesOf(F, {"stop"})
    BY <1>5, <1>6
  <2> QED BY <1>1, <1>3, <1>7, <2>1 DEF WalksOK
<1>13. Fresh(v, lv)
  BY <1>4 DEF Fresh
<1>14. State(v, tbl, now, lv, list, m, marks)
  <2>1. Lists(list, tbl, ToSet(list))
    BY <1>5 DEF R
  <2>2. now \subseteq Scripts
    BY <1>1
  <2> QED BY <1>1, <1>4, <1>10, <1>11, <1>12, <1>13, <2>1, <2>2 DEF State, F
<1> QED BY <1>14 DEF v

-----------------------------------------------------------------------------
\* The steps of the scripts.

Exact == State(work, table, enabled, live, running, moved, processed)

LEMMA TwoTasks ==
    ASSUME NEW a, NEW b
    PROVE  <<a>> \o <<b>> = <<a, b>>
<1> DEFINE u == <<a>> \o <<b>>
<1>1. <<a>> \in Seq({a, b}) /\ <<b>> \in Seq({a, b})
  OBVIOUS
<1>2. u \in Seq({a, b}) /\ Len(u) = 2 /\ u[1] = a /\ u[2] = b
  BY <1>1
<1> HIDE DEF u
<1>3. u = <<a, b>>
  BY <1>2
<1> QED BY <1>3 DEF u

\* Two tasks above others are one above the other.
LEMMA Pairs ==
    ASSUME NEW w, IsSeq(w), NEW a, NEW b
    PROVE  <<a, b>> \o w = <<a>> \o (<<b>> \o w) /\ IsSeq(<<b>> \o w) /\ <<>> \o w = w
<1> DEFINE A == <<a>>
           B == <<b>>
<1>1. IsSeq(A) /\ IsSeq(B) /\ <<a, b>> = A \o B
  <2>1. <<a, b>> = <<a>> \o <<b>>
    BY TwoTasks
  <2>2. IsSeq(A) /\ IsSeq(B)
    BY Short
  <2> QED BY <2>1, <2>2
<1>2. <<>> \o w = w
  BY DEF IsSeq
<1> HIDE DEF A, B
<1>3. (A \o B) \o w = A \o (B \o w)
  BY <1>1, Regroup
<1>4. IsSeq(B \o w)
  BY <1>1, Concat
<1> QED BY <1>1, <1>2, <1>3, <1>4 DEF A, B

\* What is left of a snapshot when its first script is taken.
LEMMA RestOfWalk ==
    ASSUME NEW rest \in Seq(Scripts), rest # <<>>
    PROVE  /\ Head(rest) \in Scripts /\ Tail(rest) \in Seq(Scripts)
           /\ ToSet(rest) = {Head(rest)} \cup ToSet(Tail(rest))
           /\ \A tbl : InOrder(rest, tbl) =>
                 /\ InOrder(Tail(rest), tbl)
                 /\ \A y \in ToSet(Tail(rest)) : PlaceIn(tbl, Head(rest)) < PlaceIn(tbl, y)
<1> DEFINE v == Tail(rest)
<1>1. /\ v \in Seq(Scripts) /\ Head(rest) \in Scripts /\ Head(rest) = rest[1]
      /\ Len(rest) \in Nat /\ Len(rest) > 0 /\ Len(v) = Len(rest) - 1
      /\ DOMAIN rest = 1..Len(rest) /\ DOMAIN v = 1..Len(v)
      /\ \A i \in 1..Len(v) : v[i] = rest[i + 1]
  OBVIOUS
<1>2. ToSet(rest) = {Head(rest)} \cup ToSet(v)
  BY SetOfTail DEF IsSeq
<1> HIDE DEF v
<1>3. ToSet(v) = {v[i] : i \in 1..Len(v)}
  BY <1>1 DEF ToSet
<1>4. ASSUME NEW tbl, InOrder(rest, tbl)
      PROVE  /\ InOrder(v, tbl)
             /\ \A y \in ToSet(v) : PlaceIn(tbl, Head(rest)) < PlaceIn(tbl, y)
  <2>1. InOrder(v, tbl)
    <3> SUFFICES ASSUME NEW i \in 1..Len(v), NEW j \in 1..Len(v), i < j
                 PROVE  PlaceIn(tbl, v[i]) < PlaceIn(tbl, v[j])
      BY <1>1 DEF InOrder
    <3>1. i + 1 \in 1..Len(rest) /\ j + 1 \in 1..Len(rest) /\ i + 1 < j + 1
      BY <1>1
    <3> QED BY <1>1, <1>4, <3>1 DEF InOrder
  <2>2. ASSUME NEW i \in 1..Len(v) PROVE PlaceIn(tbl, rest[1]) < PlaceIn(tbl, v[i])
    <3>1. 1 \in 1..Len(rest) /\ i + 1 \in 1..Len(rest) /\ 1 < i + 1
      BY <1>1
    <3> QED BY <1>1, <1>4, <3>1 DEF InOrder
  <2> QED BY <1>1, <1>3, <2>1, <2>2
<1> QED BY <1>1, <1>2, <1>4 DEF v

\* The walk calls the next script, or passes over one that it owes nothing.
LEMMA NextScriptExact ==
    ASSUME Stack(work), Exact, NextScript
    PROVE  Exact'
<1> DEFINE r == Head(work)
           T == Tail(work)
           x == Head(r.rest)
           others == Tail(r.rest)
           q == Round(r.kind, others, r.due \ {x})
           c == Call(x, r.kind)
           R == ToSet(running)
<1>1. /\ IsSeq(work) /\ work # <<>> /\ r.do = "round"
      /\ UNCHANGED <<table, running, moved, enabled, live>>
  BY DEF NextScript, At, Stack, listVars
<1>2. State(T, table, enabled, live, running, moved, processed)
  BY <1>1, Popping DEF Exact
<1>3. /\ IsSeq(T) /\ ToSet(work) = {r} \cup ToSet(T)
      /\ T # <<>> => Link(table, moved, r, Head(T))
      /\ \A b \in ToSet(T) : Beneath(moved, r, b)
  BY <1>1, Below DEF Exact, State, Shaped
<1>4. /\ r.rest \in Seq(Scripts) /\ r.due \subseteq ToSet(r.rest)
      /\ r.due \subseteq R \cup NamesOf(ToSet(T), {"stop"})
      /\ moved => r.due \cap processed = {} /\ ~Has(ToSet(T), "round")
      /\ ~moved => InOrder(r.rest, table)
  <2>1. WalksOK(ToSet(work), R, table, moved, processed)
    BY DEF Exact, State
  <2>2. NamesOf(ToSet(work), {"stop"}) = NamesOf(ToSet(T), {"stop"})
    BY <1>1, <1>3 DEF NamesOf
  <2>3. moved => ~Has(ToSet(T), "round")
    BY <1>1, <1>3 DEF Has, Beneath
  <2> QED BY <1>1, <1>3, <2>1, <2>2, <2>3 DEF WalksOK
<1>5. CASE r.rest = <<>>
  <2>1. work' = <<>> \o T /\ processed' = processed
    BY <1>5 DEF NextScript, Replace
  <2>2. <<>> \o T = T
    BY <1>3, Pairs
  <2> QED BY <1>1, <1>2, <2>1, <2>2 DEF Exact
<1>6. CASE r.rest # <<>>
  <2>1. /\ x \in Scripts /\ others \in Seq(Scripts) /\ ToSet(r.rest) = {x} \cup ToSet(others)
        /\ ~moved => /\ InOrder(others, table)
                     /\ \A y \in ToSet(others) : PlaceIn(table, x) < PlaceIn(table, y)
    BY <1>4, <1>6, RestOfWalk
  <2>2. R \cup NamesOf(ToSet(T), {"stop"}) \subseteq live
    BY <1>2 DEF State, NamesOK, NamesOf, Closings
  <2>3. \/ /\ IsCalled(x) /\ processed' = processed \cup {x}
           /\ work' = <<c, q>> \o T
        \/ /\ processed' = processed /\ work' = <<q>> \o T
    <3>1. CASE IsCalled(x)
      BY <1>6, <3>1 DEF NextScript, Replace
    <3>2. CASE ~IsCalled(x)
      <4>1. x \notin r.due
        BY <1>4, <2>2, <3>2 DEF IsCalled
      <4>2. r.due = r.due \ {x}
        BY <4>1
      <4>3. processed' = processed /\ work' = <<Round(r.kind, others, r.due)>> \o T
        BY <1>6, <3>2 DEF NextScript, Replace
      <4> QED BY <4>2, <4>3
    <3> QED BY <3>1, <3>2
  <2>4. State(T, table, enabled, live, running, moved, processed')
    <3>1. moved => ~Has(ToSet(T), "round")
      BY <1>4
    <3> HIDE DEF T
    <3> QED BY <1>2, <1>3, <3>1, NoWalks
  <2>5. q.do = "round" /\ q.rest = others /\ q.due = r.due \ {x}
        /\ c.do = "call" /\ c.s = x
    BY DEF Round, Call
  <2> HIDE DEF q, c, T, R, others, x
  <2>6. WalkOK(q, ToSet(T), ToSet(running), table, moved, processed')
    <3>1. q.due \subseteq ToSet(others)
      BY <1>4, <2>1, <2>5
    <3>2. q.due \cap processed' \subseteq r.due \cap processed
      BY <2>3, <2>5
    <3>3. r.due \subseteq ToSet(running) \cup NamesOf(ToSet(T), {"stop"})
      BY <1>4 DEF R
    <3>4. q.due \subseteq ToSet(running) \cup NamesOf(ToSet(T), {"stop"})
      BY <2>5, <3>3
    <3>5. moved => q.due \cap processed' = {} /\ ~Has(ToSet(T), "round")
      BY <1>4, <3>2
    <3> QED BY <2>1, <2>5, <3>1, <3>4, <3>5 DEF WalkOK
  <2>7. T # <<>> => Link(table, moved, q, Head(T))
    BY <1>1, <1>3, <2>5 DEF Link
  <2>8. State(<<q>> \o T, table, enabled, live, running, moved, processed')
    BY <1>3, <2>4, <2>5, <2>6, <2>7, Pushing
  <2>9. CASE work' = <<q>> \o T
    BY <1>1, <2>8, <2>9 DEF Exact
  <2>10. CASE IsCalled(x) /\ work' = <<c, q>> \o T
    <3> DEFINE w == <<q>> \o T
    <3>1. work' = <<c>> \o w /\ IsSeq(w)
      BY <1>3, <2>10, Pairs, ZenonT(60)
    <3>2. w # <<>> /\ Head(w) = q
      BY <1>3, OnTop, Concat, TailSeq, Short
    <3> HIDE DEF w
    <3>3. Link(table, moved, c, Head(w))
      BY <2>1, <2>5, <3>2 DEF Link
    <3>4. WalkOK(c, ToSet(w), ToSet(running), table, moved, processed') /\ c.s \in live
      BY <2>5, <2>10 DEF WalkOK, IsCalled
    <3>5. State(w, table, enabled, live, running, moved, processed')
      BY <2>8 DEF w
    <3>6. State(<<c>> \o w, table, enabled, live, running, moved, processed')
      BY <2>5, <3>1, <3>3, <3>4, <3>5, Pushing
    <3> QED BY <1>1, <3>1, <3>6 DEF Exact
  <2> QED BY <2>3, <2>9, <2>10
<1> QED BY <1>5, <1>6

\* What most steps leave alone.
lists == <<table, running, moved, processed, enabled, live>>

\* Code, the beginning of a walk, or an event above what needs nothing there.
LEMMA QuietPush ==
    ASSUME NEW w, IsSeq(w), NEW tbl, NEW en, NEW lv, NEW run, NEW m, NEW marks,
           State(w, tbl, en, lv, run, m, marks),
           w = <<>> \/ Plain(Head(w)),
           NEW a, a.do \in {"call", "begin", "process", "serve", "final"},
           a.do = "call" => a.s \in lv
    PROVE  State(<<a>> \o w, tbl, en, lv, run, m, marks)
<1>1. w # <<>> => Link(tbl, m, a, Head(w))
  BY DEF Link, Plain
<1>2. WalkOK(a, ToSet(w), ToSet(run), tbl, m, marks)
  BY DEF WalkOK
<1> QED BY <1>1, <1>2, Pushing

\* The code returns, fails, or asks the hub for something.
LEMMA CodeEndsExact ==
    ASSUME Stack(work), Exact, Returns \/ CallbackFails \/ AsksHub
    PROVE  Exact'
<1>1. UNCHANGED lists
  BY DEF Returns, CallbackFails, AsksHub, listVars, roundVars, lists
<1>2. CASE Returns \/ CallbackFails
  <2>1. work # <<>> /\ Head(work).do = "call" /\ work' = Tail(work)
    BY <1>2 DEF Returns, CallbackFails, At
  <2>2. State(Tail(work), table, enabled, live, running, moved, processed)
    BY <2>1, Popping DEF Exact
  <2> QED BY <1>1, <2>1, <2>2 DEF Exact, lists
<1>3. CASE AsksHub
  <2>1. work' = work
    BY <1>3 DEF AsksHub
  <2> QED BY <1>1, <2>1 DEF Exact, lists
<1> QED BY <1>2, <1>3

\* A walk begins above the code that runs.
LEMMA DisconnectExact ==
    ASSUME Stack(work), Exact, DisconnectsUser
    PROVE  Exact'
<1>1. UNCHANGED lists /\ work' = <<Begin("disconnected", FALSE)>> \o work
      /\ Head(work).do = "call"
  BY DEF DisconnectsUser, listVars, roundVars, lists, Push, At
<1>2. Plain(Head(work)) /\ Begin("disconnected", FALSE).do = "begin"
  BY <1>1 DEF Plain, Begin
<1>3. PICK b : b = Begin("disconnected", FALSE)
  OBVIOUS
<1>4. State(<<b>> \o work, table, enabled, live, running, moved, processed)
  <2>1. b.do = "begin" /\ IsSeq(work)
    BY <1>2, <1>3 DEF Stack
  <2> QED BY <1>2, <2>1, QuietPush DEF Exact
<1> QED BY <1>1, <1>3, <1>4 DEF Exact, lists

\* TRUE ends the walk, and another one may begin.
LEMMA ReturnsTrueExact ==
    ASSUME Stack(work), Exact, ReturnsTrue
    PROVE  Exact'
<1> DEFINE S == Tail(work)
           T == Tail(S)
           b == Begin("disconnected", FALSE)
<1>1. /\ work # <<>> /\ Head(work).do = "call" /\ Head(work).why \in {"arrival", "connected"}
      /\ UNCHANGED lists
      /\ work' = <<b>> \o T \/ work' = <<>> \o T
  BY DEF ReturnsTrue, At, listVars, roundVars, lists
<1>2. S # <<>> /\ Head(S).do = "round"
  <2>1. Follows(Head(work), work, 1)
    BY HeadCall DEF ReturnsTrue
  <2>2. 1 < Len(work) /\ work[2].do = "round"
    <3>1. 1 + 1 = 2
      OBVIOUS
    <3> QED BY <1>1, <2>1, <3>1 DEF Follows
  <2>3. /\ IsSeq(S) /\ Len(work) \in Nat /\ Len(S) = Len(work) - 1 /\ S # <<>>
        /\ \A i \in 1..(Len(work) - 1) : S[i] = work[i + 1]
    BY <1>1, <2>2, TailSeq DEF Stack
  <2>4. 1 \in 1..(Len(work) - 1) /\ 1 + 1 = 2
    BY <2>2, <2>3
  <2>5. S[1] = work[2]
    <3>1. S[1] = work[1 + 1]
      BY <2>3, <2>4
    <3> QED BY <2>4, <3>1
  <2>6. Head(S) = S[1]
    BY <2>3, TailSeq
  <2> QED BY <2>2, <2>3, <2>5, <2>6
<1>3. State(S, table, enabled, live, running, moved, processed) /\ Stack(S)
  BY <1>1, Popping, Popped DEF Exact
<1> HIDE DEF S
<1>4. State(T, table, enabled, live, running, moved, processed)
  BY <1>2, <1>3, Popping
<1>5. IsSeq(T) /\ (T # <<>> => Plain(Head(T)))
  <2>1. IsSeq(T) /\ (T # <<>> => Link(table, moved, Head(S), Head(T)))
    BY <1>2, <1>3, Below DEF State, Shaped, Stack
  <2> QED BY <1>2, <2>1 DEF Link, Plain
<1> HIDE DEF T
<1>6. CASE work' = <<b>> \o T
  <2>1. b.do = "begin"
    BY DEF Begin
  <2> HIDE DEF b
  <2>2. State(<<b>> \o T, table, enabled, live, running, moved, processed)
    BY <1>4, <1>5, <2>1, QuietPush
  <2> QED BY <1>1, <1>6, <2>2 DEF Exact, lists
<1>7. CASE work' = <<>> \o T
  <2>1. work' = T
    BY <1>5, <1>7, Pairs
  <2> QED BY <1>1, <1>4, <2>1 DEF Exact, lists
<1> QED BY <1>1, <1>6, <1>7

\* A walk that begins takes the list as it is; the marks are kept for one
\* walk only.
LEMMA BeginRoundExact ==
    ASSUME Stack(work), Exact, BeginRound, ~unruly'
    PROVE  Exact'
<1> DEFINE T == Tail(work)
           kind == Head(work).kind
           q == Round(kind, running, ToSet(running) \cap live)
<1>1. /\ work # <<>> /\ Head(work).do = "begin" /\ IsSeq(work)
      /\ UNCHANGED <<table, running, processed, enabled, live>>
  BY DEF BeginRound, At, listVars, Stack
<1>2. State(T, table, enabled, live, running, moved, processed)
  BY <1>1, Popping DEF Exact
<1>3. IsSeq(T) /\ (T # <<>> => Plain(Head(T))) /\ ToSet(work) = {Head(work)} \cup ToSet(T)
  <2>1. IsSeq(T) /\ (T # <<>> => Link(table, moved, Head(work), Head(T)))
        /\ ToSet(work) = {Head(work)} \cup ToSet(T)
    BY <1>1, Below DEF Exact, State, Shaped
  <2> QED BY <1>1, <2>1 DEF Link, Plain
<1>4. CASE work' = <<>> \o T /\ moved' = moved
  <2>1. work' = T
    BY <1>3, <1>4, Pairs
  <2> QED BY <1>1, <1>2, <1>4, <2>1 DEF Exact
<1>5. CASE moved' = FALSE /\ work' = <<q>> \o T /\ ~(moved /\ InRound)
  <2>1. moved => ~Has(ToSet(T), "round")
    <3>1. DOMAIN work = 1..Len(work) /\ ToSet(work) = {work[i] : i \in 1..Len(work)}
      BY <1>1, SetOf DEF IsSeq
    <3>2. moved => \A t \in ToSet(work) : t.do # "round"
      BY <1>5, <3>1 DEF InRound
    <3> QED BY <1>3, <3>2 DEF Has
  <2>2. State(T, table, enabled, live, running, moved', processed)
    <3> HIDE DEF T
    <3> QED BY <1>2, <1>3, <1>5, <2>1, NoWalks
  <2>3. q.do = "round" /\ q.rest = running /\ q.due \subseteq ToSet(running)
    BY DEF Round
  <2>4. running \in Seq(Scripts) /\ InOrder(running, table)
    BY <2>2 DEF State, Lists
  <2> HIDE DEF q, T
  <2>5. WalkOK(q, ToSet(T), ToSet(running), table, moved', processed)
    BY <1>5, <2>3, <2>4 DEF WalkOK
  <2>6. T # <<>> => Link(table, moved', q, Head(T))
    BY <1>3, <2>3 DEF Plain, Link
  <2>7. State(<<q>> \o T, table, enabled, live, running, moved', processed)
    BY <1>3, <2>2, <2>3, <2>5, <2>6, Pushing
  <2> QED BY <1>1, <1>5, <2>7 DEF Exact
<1> QED BY <1>4, <1>5 DEF BeginRound, Replace

\* A script gets its state: no other task is about it.
LEMMA ScriptStartExact ==
    ASSUME Stack(work), Exact, ScriptStart
    PROVE  Exact'
<1> DEFINE T == Tail(work)
           h == Head(work)
           x == Caller
           c == Call(x, "main")
           q == Started(x, h.alone)
           v == <<q>> \o T
           R == ToSet(running)
           E == ToSet(T)
           F == ToSet(<<c, q>> \o T)
<1>1. /\ work # <<>> /\ h.do = "start" /\ h.s = x /\ IsSeq(work)
      /\ UNCHANGED <<table, running, moved, processed, enabled>>
      /\ live' = live \cup {x} /\ work' = <<c, q>> \o T
  BY DEF ScriptStart, At, listVars, roundVars, Stack, Replace, Caller
<1>2. /\ IsSeq(T) /\ Shaped(T, table, moved) /\ ToSet(work) = {h} \cup E
      /\ T # <<>> => Link(table, moved, h, Head(T))
      /\ \A b \in E : Beneath(moved, h, b)
  BY <1>1, Below DEF Exact, State, Shaped
<1>3. /\ Perm(table) /\ enabled \subseteq Scripts /\ Lists(running, table, R)
      /\ NamesOK(ToSet(work), R, live, enabled) /\ StartsOK(ToSet(work), table, live)
      /\ WalksOK(ToSet(work), R, table, moved, processed) /\ x \notin live
  BY <1>1 DEF Exact, State, Fresh
<1>4. NamesOf(E, {"start"}) \subseteq NamesOf(ToSet(work), {"stop"})
  BY <1>1, TailStarts DEF Exact, State, Shaped
<1>5. /\ c.do = "call" /\ c.s = x /\ c.why = "main"
      /\ q.do = "started" /\ q.s = x /\ q.alone = h.alone
  BY DEF Call, Started
<1> HIDE DEF T, h, x, c, q, v, R, E, F
<1>6. /\ NamesOf(ToSet(work), Closings) = NamesOf(E, Closings)
      /\ NamesOf(ToSet(work), {"stop"}) = NamesOf(E, {"stop"})
      /\ NamesOf(ToSet(work), {"call"}) = NamesOf(E, {"call"})
      /\ NamesOf(ToSet(work), {"start"}) = {x} \cup NamesOf(E, {"start"})
  BY <1>1, <1>2 DEF NamesOf, Closings
<1>7. \A b \in E : b.do \in Closings \cup {"call"} => b.s # x
  BY <1>3, <1>6 DEF NamesOK, NamesOf
<1>8. /\ IsSeq(v) /\ Shaped(v, table, moved) /\ ToSet(v) = {q} \cup E /\ Head(v) = q
  <2>1. \A b \in E : Beneath(moved, q, b)
    BY <1>5, <1>7 DEF Beneath, Closings
  <2>2. T # <<>> => Link(table, moved, q, Head(T))
    BY <1>1, <1>2, <1>5 DEF Link
  <2> QED BY <1>2, <2>1, <2>2, OnTop DEF v, E
<1>9. work' = <<c>> \o v
  BY <1>1, <1>2, Pairs DEF v
<1>10. Shaped(work', table, moved) /\ F = {c, q} \cup E /\ Head(work') = c /\ ToSet(work') = F
  <2>1. \A b \in ToSet(v) : Beneath(moved, c, b)
    BY <1>5 DEF Beneath, Closings
  <2>2. Link(table, moved, c, Head(v))
    BY <1>5, <1>8 DEF Link
  <2>3. Shaped(<<c>> \o v, table, moved) /\ ToSet(<<c>> \o v) = {c} \cup ToSet(v)
        /\ Head(<<c>> \o v) = c
    BY <1>8, <2>1, <2>2, OnTop
  <2>4. ToSet(work') = F
    BY <1>1 DEF F
  <2> QED BY <1>8, <1>9, <2>3, <2>4
<1>11. /\ NamesOf(F, Closings) = {x} \cup NamesOf(E, Closings)
       /\ NamesOf(F, {"stop"}) = NamesOf(E, {"stop"})
       /\ NamesOf(F, {"call"}) = {x} \cup NamesOf(E, {"call"})
       /\ NamesOf(F, {"start"}) = NamesOf(E, {"start"})
  BY <1>5, <1>10 DEF NamesOf, Closings
<1>12. NamesOK(F, R, live', enabled)
  <2>1. x \in Scripts /\ x \in enabled /\ x \notin R
    BY <1>3, <1>6 DEF NamesOK
  <2> QED BY <1>1, <1>3, <1>6, <1>11, <2>1 DEF NamesOK
<1>13. StartsOK(F, table, live')
  <2>1. Has(F, "stopAll") <=> Has(ToSet(work), "stopAll")
    BY <1>1, <1>2, <1>5, <1>10 DEF Has
  <2>2. \A t \in F : t.do = "startFrom" => t \in ToSet(work)
    BY <1>2, <1>5, <1>10
  <2>3. live' \cup NamesOf(F, {"start"}) = live \cup NamesOf(ToSet(work), {"start"})
    BY <1>1, <1>6, <1>11
  <2> QED BY <1>3, <2>1, <2>2, <2>3 DEF StartsOK
<1>14. WalksOK(F, R, table, moved, processed)
  <2>1. \A t \in F : t.do = "round" => t \in ToSet(work)
    BY <1>2, <1>5, <1>10
  <2> QED BY <1>3, <1>6, <1>11, <2>1 DEF WalksOK
<1>15. Fresh(work', live')
  BY <1>5, <1>10 DEF Fresh
<1> QED BY <1>1, <1>3, <1>10, <1>12, <1>13, <1>14, <1>15 DEF Exact, State, R

\* What is known when the end of a start is reached.
LEMMA StartEnds ==
    ASSUME NEW w, IsSeq(w), w # <<>>, Head(w).do = "started",
           NEW tbl, NEW en, NEW lv, NEW run, NEW m, NEW marks,
           State(w, tbl, en, lv, run, m, marks)
    PROVE  LET x == Head(w).s
               T == Tail(w)
               E == ToSet(T)
               R == ToSet(run)
           IN  /\ IsSeq(T) /\ Shaped(T, tbl, m)
               /\ T # <<>> => Link(tbl, m, Head(w), Head(T))
               /\ x \in Scripts /\ x \in lv /\ x \notin R
               /\ lv = R \cup {x} \cup NamesOf(E, Closings)
               /\ R \cap NamesOf(E, Closings) = {} /\ x \notin NamesOf(E, Closings)
               /\ x \notin NamesOf(E, {"start"})
               /\ x \notin NamesOf(E, {"call"}) /\ NamesOf(E, {"call"}) \subseteq lv
               /\ NamesOf(E, {"start"}) \subseteq en
               /\ lv \subseteq en \cup NamesOf(E, {"stop"})
               /\ StartsOK(E, tbl, lv) /\ WalksOK(E, R, tbl, m, marks)
               /\ T # <<>> => Head(T).do # "start"
<1> DEFINE T == Tail(w)
           h == Head(w)
           x == h.s
           R == ToSet(run)
           E == ToSet(T)
<1>1. /\ IsSeq(T) /\ Shaped(T, tbl, m) /\ ToSet(w) = {h} \cup E
      /\ T # <<>> => Link(tbl, m, h, Head(T))
      /\ \A b \in E : Beneath(m, h, b)
  BY Below DEF State, Shaped
<1>2. /\ NamesOK(ToSet(w), R, lv, en) /\ StartsOK(ToSet(w), tbl, lv)
      /\ WalksOK(ToSet(w), R, tbl, m, marks)
  BY DEF State
<1>3. NamesOf(E, {"start"}) \subseteq NamesOf(ToSet(w), {"stop"})
  BY TailStarts DEF State, Shaped
<1>4. h.do = "started"
  OBVIOUS
<1>5. h.s = x
  OBVIOUS
<1> HIDE DEF T, h, x, R, E
<1>6. /\ NamesOf(ToSet(w), Closings) = {x} \cup NamesOf(E, Closings)
      /\ NamesOf(ToSet(w), {"stop"}) = NamesOf(E, {"stop"})
      /\ NamesOf(ToSet(w), {"call"}) = NamesOf(E, {"call"})
      /\ NamesOf(ToSet(w), {"start"}) = NamesOf(E, {"start"})
  BY <1>1, <1>4, <1>5 DEF NamesOf, Closings
<1>7. x \notin NamesOf(E, Closings) /\ x \notin NamesOf(E, {"call"}) /\ x \notin NamesOf(E, {"stop"})
  BY <1>1, <1>4, <1>5 DEF NamesOf, Beneath, Closings
<1>8. x \notin NamesOf(E, {"start"})
  BY <1>3, <1>6, <1>7
<1>9. x \in Scripts /\ x \in lv /\ x \notin R /\ lv = R \cup {x} \cup NamesOf(E, Closings)
      /\ R \cap NamesOf(E, Closings) = {}
  BY <1>2, <1>6 DEF NamesOK
<1>10. NamesOf(E, {"call"}) \subseteq lv /\ NamesOf(E, {"start"}) \subseteq en
       /\ lv \subseteq en \cup NamesOf(E, {"stop"})
  BY <1>2, <1>6 DEF NamesOK
<1>11. StartsOK(E, tbl, lv)
  <2>1. Has(E, "stopAll") <=> Has(ToSet(w), "stopAll")
    BY <1>1, <1>4 DEF Has
  <2> QED BY <1>1, <1>2, <1>6, <2>1 DEF StartsOK
<1>12. WalksOK(E, R, tbl, m, marks)
  BY <1>1, <1>2, <1>6 DEF WalksOK
<1>13. T # <<>> => Head(T).do # "start"
  BY <1>1, <1>4 DEF Link
<1>14. T # <<>> => Link(tbl, m, h, Head(T))
  BY <1>1
<1> QED BY <1>1, <1>7, <1>8, <1>9, <1>10, <1>11, <1>12, <1>13, <1>14 DEF T, h, x, R, E

\* The script that has started enters the list.
LEMMA ScriptStartedExact ==
    ASSUME Stack(work), Exact, ScriptStarted
    PROVE  Exact'
<1> DEFINE T == Tail(work)
           h == Head(work)
           x == h.s
           R == ToSet(running)
           E == ToSet(T)
           c == Call(x, "startup")
<1>1. /\ work # <<>> /\ h.do = "started" /\ IsSeq(work)
      /\ UNCHANGED <<table, moved, processed, enabled, live>>
      /\ running' = AddRunningScript(x)
      /\ \/ work' = <<c>> \o T /\ h.alone
         \/ work' = <<>> \o T
  <2>1. /\ work # <<>> /\ h.do = "started" /\ IsSeq(work)
        /\ UNCHANGED <<table, moved, processed, enabled, live>>
        /\ running' = AddRunningScript(x)
    BY DEF ScriptStarted, At, roundVars, Stack, Caller
  <2>2. (work' = <<c>> \o T /\ h.alone) \/ work' = <<>> \o T
    <3>1. CASE up /\ h.alone
      BY <3>1 DEF ScriptStarted, Replace, Caller
    <3>2. CASE ~(up /\ h.alone)
      BY <3>2 DEF ScriptStarted, Replace, Caller
    <3> QED BY <3>1, <3>2
  <2> QED BY <2>1, <2>2
<1>2. /\ IsSeq(T) /\ Shaped(T, table, moved)
      /\ T # <<>> => Link(table, moved, h, Head(T))
      /\ x \in Scripts /\ x \in live /\ x \notin R
      /\ live = R \cup {x} \cup NamesOf(E, Closings)
      /\ R \cap NamesOf(E, Closings) = {} /\ x \notin NamesOf(E, Closings)
      /\ NamesOf(E, {"call"}) \subseteq live
      /\ NamesOf(E, {"start"}) \subseteq enabled
      /\ live \subseteq enabled \cup NamesOf(E, {"stop"})
      /\ StartsOK(E, table, live) /\ WalksOK(E, R, table, moved, processed)
      /\ T # <<>> => Head(T).do # "start"
  BY <1>1, StartEnds DEF Exact
<1>3. Perm(table) /\ Lists(running, table, R) /\ enabled \subseteq Scripts /\ live \subseteq Scripts
  BY DEF Exact, State, NamesOK
<1> HIDE DEF T, h, x, R, E, c
<1>4. Lists(running', table, R \cup {x})
  BY <1>1, <1>2, <1>3, ScriptEnters
<1>5. ToSet(running') = R \cup {x}
  BY <1>4 DEF Lists
<1>6. NamesOK(E, ToSet(running'), live, enabled)
  BY <1>2, <1>3, <1>5 DEF NamesOK
<1>7. WalksOK(E, ToSet(running'), table, moved, processed)
  BY <1>2, <1>5 DEF WalksOK
<1>8. State(T, table, enabled, live, running', moved, processed)
  BY <1>2, <1>3, <1>4, <1>5, <1>6, <1>7 DEF State, Fresh, E
<1>9. CASE work' = <<>> \o T
  <2>1. work' = T
    BY <1>2, <1>9, Pairs
  <2> QED BY <1>1, <1>8, <2>1 DEF Exact
<1>10. CASE work' = <<c>> \o T /\ h.alone
  <2>1. T = <<>> \/ Plain(Head(T))
    BY <1>1, <1>2, <1>10 DEF Plain, Link
  <2>2. c.do = "call" /\ c.s = x
    BY DEF c, Call
  <2>3. State(<<c>> \o T, table, enabled, live, running', moved, processed)
    BY <1>2, <1>8, <2>1, <2>2, QuietPush
  <2> QED BY <1>1, <1>10, <2>3 DEF Exact
<1> QED BY <1>1, <1>9, <1>10

\* Top-level code that fails takes its script with it.
LEMMA MainFailsExact ==
    ASSUME Stack(work), Exact, MainFails
    PROVE  Exact'
<1> DEFINE S == Tail(work)
           T == Tail(S)
           x == Caller
           R == ToSet(running)
           E == ToSet(T)
<1>1. /\ work # <<>> /\ Head(work).do = "call" /\ Head(work).why = "main" /\ Head(work).s = x
      /\ UNCHANGED <<table, running, moved, processed>> /\ work' = T
      /\ live' = live \ {x} /\ enabled' = enabled \ {x}
  BY DEF MainFails, At, listVars, roundVars, Caller
<1>2. S # <<>> /\ Head(S).do = "started" /\ Head(S).s = x
  <2>1. Follows(Head(work), work, 1)
    BY HeadCall DEF MainFails
  <2>2. 1 < Len(work) /\ work[2].do = "started"
    <3>1. 1 + 1 = 2
      OBVIOUS
    <3> QED BY <1>1, <2>1, <3>1 DEF Follows
  <2>3. /\ IsSeq(S) /\ Len(work) \in Nat /\ Len(S) = Len(work) - 1 /\ S # <<>>
        /\ \A i \in 1..(Len(work) - 1) : S[i] = work[i + 1]
    BY <1>1, <2>2, TailSeq DEF Stack
  <2>4. 1 \in 1..(Len(work) - 1) /\ 1 + 1 = 2
    BY <2>2, <2>3
  <2>5. S[1] = work[2]
    <3>1. S[1] = work[1 + 1]
      BY <2>3, <2>4
    <3> QED BY <2>4, <3>1
  <2>6. Head(S) = S[1]
    BY <2>3, TailSeq
  <2>7. Link(table, moved, Head(work), Head(S))
    BY <1>1, <2>3, Below DEF Exact, State, Shaped, Stack
  <2> QED BY <1>1, <2>2, <2>3, <2>5, <2>6, <2>7 DEF Link
<1>3. State(S, table, enabled, live, running, moved, processed) /\ IsSeq(S)
  BY <1>1, Popping, Popped DEF Exact, Stack
<1> HIDE DEF S
<1>4. /\ IsSeq(T) /\ Shaped(T, table, moved)
      /\ x \in Scripts /\ x \in live /\ x \notin R
      /\ live = R \cup {x} \cup NamesOf(E, Closings)
      /\ R \cap NamesOf(E, Closings) = {} /\ x \notin NamesOf(E, Closings)
      /\ x \notin NamesOf(E, {"start"})
      /\ x \notin NamesOf(E, {"call"}) /\ NamesOf(E, {"call"}) \subseteq live
      /\ NamesOf(E, {"start"}) \subseteq enabled
      /\ live \subseteq enabled \cup NamesOf(E, {"stop"})
      /\ StartsOK(E, table, live) /\ WalksOK(E, R, table, moved, processed)
      /\ T # <<>> => Head(T).do # "start"
  BY <1>2, <1>3, StartEnds
<1>5. Perm(table) /\ Lists(running, table, R) /\ enabled \subseteq Scripts /\ live \subseteq Scripts
  BY <1>3 DEF State, NamesOK
<1> HIDE DEF T, x, R, E
<1>6. NamesOK(E, R, live \ {x}, enabled \ {x})
  BY <1>4, <1>5 DEF NamesOK
<1>7. StartsOK(E, table, live \ {x})
  BY <1>4 DEF StartsOK
<1>8. State(T, table, enabled \ {x}, live \ {x}, running, moved, processed)
  <2>1. enabled \ {x} \subseteq Scripts
    BY <1>5
  <2>2. Fresh(T, live \ {x})
    BY <1>4 DEF Fresh
  <2> QED BY <1>4, <1>5, <1>6, <1>7, <2>1, <2>2 DEF State, R, E
<1> QED BY <1>1, <1>8 DEF Exact

\* A state is closed, and walks owe its script nothing any more.
LEMMA ScriptStopExact ==
    ASSUME Stack(work), Exact, ScriptStop
    PROVE  Exact'
<1> DEFINE T == Tail(work)
           h == Head(work)
           x == Caller
           v == Forgets(T, {x})
           R == ToSet(running)
           E == ToSet(T)
           F == ToSet(v)
<1>1. /\ work # <<>> /\ h.do = "stop" /\ h.s = x /\ IsSeq(work)
      /\ UNCHANGED <<table, running, moved, processed, enabled>>
      /\ live' = live \ {x} /\ work' = v
  BY DEF ScriptStop, At, listVars, roundVars, Stack, Caller
<1>2. /\ IsSeq(T) /\ Linked(table, moved, T) /\ Layered(moved, T) /\ ToSet(work) = {h} \cup E
      /\ T # <<>> => Link(table, moved, h, Head(T))
      /\ \A b \in E : Beneath(moved, h, b)
  BY <1>1, Below DEF Exact, State, Shaped
<1>3. /\ Perm(table) /\ enabled \subseteq Scripts /\ Lists(running, table, R)
      /\ NamesOK(ToSet(work), R, live, enabled) /\ StartsOK(ToSet(work), table, live)
      /\ WalksOK(ToSet(work), R, table, moved, processed)
  BY <1>1 DEF Exact, State
<1>4. Stack(T)
  BY <1>1, Popped
<1>5. /\ Linked(table, moved, v) /\ Layered(moved, v)
      /\ \A kinds : "round" \notin kinds => NamesOf(F, kinds) = NamesOf(E, kinds)
      /\ \A r \in F : \E t \in E : Lessened(t, r, {x})
      /\ \A t \in E : \E r \in F : Lessened(t, r, {x})
  BY <1>2, <1>4, ForgetsShape
<1>6. v # <<>> => T # <<>> /\ Lessened(Head(T), Head(v), {x})
  BY <1>4, ForgetsTask
<1>7. v = work' /\ F = ToSet(work')
  BY <1>1
<1> HIDE DEF T, h, x, v, R, E, F
<1>8. /\ NamesOf(ToSet(work), Closings) = {x} \cup NamesOf(E, Closings)
      /\ NamesOf(ToSet(work), {"stop"}) = {x} \cup NamesOf(E, {"stop"})
      /\ NamesOf(ToSet(work), {"call"}) = NamesOf(E, {"call"})
      /\ NamesOf(ToSet(work), {"start"}) = NamesOf(E, {"start"})
  BY <1>1, <1>2 DEF NamesOf, Closings
<1>9. x \notin NamesOf(E, Closings) /\ x \notin NamesOf(E, {"call"})
  BY <1>1, <1>2 DEF NamesOf, Beneath, Closings
<1>10. /\ NamesOf(F, Closings) = NamesOf(E, Closings)
       /\ NamesOf(F, {"stop"}) = NamesOf(E, {"stop"})
       /\ NamesOf(F, {"call"}) = NamesOf(E, {"call"})
       /\ NamesOf(F, {"start"}) = NamesOf(E, {"start"})
  BY <1>5 DEF Closings
<1>11. NamesOK(F, R, live \ {x}, enabled)
  BY <1>3, <1>8, <1>9, <1>10 DEF NamesOK
<1>12. StartsOK(F, table, live \ {x})
  <2>1. Has(ToSet(work), "stopAll") => Has(F, "stopAll")
    BY <1>1, <1>2, <1>5 DEF Has, Lessened
  <2>2. ASSUME NEW t \in F, t.do = "startFrom" PROVE t \in ToSet(work)
    BY <1>2, <1>5, <2>2 DEF Lessened
  <2> QED BY <1>3, <1>8, <1>10, <2>1, <2>2 DEF StartsOK
<1>13. WalksOK(F, R, table, moved, processed)
  <2> SUFFICES ASSUME NEW r \in F, r.do = "round"
               PROVE  /\ r.rest \in Seq(Scripts)
                      /\ r.due \subseteq ToSet(r.rest)
                      /\ r.due \subseteq R \cup NamesOf(F, {"stop"})
                      /\ moved => r.due \cap processed = {}
                      /\ ~moved => InOrder(r.rest, table)
    BY DEF WalksOK
  <2>1. PICK t \in E : Lessened(t, r, {x})
    BY <1>5
  <2>2. t \in ToSet(work) /\ t.do = "round" /\ r.rest = t.rest /\ r.due = t.due \ {x}
    BY <1>2, <2>1 DEF Lessened
  <2>3. /\ t.rest \in Seq(Scripts) /\ t.due \subseteq ToSet(t.rest)
        /\ t.due \subseteq R \cup NamesOf(ToSet(work), {"stop"})
        /\ moved => t.due \cap processed = {}
        /\ ~moved => InOrder(t.rest, table)
    BY <1>3, <2>2 DEF WalksOK
  <2> QED BY <1>8, <1>10, <2>2, <2>3
<1>14. Fresh(v, live \ {x})
  <2> SUFFICES ASSUME v # <<>>, Head(v).do = "start" PROVE Head(v).s \notin live \ {x}
    BY DEF Fresh
  <2>1. T # <<>> /\ Head(v) = Head(T)
    BY <1>6 DEF Lessened
  <2> QED BY <1>1, <1>2, <2>1 DEF Link
<1>15. State(v, table, enabled, live \ {x}, running, moved, processed)
  BY <1>3, <1>5, <1>11, <1>12, <1>13, <1>14 DEF State, Shaped, R, F
<1> QED BY <1>1, <1>15 DEF Exact

\* Below the stop or the start of all of them nothing is about a script.
LEMMA NothingBelow ==
    ASSUME NEW w, IsSeq(w), w # <<>>, Head(w).do \in {"stopAll", "startFrom"},
           NEW tbl, NEW en, NEW lv, NEW run, NEW m, NEW marks,
           State(w, tbl, en, lv, run, m, marks)
    PROVE  LET E == ToSet(Tail(w))
           IN  /\ NamesOf(E, Closings) = {} /\ NamesOf(E, {"stop"}) = {}
               /\ NamesOf(E, {"call"}) = {} /\ NamesOf(E, {"start"}) = {}
               /\ lv = ToSet(run) /\ lv \subseteq en
               /\ NamesOf(ToSet(w), {"stop"}) = {}
               /\ ~Has(E, "stopAll")
               /\ Head(w).do = "startFrom" => ~Has(ToSet(w), "stopAll") /\ ~Has(E, "startFrom")
<1> DEFINE E == ToSet(Tail(w))
           h == Head(w)
<1>1. /\ ToSet(w) = {h} \cup E
      /\ \A b \in E : Beneath(m, h, b)
  BY Below DEF State, Shaped
<1>2. h.do \in {"stopAll", "startFrom"} /\ h = Head(w)
  OBVIOUS
<1> HIDE DEF E, h
<1>3. \A b \in E : b.do \notin {"call", "start", "started", "stop", "stopAll"}
  BY <1>1, <1>2 DEF Beneath
<1>4. /\ NamesOf(E, Closings) = {} /\ NamesOf(E, {"stop"}) = {}
      /\ NamesOf(E, {"call"}) = {} /\ NamesOf(E, {"start"}) = {}
  BY <1>3 DEF NamesOf, Closings
<1>5. NamesOf(ToSet(w), {"stop"}) = {} /\ NamesOf(ToSet(w), Closings) = {}
  BY <1>1, <1>2, <1>3 DEF NamesOf, Closings
<1>6. lv = ToSet(run) /\ lv \subseteq en
  BY <1>5 DEF State, NamesOK
<1>7. ~Has(E, "stopAll")
  BY <1>3 DEF Has
<1>8. h.do = "startFrom" => ~Has(ToSet(w), "stopAll") /\ ~Has(E, "startFrom")
  BY <1>1, <1>3 DEF Has, Beneath
<1> QED BY <1>2, <1>4, <1>5, <1>6, <1>7, <1>8 DEF E

\* All of the list is closed; nothing else had a state.
LEMMA StopRunningExact ==
    ASSUME Stack(work), Exact, StopRunning
    PROVE  Exact'
<1> DEFINE T == Tail(work)
           h == Head(work)
           R == ToSet(running)
           v == Forgets(T, R)
           E == ToSet(T)
           F == ToSet(v)
<1>1. /\ work # <<>> /\ h.do = "stopAll" /\ IsSeq(work)
      /\ UNCHANGED <<table, moved, processed, enabled>>
      /\ live' = live \ R /\ running' = <<>> /\ work' = v
  BY DEF StopRunning, Stops, At, roundVars, Stack
<1>2. /\ NamesOf(E, Closings) = {} /\ NamesOf(E, {"stop"}) = {}
      /\ NamesOf(E, {"call"}) = {} /\ NamesOf(E, {"start"}) = {}
      /\ live = R /\ NamesOf(ToSet(work), {"stop"}) = {}
  BY <1>1, NothingBelow DEF Exact
<1>3. /\ IsSeq(T) /\ Linked(table, moved, T) /\ Layered(moved, T) /\ ToSet(work) = {h} \cup E
      /\ T # <<>> => Link(table, moved, h, Head(T))
  BY <1>1, Below DEF Exact, State, Shaped
<1>4. /\ Perm(table) /\ enabled \subseteq Scripts
      /\ StartsOK(ToSet(work), table, live)
      /\ WalksOK(ToSet(work), R, table, moved, processed)
  BY <1>1 DEF Exact, State
<1>5. Stack(T)
  BY <1>1, Popped
<1>6. /\ Linked(table, moved, v) /\ Layered(moved, v)
      /\ \A kinds : "round" \notin kinds => NamesOf(F, kinds) = NamesOf(E, kinds)
      /\ \A r \in F : \E t \in E : Lessened(t, r, R)
  BY <1>3, <1>5, ForgetsShape
<1>7. v # <<>> => T # <<>> /\ Lessened(Head(T), Head(v), R)
  BY <1>5, ForgetsTask
<1> HIDE DEF T, h, v, R, E, F
<1>8. /\ NamesOf(F, Closings) = {} /\ NamesOf(F, {"stop"}) = {}
      /\ NamesOf(F, {"call"}) = {} /\ NamesOf(F, {"start"}) = {}
  BY <1>2, <1>6 DEF Closings
<1>9. NamesOK(F, {}, {}, enabled)
  BY <1>8 DEF NamesOK
<1>10. StartsOK(F, table, {})
  <2>1. ASSUME NEW t \in F, t.do = "startFrom" PROVE t.i \in Nat \ {0}
    <3>1. t \in ToSet(work)
      BY <1>3, <1>6, <2>1 DEF Lessened
    <3> QED BY <1>4, <2>1, <3>1 DEF StartsOK
  <2> QED BY <1>8, <2>1 DEF StartsOK
<1>11. WalksOK(F, {}, table, moved, processed)
  <2> SUFFICES ASSUME NEW r \in F, r.do = "round"
               PROVE  /\ r.rest \in Seq(Scripts)
                      /\ r.due \subseteq ToSet(r.rest)
                      /\ r.due \subseteq {} \cup NamesOf(F, {"stop"})
                      /\ moved => r.due \cap processed = {}
                      /\ ~moved => InOrder(r.rest, table)
    BY DEF WalksOK
  <2>1. PICK t \in E : Lessened(t, r, R)
    BY <1>6
  <2>2. t \in ToSet(work) /\ t.do = "round" /\ r.rest = t.rest /\ r.due = t.due \ R
    BY <1>3, <2>1 DEF Lessened
  <2>3. /\ t.rest \in Seq(Scripts) /\ t.due \subseteq R
        /\ ~moved => InOrder(t.rest, table)
    BY <1>2, <1>4, <2>2 DEF WalksOK
  <2>4. r.due = {}
    BY <2>2, <2>3
  <2> QED BY <2>2, <2>3, <2>4
<1>12. Fresh(v, {})
  BY DEF Fresh
<1>13. Lists(<<>>, table, {}) /\ ToSet(<<>>) = {}
  BY EmptyList, SetOf
<1>14. State(v, table, enabled, {}, <<>>, moved, processed)
  BY <1>4, <1>6, <1>9, <1>10, <1>11, <1>12, <1>13 DEF State, Shaped, F
<1>15. live' = {}
  BY <1>1, <1>2
<1> QED BY <1>1, <1>14, <1>15 DEF Exact

\* The loop over the table starts no script that has its state.
LEMMA StartNextExact ==
    ASSUME Stack(work), Exact, StartNext
    PROVE  Exact'
<1> DEFINE T == Tail(work)
           h == Head(work)
           i == h.i
           x == table[i]
           f == StartFrom(i + 1)
           s == StartOf(x, FALSE)
           v == <<f>> \o T
           E == ToSet(T)
           R == ToSet(running)
<1>1. /\ work # <<>> /\ h.do = "startFrom" /\ IsSeq(work)
      /\ UNCHANGED <<table, running, moved, processed, enabled, live>>
  BY DEF StartNext, At, roundVars, listVars, Stack
<1>2. \/ i > Len(table) /\ work' = <<>> \o T
      \/ ~(i > Len(table)) /\ x \in enabled /\ work' = <<s, f>> \o T
      \/ ~(i > Len(table)) /\ work' = <<f>> \o T
  <2>1. CASE i > Len(table)
    BY <2>1 DEF StartNext, Replace
  <2>2. CASE ~(i > Len(table)) /\ x \in enabled
    BY <2>2 DEF StartNext, Replace
  <2>3. CASE ~(i > Len(table)) /\ x \notin enabled
    BY <2>3 DEF StartNext, Replace
  <2> QED BY <2>1, <2>2, <2>3
<1>3. State(T, table, enabled, live, running, moved, processed)
  BY <1>1, Popping DEF Exact
<1>4. /\ NamesOf(E, Closings) = {} /\ NamesOf(E, {"stop"}) = {}
      /\ NamesOf(E, {"call"}) = {} /\ NamesOf(E, {"start"}) = {}
      /\ live = R /\ live \subseteq enabled
      /\ ~Has(E, "stopAll") /\ ~Has(ToSet(work), "stopAll") /\ ~Has(E, "startFrom")
  BY <1>1, NothingBelow DEF Exact
<1>5. /\ IsSeq(T) /\ ToSet(work) = {h} \cup E
      /\ T # <<>> => Link(table, moved, h, Head(T))
      /\ \A b \in E : Beneath(moved, h, b)
  BY <1>1, Below DEF Exact, State, Shaped
<1>6. i \in Nat \ {0} /\ live \subseteq Firsts(table, i)
  <2>1. StartsOK(ToSet(work), table, live)
    BY DEF Exact, State
  <2> QED BY <1>1, <1>4, <1>5, <2>1 DEF StartsOK
<1>7. f.do = "startFrom" /\ f.i = i + 1 /\ s.do = "start" /\ s.s = x /\ ~s.alone
  BY DEF StartFrom, StartOf
<1>8. Perm(table) /\ Len(table) \in Nat
  BY PlaceOf DEF Exact, State
<1> HIDE DEF T, h, i, x, f, s, v, E, R
<1>9. CASE work' = <<>> \o T
  <2>1. work' = T
    BY <1>5, <1>9, Pairs
  <2> QED BY <1>1, <1>3, <2>1 DEF Exact
<1>10. ASSUME ~(i > Len(table))
       PROVE  /\ Firsts(table, i + 1) = Firsts(table, i) \cup {x}
              /\ x \in Scripts \ Firsts(table, i)
              /\ i + 1 \in Nat \ {0}
              /\ IsSeq(v) /\ Shaped(v, table, moved) /\ ToSet(v) = {f} \cup E /\ Head(v) = f
  <2>1. i <= Len(table)
    BY <1>6, <1>8, <1>10
  <2>2. /\ Firsts(table, i + 1) = Firsts(table, i) \cup {x}
        /\ x \in Scripts \ Firsts(table, i)
    BY <1>6, <1>8, <2>1, FirstsNext DEF x
  <2>3. i + 1 \in Nat \ {0}
    BY <1>6
  <2>4. \A b \in E : Beneath(moved, f, b)
    BY <1>1, <1>5, <1>7 DEF Beneath, Closings
  <2>5. T # <<>> => Link(table, moved, f, Head(T))
    BY <1>1, <1>5, <1>7 DEF Link
  <2>6. Shaped(T, table, moved)
    BY <1>3 DEF State
  <2>7. IsSeq(v) /\ Shaped(v, table, moved) /\ ToSet(v) = {f} \cup E /\ Head(v) = f
    BY <1>5, <2>4, <2>5, <2>6, OnTop DEF v, E
  <2> QED BY <2>2, <2>3, <2>7
<1>11. ASSUME NEW w, NEW A, ToSet(w) = A \cup ({f} \cup E), A \subseteq {s},
              ~(i > Len(table)), Shaped(w, table, moved), x \in enabled \/ A = {},
              Fresh(w, live)
       PROVE  State(w, table, enabled, live, running, moved, processed)
  <2> DEFINE F == ToSet(w)
  <2>1. /\ NamesOf(F, Closings) = {} /\ NamesOf(F, {"stop"}) = {} /\ NamesOf(F, {"call"}) = {}
        /\ NamesOf(F, {"start"}) \subseteq {x}
        /\ NamesOf(F, {"start"}) \subseteq enabled
    BY <1>4, <1>7, <1>11 DEF NamesOf, Closings
  <2>2. \A t \in F : t.do = "startFrom" => t = f
    BY <1>4, <1>7, <1>11 DEF Has
  <2>3. \A t \in F : t.do = "round" => t \in E
    BY <1>7, <1>11
  <2> HIDE DEF F
  <2>4. NamesOK(F, R, live, enabled)
    <3>1. NamesOK(E, R, live, enabled)
      BY <1>3 DEF State, E, R
    <3> QED BY <1>4, <2>1, <3>1 DEF NamesOK
  <2>5. StartsOK(F, table, live)
    BY <1>6, <1>7, <1>10, <1>11, <2>1, <2>2 DEF StartsOK
  <2>6. WalksOK(F, R, table, moved, processed)
    <3>1. WalksOK(E, R, table, moved, processed)
      BY <1>3 DEF State, E, R
    <3> QED BY <1>4, <2>1, <2>3, <3>1 DEF WalksOK
  <2>7. Perm(table) /\ enabled \subseteq Scripts /\ Lists(running, table, R)
    BY <1>3 DEF State, R
  <2> QED BY <1>11, <2>4, <2>5, <2>6, <2>7 DEF State, F, R
<1>12. CASE ~(i > Len(table)) /\ work' = <<f>> \o T
  <2>1. Fresh(v, live)
    BY <1>7, <1>10, <1>12 DEF Fresh
  <2>2. PICK A : A = {}
    OBVIOUS
  <2>8. ToSet(v) = A \cup ({f} \cup E) /\ A \subseteq {s} /\ Shaped(v, table, moved)
    BY <1>10, <1>12, <2>2
  <2>3. State(v, table, enabled, live, running, moved, processed)
    BY <1>11, <1>12, <2>1, <2>2, <2>8
  <2> QED BY <1>1, <1>12, <2>3 DEF Exact, v
<1>13. CASE ~(i > Len(table)) /\ x \in enabled /\ work' = <<s, f>> \o T
  <2> DEFINE w == <<s>> \o v
  <2>1. work' = w
    BY <1>5, <1>13, Pairs DEF v
  <2>2. Link(table, moved, s, Head(v))
    BY <1>7, <1>10, <1>13 DEF Link
  <2>3. \A b \in ToSet(v) : Beneath(moved, s, b)
    BY <1>7 DEF Beneath, Closings
  <2>8. IsSeq(v) /\ Shaped(v, table, moved)
    BY <1>10, <1>13
  <2>4. Shaped(w, table, moved) /\ ToSet(w) = {s} \cup ToSet(v) /\ Head(w) = s
    BY <2>2, <2>3, <2>8, OnTop
  <2> HIDE DEF w
  <2>5. ToSet(w) = {s} \cup ({f} \cup E)
    BY <1>10, <1>13, <2>4
  <2>6. Fresh(w, live)
    BY <1>6, <1>7, <1>10, <1>13, <2>4 DEF Fresh
  <2>7. State(w, table, enabled, live, running, moved, processed)
    BY <1>11, <1>13, <2>4, <2>5, <2>6
  <2> QED BY <1>1, <2>1, <2>7 DEF Exact
<1> QED BY <1>2, <1>9, <1>12, <1>13

\* What lies below code that no other code called.
LEMMA Alone ==
    ASSUME Stack(work), Exact, At("call"), ~Nested
    PROVE  LET E == ToSet(work)
           IN  /\ Caller \in NamesOf(E, {"call"})
               /\ NamesOf(E, {"call"}) \subseteq {Caller}
               /\ NamesOf(E, Closings) \subseteq {Caller}
               /\ Head(work).why \notin {"main", "last"} =>
                    \A t \in E : t.do \notin Closings \cup {"start"}
               /\ \A i \in 1..Len(work) : work[i].do = "round" => i = 2
<1> DEFINE E == ToSet(work)
<1>1. /\ Len(work) \in Nat /\ Len(work) > 0 /\ Head(work) = work[1] /\ IsSeq(work)
      /\ Head(work).do = "call" /\ 1 \in 1..Len(work) /\ Head(work).s = Caller
  BY TailSeq DEF At, Stack, Caller
<1>2. \A j \in 1..Len(work) : work[j].do = "call" => j = 1
  BY OneCall
<1>3. \A i \in 1..Len(work) : i # 1 =>
          i - 1 \in 1..Len(work) /\ Link(table, moved, work[i - 1], work[i])
  <2>1. \A i \in 1..Len(work) : i # 1 => i \in 2..Len(work) /\ i - 1 \in 1..Len(work)
    BY <1>1
  <2> QED BY <2>1 DEF Exact, State, Shaped, Linked
<1>4. E = {work[i] : i \in 1..Len(work)}
  BY <1>1, SetOf
<1> HIDE DEF E
<1>5. Caller \in NamesOf(E, {"call"}) /\ NamesOf(E, {"call"}) \subseteq {Caller}
  BY <1>1, <1>2, <1>4 DEF NamesOf
<1>6. ASSUME NEW i \in 1..Len(work), work[i].do \in Closings
      PROVE  work[i].s = Caller /\ Head(work).why \in {"main", "last"}
  <2>1. i # 1
    BY <1>1, <1>6 DEF Closings
  <2>2. i - 1 \in 1..Len(work) /\ Link(table, moved, work[i - 1], work[i])
    BY <1>3, <2>1
  <2>3. work[i - 1].do = "call" /\ work[i - 1].s = work[i].s /\ work[i - 1].why \in {"main", "last"}
    BY <1>6, <2>2 DEF Link, Closings
  <2>4. i - 1 = 1
    BY <1>2, <2>2, <2>3
  <2>5. work[i - 1] = Head(work)
    BY <1>1, <2>4
  <2> QED BY <1>1, <2>3, <2>5
<1>7. NamesOf(E, Closings) \subseteq {Caller}
  BY <1>4, <1>6 DEF NamesOf
<1>8. ASSUME Head(work).why \notin {"main", "last"}, NEW t \in E
      PROVE  t.do \notin Closings \cup {"start"}
  <2>1. PICK i \in 1..Len(work) : work[i] = t
    BY <1>4
  <2>2. t.do \notin Closings
    BY <1>6, <1>8, <2>1
  <2>3. ASSUME t.do = "start" PROVE FALSE
    <3>1. i # 1
      BY <1>1, <2>1, <2>3
    <3>2. i - 1 \in 1..Len(work) /\ work[i - 1].do = "stop"
      BY <1>3, <2>1, <2>3, <3>1 DEF Link
    <3> QED BY <1>6, <1>8, <3>2 DEF Closings
  <2> QED BY <2>2, <2>3
<1>9. ASSUME NEW i \in 1..Len(work), work[i].do = "round"
      PROVE  i = 2
  <2>1. i # 1
    BY <1>1, <1>9
  <2>2. i - 1 \in 1..Len(work) /\ work[i - 1].do = "call"
    BY <1>3, <1>9, <2>1 DEF Link
  <2>3. i - 1 = 1
    BY <1>2, <2>2
  <2> QED BY <1>1, <2>3
<1> QED BY <1>5, <1>7, <1>8, <1>9 DEF E

\* A move: the list is rebuilt, and a walk that is on its way goes by the
\* marks, which the scripts after the caller do not have.
LEMMA LuaMoveExact ==
    ASSUME Stack(work), Exact, LuaMove, ~unruly'
    PROVE  Exact'
<1> DEFINE E == ToSet(work)
           R == ToSet(running)
<1>1. /\ At("call") /\ ~Nested /\ Head(work).why \notin {"main", "last"}
      /\ UNCHANGED <<enabled, live, work>> /\ running' = RunningOf(table')
      /\ IsSeq(work)
  BY DEF LuaMove, Stack
<1>0. PICK own \in BOOLEAN : PrepareMove(own) /\ (own \/ moved \/ ~InRound)
  BY DEF LuaMove
<1>2. /\ Caller \in NamesOf(E, {"call"})
      /\ \A t \in E : t.do \notin Closings \cup {"start"}
      /\ \A i \in 1..Len(work) : work[i].do = "round" => i = 2
  BY <1>1, Alone
<1>3. /\ Perm(table) /\ enabled \subseteq Scripts /\ Lists(running, table, R)
      /\ Linked(table, moved, work) /\ Layered(moved, work)
      /\ NamesOK(E, R, live, enabled) /\ StartsOK(E, table, live)
      /\ WalksOK(E, R, table, moved, processed)
  BY DEF Exact, State, Shaped
<1>4. /\ Len(work) \in Nat /\ Len(work) > 0 /\ Head(work) = work[1] /\ work # <<>>
      /\ E = {work[i] : i \in 1..Len(work)} /\ \A i \in 1..Len(work) : work[i] \in E
      /\ Head(work).do = "call" /\ Head(work).s = Caller
  BY <1>1, TailSeq, SetOf DEF At, Caller
<1> HIDE DEF E
<1>5. NamesOf(E, Closings) = {} /\ NamesOf(E, {"stop"}) = {} /\ NamesOf(E, {"start"}) = {}
  BY <1>2 DEF NamesOf, Closings
<1>6. live = R /\ live \subseteq Scripts /\ live \subseteq enabled /\ Caller \in R
      /\ NamesOf(E, {"call"}) \subseteq live
  BY <1>2, <1>3, <1>5 DEF NamesOK
<1>7. PICK new : new = table' /\ Perm(new)
  <2>1. PICK n \in 1..(Len(table) - 1) : table' = Swapped(n)
    BY DEF LuaMove
  <2>2. PICK new : new = table'
    OBVIOUS
  <2>3. new = [table EXCEPT ![n] = table[n + 1], ![n + 1] = table[n]]
    BY <2>1, <2>2 DEF Swapped
  <2>4. Perm(new)
    BY <1>3, <2>3, SwapIsPerm
  <2> QED BY <2>2, <2>4
<1>8. Lists(running', table', live) /\ ToSet(running') = live
  <2>1. Lists(RunningOf(new), new, live)
    BY <1>6, <1>7, RunningIsList
  <2>2. running' = RunningOf(new)
    BY <1>1, <1>7
  <2> QED BY <1>7, <2>1, <2>2 DEF Lists
<1>9. moved'
  BY <1>0 DEF PrepareMove, roundVars
<1>10. Linked(table', moved', work)
  <2> SUFFICES ASSUME NEW i \in 2..Len(work)
               PROVE  Link(table', moved', work[i - 1], work[i])
    BY DEF Linked
  <2>1. Link(table, moved, work[i - 1], work[i])
    BY <1>3 DEF Linked
  <2> QED BY <1>9, <2>1 DEF Link
<1>11. Layered(moved', work)
  <2> SUFFICES ASSUME NEW i \in 1..Len(work), NEW j \in 1..Len(work), i < j
               PROVE  Beneath(moved', work[i], work[j])
    BY DEF Layered
  <2>1. Beneath(moved, work[i], work[j])
    BY <1>3 DEF Layered
  <2>2. ~(work[i].do = "round" /\ work[j].do = "round")
    BY <1>2
  <2> QED BY <2>1, <2>2 DEF Beneath
<1>12. NamesOK(E, ToSet(running'), live, enabled)
  BY <1>3, <1>5, <1>6, <1>8 DEF NamesOK
<1>13. StartsOK(E, table', live)
  <2>1. ASSUME NEW t \in E, t.do = "startFrom" PROVE t.i \in Nat \ {0} /\ Has(E, "stopAll")
    <3>1. PICK i \in 1..Len(work) : work[i] = t
      BY <1>4
    <3>2. i # 1
      BY <1>4, <2>1, <3>1
    <3>3. i \in 2..Len(work) /\ i - 1 \in 1..Len(work)
      BY <1>4, <3>2
    <3>4. Link(table, moved, work[i - 1], t)
      BY <1>3, <3>1, <3>3 DEF Linked
    <3>5. work[i - 1] \in E
      BY <1>4, <3>3
    <3>6. work[i - 1].do = "stopAll"
      BY <1>2, <2>1, <3>4, <3>5 DEF Link, Closings
    <3> QED BY <1>3, <2>1, <3>5, <3>6 DEF Has, StartsOK
  <2> QED BY <2>1 DEF StartsOK
<1>14. ASSUME own, ~moved, NEW y \in R, PlaceIn(table, Caller) < PlaceIn(table, y)
       PROVE  y \notin processed'
  <2> DEFINE callers == {i \in DOMAIN running : running[i] = Caller}
             p == Min(callers)
  <2>1. /\ Len(running) \in Nat /\ DOMAIN running = 1..Len(running)
        /\ \A x \in R : \E i \in 1..Len(running) : running[i] = x
        /\ \A i, j \in 1..Len(running) :
              i < j => PlaceIn(table, running[i]) < PlaceIn(table, running[j])
        /\ \A i \in 1..Len(running) : running[i] \in R
    BY <1>3, ListFacts
  <2>2. callers # {} /\ callers \subseteq Nat
    BY <1>6, <2>1
  <2>3. p \in callers
    <3> HIDE DEF callers
    <3> QED BY <2>2, LeastNumber
  <2>4. Passed(own) = p
    <3>1. callers = {i \in DOMAIN running : own /\ running[i] = Caller}
      BY <1>14
    <3> HIDE DEF callers
    <3> QED BY <2>2, <3>1 DEF Passed
  <2>5. p \in 1..Len(running) /\ running[p] = Caller
    BY <2>1, <2>3
  <2> HIDE DEF callers, p
  <2>6. PICK k \in 1..Len(running) : running[k] = y
    BY <2>1
  <2>7. p < k
    <3>1. /\ PlaceIn(table, Caller) \in 1..Len(table) /\ PlaceIn(table, y) \in 1..Len(table)
          /\ Len(table) \in Nat
      BY <1>3, <1>6, PlaceOf
    <3>2. ~(k < p) /\ k # p
      BY <1>14, <2>1, <2>5, <2>6, <3>1
    <3> QED BY <2>1, <2>5, <2>6, <3>2
  <2>8. k \in (p + 1)..Len(running)
    BY <2>1, <2>5, <2>6, <2>7
  <2>9. y \in {running[i] : i \in (Passed(own) + 1)..Len(running)}
    BY <2>4, <2>6, <2>8
  <2> QED BY <1>0, <1>14, <2>9 DEF PrepareMove
<1>15. WalksOK(E, ToSet(running'), table', moved', processed')
  <2> SUFFICES ASSUME NEW t \in E, t.do = "round"
               PROVE  /\ t.rest \in Seq(Scripts)
                      /\ t.due \subseteq ToSet(t.rest)
                      /\ t.due \subseteq ToSet(running')
                      /\ t.due \cap processed' = {}
    BY <1>9 DEF WalksOK
  <2>1. /\ t.rest \in Seq(Scripts) /\ t.due \subseteq ToSet(t.rest)
        /\ t.due \subseteq R
        /\ moved => t.due \cap processed = {}
    BY <1>3, <1>5 DEF WalksOK
  <2>2. CASE moved
    BY <1>0, <1>6, <1>8, <2>1, <2>2 DEF PrepareMove, roundVars
  <2>3. CASE ~moved
    <3>0. own
      BY <1>0, <1>4, <2>3 DEF InRound
    <3>1. PICK i \in 1..Len(work) : work[i] = t
      BY <1>4
    <3>2. i = 2 /\ 2 \in 2..Len(work) /\ i - 1 = 1
      BY <1>2, <1>4, <3>1
    <3>3. Link(table, moved, work[2 - 1], work[2])
      BY <1>3, <3>2 DEF Linked
    <3>4. work[2 - 1] = Head(work) /\ work[2] = t
      BY <1>4, <3>1, <3>2
    <3>5. \A y \in ToSet(t.rest) : PlaceIn(table, Caller) < PlaceIn(table, y)
      BY <1>4, <2>3, <3>3, <3>4 DEF Link
    <3> QED BY <1>6, <1>8, <1>14, <2>1, <2>3, <3>0, <3>5
  <2> QED BY <2>2, <2>3
<1>16. Fresh(work, live)
  BY <1>4 DEF Fresh
<1>17. Perm(table')
  BY <1>7
<1> QED BY <1>1, <1>3, <1>8, <1>10, <1>11, <1>12, <1>13, <1>15, <1>16, <1>17
        DEF Exact, State, Shaped, E

\* A script is started by code that is not the top level of another.
LEMMA LuaStartScriptExact ==
    ASSUME Stack(work), Exact, LuaStartScript, ~unruly'
    PROVE  Exact'
<1>1. PICK x \in Scripts : /\ x \notin live /\ enabled' = enabled \cup {x}
                           /\ work' = <<StartOf(x, TRUE)>> \o work
                           /\ UNCHANGED <<table, running, moved, processed, live>>
  BY DEF LuaStartScript, StartScript, Push, listVars, roundVars
<1>2. work # <<>> /\ Head(work).do = "call" /\ ~UnderMain /\ IsSeq(work)
  BY DEF LuaStartScript, At, Stack
<1>3. Plain(Head(work))
  BY <1>2 DEF Plain
<1>4. ASSUME Has(ToSet(work), "startFrom") PROVE Has(ToSet(work), "stopAll")
  <2>1. /\ Len(work) \in Nat /\ Len(work) > 0 /\ Head(work) = work[1]
        /\ DOMAIN work = 1..Len(work)
        /\ ToSet(work) = {work[i] : i \in 1..Len(work)}
    BY <1>2, TailSeq, SetOf DEF IsSeq
  <2>2. PICK i \in 1..Len(work) : work[i].do = "startFrom"
    BY <1>4, <2>1 DEF Has
  <2>3. \A j \in 1..Len(work) : j # 1 =>
           j - 1 \in 1..Len(work) /\ Link(table, moved, work[j - 1], work[j])
    <3>1. \A j \in 1..Len(work) : j # 1 => j \in 2..Len(work) /\ j - 1 \in 1..Len(work)
      BY <2>1
    <3> QED BY <3>1 DEF Exact, State, Shaped, Linked
  <2>4. i # 1
    BY <1>2, <2>1, <2>2
  <2>5. i - 1 \in 1..Len(work) /\ Link(table, moved, work[i - 1], work[i])
    BY <2>3, <2>4
  <2>6. CASE work[i - 1].do = "stopAll"
    BY <2>1, <2>5, <2>6 DEF Has
  <2>7. CASE work[i - 1].do \in {"start", "started"} /\ ~work[i - 1].alone
    <3> DEFINE k == i - 1
    <3>1. k \in 1..Len(work) /\ work[k].do \in {"start", "started"} /\ ~work[k].alone
      BY <2>5, <2>7
    <3> HIDE DEF k
    <3>2. k # 1
      BY <1>2, <2>1, <3>1
    <3>3. k - 1 \in 1..Len(work) /\ Link(table, moved, work[k - 1], work[k])
      BY <2>3, <3>1, <3>2
    <3>4. work[k - 1].do = "call" /\ work[k - 1].why = "main"
      BY <3>1, <3>3 DEF Link
    <3>5. UnderMain
      BY <2>1, <3>3, <3>4 DEF UnderMain, Frames
    <3> QED BY <1>2, <3>5
  <2> QED BY <2>2, <2>5, <2>6, <2>7 DEF Link
<1>5. State(<<StartOf(x, TRUE)>> \o work, table, enabled \cup {x}, live, running, moved, processed)
  BY <1>1, <1>2, <1>3, <1>4, StartPushed DEF Exact
<1> QED BY <1>1, <1>5 DEF Exact

\* A script is stopped, or restarted, by code of another one.
LEMMA LuaStopScriptExact ==
    ASSUME Stack(work), Exact, LuaStopScript, ~unruly'
    PROVE  Exact'
<1>1. PICK x \in live, id \in OfScript, own \in BOOLEAN :
          IF Deferred(x, own)
          THEN /\ AddNormal([id |-> id, s |-> x])
               /\ UNCHANGED <<listVars, roundVars, enabled, live, scripting,
                              up, work, unruly, broken>>
          ELSE /\ Depth <= MaxDepth /\ Pending = 0
               /\ StopScript(x, id = "STOPSCRIPT",
                             IF id = "STOPSCRIPT" THEN <<>>
                                                  ELSE <<StartOf(x, TRUE)>>)
               /\ unruly' = (unruly \/ Nested \/ (~own /\ x = Caller))
  BY DEF LuaStopScript
<1>2. CASE Deferred(x, own)
  <2>1. UNCHANGED lists /\ work' = work
    BY <1>1, <1>2 DEF listVars, roundVars, lists
  <2> QED BY <2>1 DEF Exact, lists
<1>3. CASE ~Deferred(x, own)
  <2>1. PICK ts : ts = IF id = "STOPSCRIPT" THEN <<>> ELSE <<StartOf(x, TRUE)>>
    OBVIOUS
  <2>2. PICK now : now = IF id = "STOPSCRIPT" THEN enabled \ {x} ELSE enabled
    OBVIOUS
  <2>3. /\ enabled' = now /\ running' = RemoveRunningScript(x)
        /\ work' = (StopTasks(x) \o ts) \o work
        /\ UNCHANGED <<table, moved, processed, live>> /\ ~Nested
    BY <1>1, <1>3, <2>1, <2>2 DEF StopScript, Push, roundVars
  <2>4. At("call") /\ x # Caller /\ IsSeq(work)
    BY <1>1, <1>3 DEF LuaStopScript, Deferred, Stack
  <2>5. /\ NamesOf(ToSet(work), {"call"}) \subseteq {Caller}
        /\ NamesOf(ToSet(work), Closings) \subseteq {Caller}
    BY <2>3, <2>4, Alone
  <2>6. /\ Perm(table) /\ Lists(running, table, ToSet(running))
        /\ NamesOK(ToSet(work), ToSet(running), live, enabled)
    BY DEF Exact, State
  <2>7. x \in ToSet(running) /\ x \notin NamesOf(ToSet(work), {"call"}) /\ x \in enabled
    <3>1. NamesOf(ToSet(work), {"stop"}) \subseteq NamesOf(ToSet(work), Closings)
      BY NamesOfSome
    <3> QED BY <1>1, <2>4, <2>5, <2>6, <3>1 DEF NamesOK
  <2>8. PICK list : list = running' /\ Lists(list, table, ToSet(running) \ {x})
    <3>1. Lists(RemoveRunningScript(x), table, ToSet(running) \ {x})
      BY <2>6, <2>7, ScriptLeaves
    <3> QED BY <2>3, <3>1
  <2>9. /\ ts \in {<<>>, <<StartOf(x, TRUE)>>}
        /\ now = enabled \/ (now = enabled \ {x} /\ ts = <<>>)
        /\ ts # <<>> => x \in now
    BY <2>1, <2>2, <2>7
  <2>10. Plain(Head(work))
    BY <2>4 DEF At, Plain
  <2>11. State((StopTasks(x) \o ts) \o work, table, now, live, list, moved, processed)
    BY <2>4, <2>7, <2>8, <2>9, <2>10, StopPushed DEF Exact
  <2> QED BY <2>3, <2>8, <2>11 DEF Exact
<1> QED BY <1>2, <1>3

-----------------------------------------------------------------------------
\* The steps of the hub.

Quiet == {"begin", "process", "serve", "final", "stopAll", "startFrom"}

\* Tasks of the hub, when no script is being started or stopped.
LEMMA QuietStack ==
    ASSUME NEW w, IsSeq(w), NEW tbl, NEW en, NEW run, NEW m, NEW marks,
           State(<<>>, tbl, en, ToSet(run), run, m, marks),
           Shaped(w, tbl, m), \A t \in ToSet(w) : t.do \in Quiet,
           \A t \in ToSet(w) : t.do = "startFrom" =>
              t.i = 1 /\ (Has(ToSet(w), "stopAll") \/ ToSet(run) = {})
    PROVE  State(w, tbl, en, ToSet(run), run, m, marks)
<1> DEFINE E == ToSet(w)
<1>1. NamesOK({}, ToSet(run), ToSet(run), en)
  BY SetOf DEF State
<1>2. /\ NamesOf(E, Closings) = {} /\ NamesOf(E, {"stop"}) = {}
      /\ NamesOf(E, {"call"}) = {} /\ NamesOf(E, {"start"}) = {}
  BY DEF NamesOf, Closings, Quiet
<1>3. NamesOf({}, Closings) = {} /\ NamesOf({}, {"stop"}) = {}
  BY DEF NamesOf
<1>4. NamesOK(E, ToSet(run), ToSet(run), en)
  BY <1>1, <1>2, <1>3 DEF NamesOK
<1>5. StartsOK(E, tbl, ToSet(run))
  BY <1>2 DEF StartsOK
<1>6. WalksOK(E, ToSet(run), tbl, m, marks)
  BY DEF WalksOK, Quiet
<1>7. Fresh(w, ToSet(run))
  <2>1. w # <<>> => Head(w) \in E
    BY SetOfTail
  <2> QED BY <2>1 DEF Fresh, Quiet
<1> QED BY <1>4, <1>5, <1>6, <1>7 DEF State

\* The scripts with a state, when nothing is left to do.
LEMMA Waits ==
    ASSUME Exact, work = <<>>
    PROVE  live = ToSet(running) /\ live \subseteq enabled
           /\ Lists(running, table, ToSet(running))
           /\ State(<<>>, table, enabled, ToSet(running), running, moved, processed)
<1>1. State(<<>>, table, enabled, live, running, moved, processed)
  BY DEF Exact
<1>2. NamesOK({}, ToSet(running), live, enabled) /\ Lists(running, table, ToSet(running))
  BY <1>1, SetOf DEF State
<1>3. NamesOf({}, Closings) = {} /\ NamesOf({}, {"stop"}) = {}
  BY DEF NamesOf
<1>4. live = ToSet(running) /\ live \subseteq enabled
  BY <1>2, <1>3 DEF NamesOK
<1> QED BY <1>1, <1>2, <1>4

LEMMA FourTasks ==
    ASSUME NEW tbl, NEW m, NEW a, NEW b, NEW c, NEW d,
           Link(tbl, m, a, b), Link(tbl, m, b, c), Link(tbl, m, c, d),
           Beneath(m, a, b), Beneath(m, a, c), Beneath(m, a, d),
           Beneath(m, b, c), Beneath(m, b, d), Beneath(m, c, d)
    PROVE  LET w == <<a, b, c, d>>
           IN  /\ IsSeq(w) /\ Shaped(w, tbl, m) /\ ToSet(w) = {a, b, c, d}
               /\ Len(w) = 4 /\ w[4] = d
<1> DEFINE w == <<a, b, c, d>>
<1>1. Len(w) = 4 /\ w[1] = a /\ w[2] = b /\ w[3] = c /\ w[4] = d
  OBVIOUS
<1>2. IsSeq(w)
  BY Short
<1> HIDE DEF w
<1>3. Linked(tbl, m, w)
  <2> SUFFICES ASSUME NEW i \in 2..4 PROVE Link(tbl, m, w[i - 1], w[i])
    BY <1>1 DEF Linked
  <2>1. (i = 2 /\ i - 1 = 1) \/ (i = 3 /\ i - 1 = 2) \/ (i = 4 /\ i - 1 = 3)
    OBVIOUS
  <2> QED BY <1>1, <2>1
<1>4. Layered(m, w)
  <2> SUFFICES ASSUME NEW i \in 1..4, NEW j \in 1..4, i < j PROVE Beneath(m, w[i], w[j])
    BY <1>1 DEF Layered
  <2>1. \/ (i = 1 /\ j = 2) \/ (i = 1 /\ j = 3) \/ (i = 1 /\ j = 4)
        \/ (i = 2 /\ j = 3) \/ (i = 2 /\ j = 4) \/ (i = 3 /\ j = 4)
    OBVIOUS
  <2> QED BY <1>1, <2>1
<1>5. ToSet(w) = {a, b, c, d}
  <2>1. ToSet(w) = {w[i] : i \in 1..4}
    BY <1>1, <1>2, SetOf
  <2>2. \A i \in 1..4 : w[i] \in {a, b, c, d}
    <3>1. \A i \in 1..4 : i = 1 \/ i = 2 \/ i = 3 \/ i = 4
      OBVIOUS
    <3> QED BY <1>1, <3>1
  <2>3. a \in ToSet(w) /\ b \in ToSet(w) /\ c \in ToSet(w) /\ d \in ToSet(w)
    <3>1. 1 \in 1..4 /\ 2 \in 1..4 /\ 3 \in 1..4 /\ 4 \in 1..4
      OBVIOUS
    <3> QED BY <1>1, <2>1, <3>1
  <2> QED BY <2>1, <2>2, <2>3
<1> QED BY <1>1, <1>2, <1>3, <1>4, <1>5 DEF Shaped, w

\* The shapes of the stacks of the hub.
LEMMA HubShapes ==
    ASSUME NEW tbl, NEW m
    PROVE  /\ \A a : IsSeq(<<a>>) /\ Shaped(<<a>>, tbl, m) /\ ToSet(<<a>>) = {a}
           /\ \A a, b : a.do = "begin" /\ b.do \in {"stopAll", "final"} =>
                 IsSeq(<<a, b>>) /\ Shaped(<<a, b>>, tbl, m) /\ ToSet(<<a, b>>) = {a, b}
           /\ \A a, b : a.do = "startFrom" /\ b.do = "serve" =>
                 IsSeq(<<a, b>>) /\ Shaped(<<a, b>>, tbl, m) /\ ToSet(<<a, b>>) = {a, b}
           /\ IsSeq(RestartTasks) /\ Shaped(RestartTasks, tbl, m)
           /\ ToSet(RestartTasks) = {Begin("exit", FALSE), StopAll, StartFrom(1),
                                     Begin("startup", FALSE)}
<1>1. \A a : IsSeq(<<a>>) /\ Shaped(<<a>>, tbl, m) /\ ToSet(<<a>>) = {a}
  BY Short, ShortStacks, SetOf DEF Shaped
<1>2. ASSUME NEW a, NEW b, \/ a.do = "begin" /\ b.do \in {"stopAll", "final"}
                           \/ a.do = "startFrom" /\ b.do = "serve"
      PROVE  IsSeq(<<a, b>>) /\ Shaped(<<a, b>>, tbl, m) /\ ToSet(<<a, b>>) = {a, b}
  <2>1. Link(tbl, m, a, b) /\ Beneath(m, a, b)
    BY <1>2 DEF Link, Beneath, Closings
  <2>2. Linked(tbl, m, <<a, b>>)
    BY <2>1, ShortStacks
  <2>3. Layered(m, <<a, b>>)
    BY <2>1, ShortStacks
  <2> QED BY <2>2, <2>3, Short, SetOf DEF Shaped
<1>3. /\ IsSeq(RestartTasks) /\ Shaped(RestartTasks, tbl, m)
      /\ ToSet(RestartTasks) = {Begin("exit", FALSE), StopAll, StartFrom(1),
                                Begin("startup", FALSE)}
  <2> DEFINE a == Begin("exit", FALSE)
             b == StopAll
             c == StartFrom(1)
             d == Begin("startup", FALSE)
  <2>1. a.do = "begin" /\ b.do = "stopAll" /\ c.do = "startFrom" /\ d.do = "begin"
        /\ RestartTasks = <<a, b, c, d>>
    BY DEF Begin, StopAll, StartFrom, RestartTasks
  <2> HIDE DEF a, b, c, d
  <2>2. Link(tbl, m, a, b) /\ Link(tbl, m, b, c) /\ Link(tbl, m, c, d)
    BY <2>1 DEF Link
  <2>3. /\ Beneath(m, a, b) /\ Beneath(m, a, c) /\ Beneath(m, a, d)
        /\ Beneath(m, b, c) /\ Beneath(m, b, d) /\ Beneath(m, c, d)
    BY <2>1 DEF Beneath, Closings
  <2>4. /\ IsSeq(<<a, b, c, d>>) /\ Shaped(<<a, b, c, d>>, tbl, m)
        /\ ToSet(<<a, b, c, d>>) = {a, b, c, d}
    BY <2>2, <2>3, FourTasks
  <2> QED BY <2>1, <2>4 DEF a, b, c, d
<1> QED BY <1>1, <1>2, <1>3

\* The lists when no code runs and no script is being started or stopped.
Ready ==
    /\ live = ToSet(running) /\ live \subseteq enabled
    /\ State(<<>>, table, enabled, live, running, moved, processed)

LEMMA IdleReady ==
    ASSUME Exact, work = <<>>
    PROVE  Ready
BY Waits DEF Ready

\* The same at the bottom of the stack.
LEMMA BottomReady ==
    ASSUME Stack(work), Exact, work # <<>>, Head(work).do \in Bottoms
    PROVE  Ready /\ IsSeq(Tail(work)) /\ Len(Tail(work)) = 0 /\ Tail(work) = <<>>
<1>1. IsSeq(Tail(work)) /\ Len(Tail(work)) = 0
  BY AtBottom
<1>2. Tail(work) = <<>>
  <2>1. ASSUME NEW t, IsSeq(t), Len(t) = 0 PROVE t = <<>>
    BY <2>1 DEF IsSeq
  <2> QED BY <1>1, <2>1
<1>3. State(Tail(work), table, enabled, live, running, moved, processed)
  BY Popping DEF Exact, Bottoms
<1>4. State(<<>>, table, enabled, live, running, moved, processed)
  BY <1>2, <1>3
<1>5. NamesOK({}, ToSet(running), live, enabled)
  BY <1>4, SetOf DEF State
<1>6. NamesOf({}, Closings) = {} /\ NamesOf({}, {"stop"}) = {}
  BY DEF NamesOf
<1>7. live = ToSet(running) /\ live \subseteq enabled
  BY <1>5, <1>6 DEF NamesOK
<1> QED BY <1>1, <1>2, <1>4, <1>7 DEF Ready

\* The lists are left alone and only tasks of the hub are to be done.
LEMMA HubExact ==
    ASSUME Ready, UNCHANGED lists, NEW w, work' = w, IsSeq(w), Shaped(w, table, moved),
           \A t \in ToSet(w) : t.do \in Quiet,
           \A t \in ToSet(w) : t.do = "startFrom" =>
              t.i = 1 /\ (Has(ToSet(w), "stopAll") \/ live = {})
    PROVE  Exact'
<1>1. live = ToSet(running)
  BY DEF Ready
<1>2. State(w, table, enabled, ToSet(running), running, moved, processed)
  BY <1>1, QuietStack DEF Ready
<1> QED BY <1>1, <1>2 DEF Exact, lists

\* One task, the tasks of the end of the hub, and those of a restart.
LEMMA OneTaskExact ==
    ASSUME Ready, UNCHANGED lists, NEW a, work' = <<a>>, a.do \in Quiet \ {"startFrom"}
    PROVE  Exact'
<1>1. IsSeq(<<a>>) /\ Shaped(<<a>>, table, moved) /\ ToSet(<<a>>) = {a}
  BY HubShapes
<1>2. PICK w : w = <<a>>
  OBVIOUS
<1>3. IsSeq(w) /\ Shaped(w, table, moved) /\ ToSet(w) = {a} /\ work' = w
  BY <1>1, <1>2
<1>4. \A t \in ToSet(w) : t.do \in Quiet /\ t.do # "startFrom"
  BY <1>3
<1> QED BY <1>3, <1>4, HubExact

LEMMA EndTasksExact ==
    ASSUME Ready, UNCHANGED lists, work' = EndTasks
    PROVE  Exact'
<1>1. PICK a, b : /\ EndTasks = <<a, b>> /\ a.do = "begin" /\ b.do = "final"
  BY DEF EndTasks, Begin, Final
<1>2. PICK w : w = <<a, b>>
  OBVIOUS
<1>3. IsSeq(w) /\ Shaped(w, table, moved) /\ ToSet(w) = {a, b} /\ work' = w
  BY <1>1, <1>2, HubShapes
<1>4. \A t \in ToSet(w) : t.do \in Quiet /\ t.do # "startFrom"
  BY <1>1, <1>3 DEF Quiet
<1> QED BY <1>3, <1>4, HubExact

LEMMA RestartTasksExact ==
    ASSUME Ready, UNCHANGED lists, work' = RestartTasks
    PROVE  Exact'
<1>1. /\ IsSeq(RestartTasks) /\ Shaped(RestartTasks, table, moved)
      /\ ToSet(RestartTasks) = {Begin("exit", FALSE), StopAll, StartFrom(1),
                                Begin("startup", FALSE)}
  BY HubShapes
<1>2. \A t \in ToSet(RestartTasks) :
        t.do \in Quiet /\ (t.do = "startFrom" => t.i = 1)
  BY <1>1 DEF Quiet, Begin, StopAll, StartFrom
<1>3. Has(ToSet(RestartTasks), "stopAll")
  BY <1>1 DEF Has, StopAll
<1>4. PICK w : w = RestartTasks
  OBVIOUS
<1>5. /\ IsSeq(w) /\ Shaped(w, table, moved) /\ work' = w
      /\ \A t \in ToSet(w) : t.do \in Quiet /\ (t.do = "startFrom" => t.i = 1)
      /\ Has(ToSet(w), "stopAll")
  BY <1>1, <1>2, <1>3, <1>4
<1> QED BY <1>5, HubExact

\* The same above the rest of a batch of events.
LEMMA AboveBatchExact ==
    ASSUME Ready, UNCHANGED lists, NEW p, p.do = "process", NEW u, IsSeq(u),
           Shaped(u, table, moved), \A t \in ToSet(u) : t.do \in Quiet,
           \A t \in ToSet(u) : t.do = "startFrom" => t.i = 1 /\ Has(ToSet(u), "stopAll"),
           work' = u \o <<p>>
    PROVE  Exact'
<1> DEFINE w == u \o <<p>>
<1>1. IsSeq(<<p>>) /\ Shaped(<<p>>, table, moved) /\ ToSet(<<p>>) = {p} /\ Head(<<p>>) = p
  <2>1. Head(<<p>>) = p
    OBVIOUS
  <2> QED BY <2>1, HubShapes
<1>2. IsSeq(w)
  BY <1>1, Concat
<1>3. Link(table, moved, u[Len(u)], p)
  BY DEF Link
<1>4. \A a \in ToSet(u), b \in ToSet(<<p>>) : Beneath(moved, a, b)
  BY <1>1 DEF Beneath, Closings
<1>5. Linked(table, moved, w)
  BY <1>1, <1>3, JoinLinked DEF Shaped
<1>6. Layered(moved, w)
  BY <1>1, <1>4, JoinLayered DEF Shaped
<1>7. ToSet(w) = ToSet(u) \cup {p}
  BY <1>1, SetOfConcat
<1>8. work' = w
  OBVIOUS
<1> HIDE DEF w
<1>9. \A t \in ToSet(w) : t.do \in Quiet
  BY <1>7 DEF Quiet
<1>10. \A t \in ToSet(w) : t.do = "startFrom" => t.i = 1 /\ Has(ToSet(w), "stopAll")
  BY <1>7 DEF Has
<1>11. Shaped(w, table, moved)
  BY <1>5, <1>6 DEF Shaped
<1> QED BY <1>2, <1>8, <1>9, <1>10, <1>11, HubExact

\* What comes from outside.
LEMMA OutsideExact ==
    ASSUME Stack(work), Exact,
           \/ UserActs \/ TimerFires \/ OperatorRestarts \/ OperatorRestartsHub
           \/ ProcessEvents \/ Signal
    PROVE  Exact'
<1>1. UNCHANGED lists /\ work = <<>>
  BY DEF UserActs, TimerFires, OperatorRestarts, OperatorRestartsHub, ProcessEvents, Signal,
         Outside, MayManage, Idle, listVars, roundVars, lists
<1>2. Ready
  BY <1>1, IdleReady
<1>3. CASE UserActs
  <2>1. PICK kind : work' = <<Begin(kind, FALSE)>>
    BY <1>3 DEF UserActs, Outside
  <2>2. PICK a : a = Begin(kind, FALSE)
    OBVIOUS
  <2>3. a.do \in Quiet \ {"startFrom"} /\ work' = <<a>>
    BY <2>1, <2>2 DEF Begin, Quiet
  <2> QED BY <1>1, <1>2, <2>3, OneTaskExact
<1>4. CASE TimerFires
  <2>1. PICK x \in live : work' = <<Call(x, "timer")>>
    BY <1>4 DEF TimerFires, Outside
  <2>2. PICK c : c = Call(x, "timer")
    OBVIOUS
  <2>3. c.do = "call" /\ c.s \in live /\ work' = <<c>>
    BY <2>1, <2>2 DEF Call
  <2>4. PICK e : e = <<>>
    OBVIOUS
  <2>5. IsSeq(e) /\ State(e, table, enabled, live, running, moved, processed)
    BY <1>2, <2>4, Short DEF Ready
  <2>6. State(<<c>> \o e, table, enabled, live, running, moved, processed)
    <3>1. e = <<>> \/ Plain(Head(e))
      BY <2>4
    <3>2. c.do \in {"call", "begin", "process", "serve", "final"} /\ (c.do = "call" => c.s \in live)
      BY <2>3
    <3> QED BY <2>5, <3>1, <3>2, QuietPush
  <2>7. <<c>> \o e = <<c>>
    <3>1. Len(e) = 0 /\ IsSeq(<<c>>)
      BY <2>4, Short
    <3> QED BY <2>5, <3>1, NoTail
  <2> QED BY <1>1, <2>3, <2>6, <2>7 DEF Exact, lists
<1>5. CASE OperatorRestarts
  <2>1. work' = RestartTasks
    BY <1>5 DEF OperatorRestarts, Outside
  <2> QED BY <1>1, <1>2, <2>1, RestartTasksExact
<1>6. CASE OperatorRestartsHub
  <2>1. work' = work
    BY <1>6 DEF OperatorRestartsHub
  <2> QED BY <1>1, <2>1 DEF Exact, lists
<1>7. CASE ProcessEvents
  <2>1. work' = <<Process(events)>>
    BY <1>7 DEF ProcessEvents
  <2>2. PICK a : a = Process(events)
    OBVIOUS
  <2>3. a.do \in Quiet \ {"startFrom"} /\ work' = <<a>>
    BY <2>1, <2>2 DEF Process, Quiet
  <2> QED BY <1>1, <1>2, <2>3, OneTaskExact
<1>8. CASE Signal
  <2>1. work' = work \/ work' = EndTasks
    <3>1. CASE isClose
      BY <1>8, <3>1 DEF Signal
    <3>2. CASE ~isClose
      BY <1>8, <3>2 DEF Signal
    <3> QED BY <3>1, <3>2
  <2>2. CASE work' = work
    BY <1>1, <2>2 DEF Exact, lists
  <2>3. CASE work' = EndTasks
    BY <1>1, <1>2, <2>3, EndTasksExact
  <2> QED BY <2>1, <2>2, <2>3
<1> QED BY <1>3, <1>4, <1>5, <1>6, <1>7, <1>8

\* An operator or an event stops or restarts one script.
LEMMA StopOneExact ==
    ASSUME Ready, NEW w, IsSeq(w), State(w, table, enabled, live, running, moved, processed),
           w = <<>> \/ Plain(Head(w)), NamesOf(ToSet(w), {"call"}) = {},
           NEW x \in live, NEW ts,
           \/ ts = <<>> /\ (enabled' = enabled \/ enabled' = enabled \ {x})
           \/ ts = <<StartOf(x, TRUE)>> /\ enabled' = enabled,
           running' = RemoveRunningScript(x), work' = (StopTasks(x) \o ts) \o w,
           UNCHANGED <<table, moved, processed, live>>
    PROVE  Exact'
<1>1. /\ Perm(table) /\ Lists(running, table, ToSet(running))
      /\ x \in ToSet(running) /\ x \in enabled
  BY DEF Ready, State
<1>2. PICK list : list = running' /\ Lists(list, table, ToSet(running) \ {x})
  <2>1. Lists(RemoveRunningScript(x), table, ToSet(running) \ {x})
    BY <1>1, ScriptLeaves
  <2> QED BY <2>1
<1>3. PICK now : now = enabled'
  OBVIOUS
<1>4. /\ ts \in {<<>>, <<StartOf(x, TRUE)>>}
      /\ now = enabled \/ (now = enabled \ {x} /\ ts = <<>>)
      /\ ts # <<>> => x \in now
  BY <1>1, <1>3
<1>5. x \notin NamesOf(ToSet(w), {"call"})
  OBVIOUS
<1>6. State((StopTasks(x) \o ts) \o w, table, now, live, list, moved, processed)
  BY <1>1, <1>2, <1>4, <1>5, StopPushed
<1> QED BY <1>2, <1>3, <1>6 DEF Exact

\* The commands of operators.
LEMMA OperatorExact ==
    ASSUME Stack(work), Exact, OperatorStops \/ OperatorStarts
    PROVE  Exact'
<1>1. work = <<>>
  BY DEF OperatorStops, OperatorStarts, MayManage, Idle
<1>2. Ready
  BY <1>1, IdleReady
<1>3. IsSeq(work) /\ NamesOf(ToSet(work), {"call"}) = {}
  <2>1. ToSet(work) = {}
    BY <1>1, SetOf
  <2> QED BY <2>1 DEF Stack, NamesOf
<1>4. CASE OperatorStops
  <2>1. PICK x \in live \cap enabled, disable \in BOOLEAN :
           StopScript(x, disable, IF disable THEN <<>> ELSE <<StartOf(x, TRUE)>>)
    BY <1>4 DEF OperatorStops
  <2>2. PICK ts : ts = IF disable THEN <<>> ELSE <<StartOf(x, TRUE)>>
    OBVIOUS
  <2>3. \/ ts = <<>> /\ (enabled' = enabled \/ enabled' = enabled \ {x})
        \/ ts = <<StartOf(x, TRUE)>> /\ enabled' = enabled
    BY <2>1, <2>2 DEF StopScript
  <2>4. /\ running' = RemoveRunningScript(x)
        /\ work' = (StopTasks(x) \o ts) \o work
        /\ UNCHANGED <<table, moved, processed, live>>
    BY <2>1, <2>2 DEF StopScript, Push, roundVars
  <2> QED BY <1>1, <1>2, <1>3, <2>3, <2>4, StopOneExact DEF Exact
<1>5. CASE OperatorStarts
  <2>1. PICK x \in Scripts : /\ x \notin live \cap enabled /\ enabled' = enabled \cup {x}
                             /\ work' = <<StartOf(x, TRUE)>> \o work
                             /\ UNCHANGED <<table, running, moved, processed, live>>
    BY <1>5 DEF OperatorStarts, StartScript, Push, listVars, roundVars
  <2>2. x \notin live
    BY <1>2, <2>1 DEF Ready
  <2>3. ~Has(ToSet(work), "startFrom")
    BY <1>1, SetOf DEF Has
  <2>4. State(<<StartOf(x, TRUE)>> \o work, table, enabled \cup {x}, live, running, moved,
              processed)
    BY <1>1, <1>3, <2>1, <2>2, <2>3, StartPushed DEF Exact
  <2> QED BY <2>1, <2>4 DEF Exact
<1> QED BY <1>4, <1>5

\* The events of a batch.
LEMMA EventsExact ==
    ASSUME Stack(work), Exact, 
           Restart \/ Shutdown \/ StopScripting \/ RestartScripts \/ StopOrRestartScript
    PROVE  Exact'
<1>1. /\ work # <<>> /\ Head(work).do \in Bottoms
      /\ UNCHANGED <<table, moved, processed, live>>
  BY DEF Restart, Shutdown, StopScripting, RestartScripts, StopOrRestartScript, AtEvent, At,
         Bottoms, listVars, roundVars
<1>2. Ready /\ IsSeq(Tail(work)) /\ Len(Tail(work)) = 0 /\ Tail(work) = <<>>
  BY <1>1, BottomReady
<1>3. PICK p : p = Then
  OBVIOUS
<1>4. p.do = "process"
  BY <1>3 DEF Then, Process
<1>5. IsSeq(<<p>>) /\ ToSet(<<p>>) = {p} /\ Head(<<p>>) = p
  <2>1. Head(<<p>>) = p
    OBVIOUS
  <2> QED BY <2>1, HubShapes
<1>6. \A u : IsSeq(u) => (u \o <<p>>) \o Tail(work) = u \o <<p>>
  <2>1. \A u : IsSeq(u) => IsSeq(u \o <<p>>)
    BY <1>5, Concat
  <2> QED BY <1>2, <2>1, NoTail
<1>7. <<p>> \o Tail(work) = <<p>> /\ <<>> \o <<p>> = <<p>>
  BY <1>2, <1>5, NoTail, Pairs, ZenonT(60)
<1>8. ASSUME work' = <<p>> \o Tail(work), UNCHANGED lists
      PROVE  Exact'
  <2>1. work' = <<p>>
    BY <1>7, <1>8
  <2> QED BY <1>2, <1>4, <1>8, <2>1, OneTaskExact DEF Quiet
<1>9. CASE Restart \/ Shutdown
  <2>1. work' = <<p>> \o Tail(work)
    BY <1>3, <1>9 DEF Restart, Shutdown, Replace
  <2>2. UNCHANGED lists
    BY <1>9 DEF Restart, Shutdown, listVars, roundVars, lists
  <2> QED BY <1>8, <2>1, <2>2
<1>10. CASE StopScripting
  <2>1. UNCHANGED lists
    BY <1>10 DEF StopScripting, listVars, roundVars, lists
  <2>2. CASE ~scripting
    <3>1. work' = (<<>> \o <<p>>) \o Tail(work)
      BY <1>3, <1>10, <2>2 DEF StopScripting, Replace
    <3> QED BY <1>7, <1>8, <2>1, <3>1
  <2>3. CASE scripting
    <3>1. PICK a, b : a = Begin("exit", TRUE) /\ b = StopAll
      OBVIOUS
    <3>2. PICK u : u = <<a, b>>
      OBVIOUS
    <3>3. work' = (u \o <<p>>) \o Tail(work)
      BY <1>3, <1>10, <2>3, <3>1, <3>2 DEF StopScripting, Replace
    <3>4. a.do = "begin" /\ b.do = "stopAll"
      BY <3>1 DEF Begin, StopAll
    <3>5. IsSeq(u) /\ Shaped(u, table, moved) /\ ToSet(u) = {a, b}
      BY <3>2, <3>4, HubShapes
    <3>6. \A t \in ToSet(u) : t.do \in Quiet /\ t.do # "startFrom"
      BY <3>4, <3>5 DEF Quiet
    <3>7. work' = u \o <<p>>
      BY <1>6, <3>3, <3>5
    <3> QED BY <1>2, <1>4, <2>1, <3>5, <3>6, <3>7, AboveBatchExact
  <2> QED BY <2>2, <2>3
<1>11. CASE RestartScripts
  <2>1. UNCHANGED lists
    BY <1>11 DEF RestartScripts, listVars, roundVars, lists
  <2>2. PICK u : u = RestartTasks
    OBVIOUS
  <2>3. work' = (u \o <<p>>) \o Tail(work)
    BY <1>3, <1>11, <2>2 DEF RestartScripts, Replace
  <2>4. /\ IsSeq(u) /\ Shaped(u, table, moved)
        /\ ToSet(u) = {Begin("exit", FALSE), StopAll, StartFrom(1), Begin("startup", FALSE)}
    BY <2>2, HubShapes
  <2>5. \A t \in ToSet(u) : t.do \in Quiet /\ (t.do = "startFrom" => t.i = 1)
    BY <2>4 DEF Quiet, Begin, StopAll, StartFrom
  <2>6. Has(ToSet(u), "stopAll")
    BY <2>4 DEF Has, StopAll
  <2>7. work' = u \o <<p>>
    BY <1>6, <2>3, <2>4
  <2> QED BY <1>2, <1>4, <2>1, <2>4, <2>5, <2>6, <2>7, AboveBatchExact
<1>12. CASE StopOrRestartScript
  <2> DEFINE x == Event.s
             disable == Event.id = "STOPSCRIPT"
  <2>1. CASE x \notin live \cap enabled
    <3>1. UNCHANGED <<enabled, running>> /\ work' = <<p>> \o Tail(work)
      BY <1>3, <1>12, <2>1 DEF StopOrRestartScript, Replace
    <3>2. UNCHANGED lists
      BY <1>1, <3>1 DEF lists
    <3> QED BY <1>8, <3>1, <3>2
  <2>2. CASE x \in live \cap enabled
    <3>1. PICK ts : ts = IF disable THEN <<>> ELSE <<StartOf(x, TRUE)>>
      OBVIOUS
    <3>2. /\ enabled' = IF disable THEN enabled \ {x} ELSE enabled
          /\ running' = RemoveRunningScript(x)
          /\ work' = ((StopTasks(x) \o ts) \o <<p>>) \o Tail(work)
      BY <1>3, <1>12, <2>2, <3>1 DEF StopOrRestartScript, Replace
    <3>3. \/ ts = <<>> /\ (enabled' = enabled \/ enabled' = enabled \ {x})
          \/ ts = <<StartOf(x, TRUE)>> /\ enabled' = enabled
      BY <3>1, <3>2
    <3>4. PICK w : w = <<p>>
      OBVIOUS
    <3>5. IsSeq(w) /\ ToSet(w) = {p} /\ Head(w) = p
      BY <1>5, <3>4
    <3>6. Plain(Head(w)) /\ NamesOf(ToSet(w), {"call"}) = {}
      BY <1>4, <3>5 DEF Plain, NamesOf
    <3>7. IsSeq(StopTasks(x) \o ts)
      BY <3>3, StopTasksOwed
    <3>8. work' = (StopTasks(x) \o ts) \o w
      BY <1>6, <3>2, <3>4, <3>7
    <3>9. State(w, table, enabled, live, running, moved, processed)
      <4>1. PICK e : e = Tail(work)
        OBVIOUS
      <4>2. IsSeq(e) /\ State(e, table, enabled, live, running, moved, processed)
        BY <1>2, <4>1 DEF Ready
      <4>3. State(<<p>> \o e, table, enabled, live, running, moved, processed)
        <5>1. e = <<>> \/ Plain(Head(e))
          BY <1>2, <4>1
        <5>2. p.do \in {"call", "begin", "process", "serve", "final"}
              /\ (p.do = "call" => p.s \in live)
          BY <1>4
        <5> QED BY <4>2, <5>1, <5>2, QuietPush
      <4> QED BY <1>7, <3>4, <4>1, <4>3
    <3>10. x \in live
      BY <2>2
    <3> HIDE DEF x, disable
    <3> QED BY <1>1, <1>2, <3>2, <3>3, <3>5, <3>6, <3>8, <3>9, <3>10, StopOneExact
  <2> QED BY <2>1, <2>2
<1> QED BY <1>9, <1>10, <1>11, <1>12

\* What the hub starts with, with no script that has a state.
LEMMA StartTasksExact ==
    ASSUME NEW tbl, NEW en, NEW m, NEW marks, State(<<>>, tbl, en, {}, <<>>, m, marks)
    PROVE  State(StartTasks, tbl, en, {}, <<>>, m, marks)
<1>0. ToSet(<<>>) = {}
  BY SetOf
<1>1. CASE scripting
  <2>1. PICK a, b : a = StartFrom(1) /\ b = Serve
    OBVIOUS
  <2>2. a.do = "startFrom" /\ a.i = 1 /\ b.do = "serve"
    BY <2>1 DEF StartFrom, Serve
  <2>3. PICK w : w = <<a, b>>
    OBVIOUS
  <2>4. StartTasks = w
    BY <1>1, <2>1, <2>3 DEF StartTasks
  <2>5. IsSeq(w) /\ Shaped(w, tbl, m) /\ ToSet(w) = {a, b}
    BY <2>2, <2>3, HubShapes
  <2>6. \A t \in ToSet(w) : t.do \in Quiet /\ (t.do = "startFrom" => t.i = 1)
    BY <2>2, <2>5 DEF Quiet
  <2>7. State(w, tbl, en, ToSet(<<>>), <<>>, m, marks)
    BY <1>0, <2>5, <2>6, QuietStack
  <2> QED BY <1>0, <2>4, <2>7
<1>2. CASE ~scripting
  <2>1. PICK b : b = Serve
    OBVIOUS
  <2>2. PICK w : w = <<b>>
    OBVIOUS
  <2>3. StartTasks = w /\ b.do = "serve"
    BY <1>2, <2>1, <2>2 DEF StartTasks, Serve
  <2>4. IsSeq(w) /\ Shaped(w, tbl, m) /\ ToSet(w) = {b}
    BY <2>2, HubShapes
  <2>5. \A t \in ToSet(w) : t.do \in Quiet /\ t.do # "startFrom"
    BY <2>3, <2>4 DEF Quiet
  <2>6. State(w, tbl, en, ToSet(<<>>), <<>>, m, marks)
    BY <1>0, <2>4, <2>5, QuietStack
  <2> QED BY <1>0, <2>3, <2>6
<1> QED BY <1>1, <1>2

\* No script has a state and nothing is to be done.
LEMMA NothingLeft ==
    ASSUME NEW tbl, NEW en, NEW m, NEW marks, Perm(tbl), en \subseteq Scripts
    PROVE  State(<<>>, tbl, en, {}, <<>>, m, marks)
<1>1. ToSet(<<>>) = {}
  BY SetOf
<1>2. Linked(tbl, m, <<>>) /\ Layered(m, <<>>)
  BY ShortStacks
<1>3. \A kinds : NamesOf({}, kinds) = {}
  BY DEF NamesOf
<1>4. NamesOK({}, {}, {}, en) /\ StartsOK({}, tbl, {}) /\ WalksOK({}, {}, tbl, m, marks)
  BY <1>3 DEF NamesOK, StartsOK, WalksOK
<1>5. Lists(<<>>, tbl, {})
  BY EmptyList
<1> QED BY <1>1, <1>2, <1>4, <1>5 DEF State, Shaped, Fresh

\* The end of a batch, the start of the service and the final stop.
LEMMA BottomExact ==
    ASSUME Stack(work), Exact, BatchDone \/ StartServing \/ FinalStop
    PROVE  Exact'
<1>1. work # <<>> /\ Head(work).do \in Bottoms
  BY DEF BatchDone, StartServing, FinalStop, At, Bottoms
<1>2. Ready /\ IsSeq(Tail(work)) /\ Len(Tail(work)) = 0 /\ Tail(work) = <<>>
  BY <1>1, BottomReady
<1>3. \A ts : IsSeq(ts) => ts \o Tail(work) = ts
  BY <1>2, NoTail
<1>4. CASE BatchDone
  <2>1. UNCHANGED lists
    BY <1>4 DEF BatchDone, listVars, roundVars, lists
  <2>2. work' = EndTasks \/ work' = <<>>
    <3>1. IsSeq(EndTasks) /\ IsSeq(<<>>)
      BY SilentTasks
    <3>2. work' = AfterBatch \o Tail(work) /\ (AfterBatch = EndTasks \/ AfterBatch = <<>>)
      BY <1>4 DEF BatchDone, Replace, AfterBatch
    <3> QED BY <1>3, <3>1, <3>2
  <2>3. CASE work' = EndTasks
    BY <1>2, <2>1, <2>3, EndTasksExact
  <2>4. CASE work' = <<>>
    BY <1>2, <2>1, <2>4 DEF Ready, Exact, lists
  <2> QED BY <2>2, <2>3, <2>4
<1>5. CASE StartServing
  <2>1. UNCHANGED lists /\ work' = <<Begin("startup", FALSE)>> \o Tail(work)
    BY <1>5 DEF StartServing, Replace, listVars, roundVars, lists
  <2>2. PICK a : a = Begin("startup", FALSE)
    OBVIOUS
  <2>3. a.do \in Quiet \ {"startFrom"} /\ work' = <<a>>
    <3>1. IsSeq(<<a>>)
      BY Short
    <3> QED BY <1>3, <2>1, <2>2, <3>1 DEF Begin, Quiet
  <2> QED BY <1>2, <2>1, <2>3, OneTaskExact
<1>6. CASE FinalStop
  <2>1. UNCHANGED <<table, moved, processed, enabled>> /\ (work' = StartTasks \/ work' = <<>>)
    <3>1. UNCHANGED <<moved, processed, enabled>> /\ (work' = StartTasks \/ work' = <<>>)
      BY <1>6 DEF FinalStop, roundVars
    <3>2. UNCHANGED table
      <4>1. CASE scripting
        BY <1>6, <4>1 DEF FinalStop, Stops
      <4>2. CASE ~scripting
        BY <1>6, <4>2 DEF FinalStop, listVars
      <4> QED BY <4>1, <4>2
    <3> QED BY <3>1, <3>2
  <2>2. Perm(table) /\ enabled \subseteq Scripts
    BY <1>2 DEF Ready, State
  <2>3. CASE scripting
    <3>1. running' = <<>> /\ live' = live \ ToSet(running)
      BY <1>6, <2>3 DEF FinalStop, Stops
    <3>2. live' = {}
      BY <1>2, <3>1 DEF Ready
    <3>3. State(<<>>, table, enabled, {}, <<>>, moved, processed)
      BY <2>2, NothingLeft
    <3>4. State(StartTasks, table, enabled, {}, <<>>, moved, processed)
      BY <3>3, StartTasksExact
    <3>5. State(work', table, enabled, {}, <<>>, moved, processed)
      BY <2>1, <3>3, <3>4
    <3> QED BY <2>1, <3>1, <3>2, <3>5 DEF Exact
  <2>4. CASE ~scripting
    <3>1. UNCHANGED <<live, running>>
      BY <1>6, <2>4 DEF FinalStop, listVars
    <3>2. UNCHANGED lists
      BY <2>1, <3>1 DEF lists
    <3>3. CASE work' = <<>>
      BY <1>2, <3>2, <3>3 DEF Ready, Exact, lists
    <3>4. CASE work' = StartTasks
      <4>1. PICK b : b = Serve
        OBVIOUS
      <4>2. work' = <<b>> /\ b.do \in Quiet \ {"startFrom"}
        BY <2>4, <3>4, <4>1 DEF StartTasks, Serve, Quiet
      <4> QED BY <1>2, <3>2, <4>2, OneTaskExact
    <3> QED BY <2>1, <3>3, <3>4
  <2> QED BY <2>3, <2>4
<1> QED BY <1>4, <1>5, <1>6

-----------------------------------------------------------------------------
ListInv == ~unruly => Exact

\* The invariant holds from the start and is kept by every step.
LEMMA ListInit == HubInit => ListInv
<1> SUFFICES ASSUME HubInit PROVE Exact
  BY DEF ListInv
<1>1. /\ table \in SetToSeqs(Scripts) /\ enabled \subseteq Scripts
      /\ live = {} /\ running = <<>> /\ work = StartTasks
  BY DEF HubInit, ScriptInit
<1>2. Perm(table)
  BY <1>1, TableIsPerm
<1>3. State(<<>>, table, enabled, {}, <<>>, moved, processed)
  BY <1>1, <1>2, NothingLeft
<1>4. State(StartTasks, table, enabled, {}, <<>>, moved, processed)
  BY <1>3, StartTasksExact
<1> QED BY <1>1, <1>4 DEF Exact

LEMMA ListStep == EndInv /\ ListInv /\ [Next]_vars => ListInv'
<1> SUFFICES ASSUME EndInv, ListInv, [Next]_vars, ~unruly' PROVE Exact'
  BY DEF ListInv
<1>1. Exact
  BY StaysUnruly DEF ListInv
<1>2. Stack(work)
  BY DEF EndInv
<1>3. CASE UNCHANGED vars
  BY <1>1, <1>3 DEF vars, scriptVars, listVars, roundVars, Exact
<1>4. CASE ScriptStep
  <2>1. CASE ScriptStart \/ ScriptStarted \/ MainFails \/ ScriptStop \/ StartNext \/ StopRunning
    BY <1>1, <1>2, <2>1, ScriptStartExact, ScriptStartedExact, MainFailsExact, ScriptStopExact,
       StartNextExact, StopRunningExact
  <2>2. CASE BeginRound \/ NextScript
    BY <1>1, <1>2, <2>2, BeginRoundExact, NextScriptExact
  <2>3. CASE Returns \/ ReturnsTrue \/ CallbackFails \/ AsksHub \/ DisconnectsUser
    BY <1>1, <1>2, <2>3, CodeEndsExact, ReturnsTrueExact, DisconnectExact
  <2>4. CASE LuaMove \/ LuaStartScript \/ LuaStopScript
    BY <1>1, <1>2, <2>4, LuaMoveExact, LuaStartScriptExact, LuaStopScriptExact
  <2> QED BY <1>4, <2>1, <2>2, <2>3, <2>4 DEF ScriptStep
<1>5. CASE HubStep
  <2>1. CASE UserActs \/ TimerFires \/ OperatorRestarts \/ OperatorRestartsHub
             \/ ProcessEvents \/ Signal
    BY <1>1, <1>2, <2>1, OutsideExact
  <2>2. CASE OperatorStops \/ OperatorStarts
    BY <1>1, <1>2, <2>2, OperatorExact
  <2>3. CASE Restart \/ Shutdown \/ StopScripting \/ RestartScripts \/ StopOrRestartScript
    BY <1>1, <1>2, <2>3, EventsExact
  <2>4. CASE BatchDone \/ StartServing \/ FinalStop
    BY <1>1, <1>2, <2>4, BottomExact
  <2> QED BY <1>5, <2>1, <2>2, <2>3, <2>4 DEF HubStep
<1> QED BY <1>3, <1>4, <1>5 DEF Next

\* m_RunningScriptList is the table without the scripts that have no Lua
\* state, in the order of the table, and these are all enabled, whenever no
\* Lua code runs (AddRunningScript, RemoveRunningScript, RebuildRunningList,
\* ScriptManager::Start and Stop).
THEOREM ListsStayExact == Spec => []ListExact
<1>1. ListInv => ListExact
  <2> SUFFICES ASSUME ListInv, work = <<>>, ~unruly
               PROVE  /\ ToSet(running) = live /\ InOrder(running, table)
                      /\ live \subseteq enabled
    BY DEF ListExact
  <2>1. Exact
    BY DEF ListInv
  <2> QED BY <2>1, Waits DEF Lists
<1> QED BY <1>1, EndInit, EndStep, ListInit, ListStep, PTL DEF Spec

\* A walk over the running list calls each script of its snapshot that keeps
\* its Lua state (Arrival, UserConnected, UserDisconnected, OnStartup, OnExit
\* and the marks of PrepareMove), but for unruly moves: nested ones, and one
\* from a coroutine, for which PrepareMove finds no caller in the list.
THEOREM RoundsAreExact == Spec => []RoundsExact
<1>1. EndInv /\ ListInv => RoundsExact
  <2> SUFFICES ASSUME EndInv, ListInv, ~unruly, NEW i \in DOMAIN work, work[i].do = "round"
               PROVE  work[i].due \subseteq ToSet(work[i].rest)
    BY DEF RoundsExact
  <2>1. IsSeq(work)
    BY DEF EndInv, Stack
  <2>2. DOMAIN work = 1..Len(work) /\ \A j \in 1..Len(work) : work[j] \in ToSet(work)
    BY <2>1, SetOf DEF IsSeq
  <2>3. WalksOK(ToSet(work), ToSet(running), table, moved, processed)
    BY DEF ListInv, Exact, State
  <2> QED BY <2>2, <2>3 DEF WalksOK
<1> QED BY <1>1, EndInit, EndStep, ListInit, ListStep, PTL DEF Spec
=============================================================================
