------------------------------- MODULE DeFlood -------------------------------
(***************************************************************************)
(* The checks of DeFlood.cpp.  A limit allows count commands in time ticks *)
(* and says what to do with a member that sends more; a window counts      *)
(* them.  A window keeps its age instead of the tick it was opened at, and *)
(* the age stops where no check can tell it from an older one.             *)
(*                                                                         *)
(* A check answers with the member, the window and whether the command     *)
(* passes.                                                                 *)
(***************************************************************************)
EXTENDS Integers

CONSTANTS
    WarnLimit,    \* SETSHORT_DEFLOOD_WARNING_COUNT
    WarnAction    \* SETSHORT_DEFLOOD_WARNING_ACTION

ASSUME WarnAssumption == WarnLimit \in Nat \ {0} /\ WarnAction \in 0 .. 3

Word == 65536    \* the counts are uint16_t
Off == [count |-> 1, time |-> 0, action |-> 0]
Fresh == [n |-> 0, age |-> 0]
Bans == {"none", "temp", "permanent"}

Within(w, L) == w.age < L.time
Grown(w, by) == [w EXCEPT !.n = (@ + by) % Word]
Older(w, L) == [w EXCEPT !.age = IF @ <= L.time THEN @ + 1 ELSE @]

Passes(m, w) == [who |-> m, w |-> w, ok |-> TRUE]
Refuses(m, w) == [who |-> m, w |-> w, ok |-> FALSE]

(* What closes a member may ban it first.                                  *)
Closed(m, ban) == [m EXCEPT !.open = FALSE, !.ban = ban]
WarningAction(m) ==
    CASE WarnAction = 0 -> Closed(m, "none")
      [] WarnAction \in {1, 2} -> Closed(m, "temp")
      [] WarnAction = 3 -> Closed(m, "permanent")

(* One more warning; the last one closes the member.                       *)
Warned(m) ==
    LET more == [m EXCEPT !.warnings = @ + 1]
    IN  IF more.warnings < WarnLimit THEN more ELSE WarningAction(more)

DoAction(m, action) ==
    CASE action = 1 -> m
      [] action = 2 -> Warned(m)
      [] action = 3 -> Closed(m, "none")
      [] action \in {4, 5} -> Closed(m, "temp")
      [] action = 6 -> Closed(m, "permanent")

(* At the limit the member is dealt with, and counted on if it stays.      *)
AtLimit(m, w, L) ==
    LET dealt == DoAction(m, L.action)
    IN  Refuses(dealt, IF dealt.open THEN Grown(w, 1) ELSE w)

(* Above it the command is only refused.  Who is to be warned is warned    *)
(* again when it has sent the limit once more.                             *)
AboveLimit(m, w, L) ==
    LET again == L.action = 2 /\ w.n = 2 * L.count
        dealt == IF again THEN Warned(m) ELSE m
    IN  Refuses(dealt, IF ~dealt.open THEN w
                       ELSE Grown(w, 1 - (IF again THEN L.count ELSE 0)))

CheckForFloodLate(m, w, L) ==    \* mutant: refuses one command too late
    IF w.n = 0 \/ ~Within(w, L) THEN Passes(m, [n |-> 1, age |-> 0])
    ELSE IF w.n <= L.count THEN Passes(m, Grown(w, 1))
    ELSE AboveLimit(m, w, L)
CheckForFlood(m, w, L) ==
    IF w.n = 0 \/ ~Within(w, L) THEN Passes(m, [n |-> 1, age |-> 0])
    ELSE IF w.n < L.count THEN Passes(m, Grown(w, 1))
    ELSE IF w.n = L.count THEN AtLimit(m, w, L)
    ELSE AboveLimit(m, w, L)

(* The same text again; another text opens a window of its own (SetLast).  *)
(* The caller counts the refused one once more than AtLimit does.          *)
CheckForSameFlood(m, w, L, same) ==
    IF ~same \/ ~Within(w, L) THEN Passes(m, [n |-> 1, age |-> 0])
    ELSE IF w.n < L.count THEN Passes(m, Grown(w, 1))
    ELSE IF w.n = L.count
         THEN LET r == AtLimit(m, w, L)
              IN  IF r.who.open THEN [r EXCEPT !.w = Grown(@, 1)] ELSE r
    ELSE AboveLimit(m, w, L)

(* No action: the member is asked to wait.                                 *)
CheckInterval(m, w, L) ==
    IF w.n = 0 \/ ~Within(w, L) THEN Passes(m, [n |-> 1, age |-> 0])
    ELSE IF w.n >= L.count THEN Refuses(m, Grown(w, 1))
    ELSE Passes(m, Grown(w, 1))

(* Received data in units of 1024 bytes.  Who was dealt with is not dealt  *)
(* with again before the window is over.                                   *)
CheckForDataFlood(m, w, L) ==
    IF ~Within(w, L)
    THEN Passes([m EXCEPT !.flooder = FALSE], Fresh)
    ELSE IF w.n < L.count THEN Passes(m, w)
    ELSE IF m.flooder THEN Refuses(m, w)
    ELSE Refuses(DoAction([m EXCEPT !.flooder = TRUE], L.action), w)
=============================================================================
