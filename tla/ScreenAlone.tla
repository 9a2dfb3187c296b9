---------------------------- MODULE ScreenAlone ----------------------------
(***************************************************************************)
(* A call of putc or puts during which no other task moved the cursor      *)
(* leaves it where module Screen says.  The history variable display is,   *)
(* for each task that writes, what Screen makes of the characters so far,  *)
(* with blank cells.                                                       *)
(***************************************************************************)
EXTENDS SharedScreen

VARIABLE display

S == INSTANCE Screen

\* Somebody else moved the cursor in the meantime.
Disturbed == [disturbed |-> TRUE]

\* Screen's names for what a task writes.
Text == [newline |-> "\n", tab |-> "\t", backspace |-> "BS", other |-> S!Blank]

\* What display t's call goes on from.
Before(t) ==
  IF pc[t] = "out" THEN [vx |-> vx, vy |-> vy, vmem |-> S!Cleared.vmem] ELSE display[t]

\* Task t's call has brought d about; other tasks' calls find the cursor moved.
Note(t, d) ==
  display' = [u \in Tasks |->
                IF u = t THEN d
                ELSE IF <<vx, vy>>' # <<vx, vy>> /\ pc[u] # "out" THEN Disturbed
                ELSE display[u]]

Undisturbed(d) == d # Disturbed

AloneInit == ScreenInit /\ display = [t \in Tasks |-> S!Cleared]

AloneChar(t, c) ==
  /\ PutcAt(t, c)
  /\ Note(t, IF Undisturbed(Before(t)) THEN S!PutcAt(Before(t), Text[c]) ELSE Disturbed)

AloneScroll(t) ==
  /\ Scroll(t)
  /\ Note(t, IF Undisturbed(Before(t)) THEN S!Scroll(Before(t)) ELSE Disturbed)

AloneMove(t) ==
  /\ NewLine(t) \/ Tab(t) \/ Backspace(t) \/ Character(t) \/ Columns(t) \/ Rows(t)
  /\ Note(t, IF pc'[t] = "out" THEN S!Cleared ELSE display[t])

AloneNext ==
  \E t \in Tasks :
    \/ \E c \in DOMAIN First : AloneChar(t, c)
    \/ AloneScroll(t)
    \/ AloneMove(t)

AloneSpec == AloneInit /\ [][AloneNext]_<<vars, display>> /\ ScreenFairness

-----------------------------------------------------------------------------
\* A task that was not disturbed leaves the cursor where Putc or Puts of Screen
\* leave it: the loads and stores of console.c add up to them.
AsScreen ==
  [][\A t \in Tasks :
       pc[t] # "out" /\ pc'[t] = "out" /\ Undisturbed(display[t]) =>
         vx' = display[t].vx /\ vy' = display[t].vy]_<<vars, display>>

=============================================================================
