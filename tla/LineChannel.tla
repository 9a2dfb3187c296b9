---------------------------- MODULE LineChannel ----------------------------
(***************************************************************************)
(* What gets() promises the shell, and system calls 3 and 4 together are   *)
(* there to provide: the lines the console completes reach the shell, each *)
(* exactly once and in order, and the console completes no line before the *)
(* last one was taken.  Lines are numbered 1, 2, 3, ...; 0 is no line.     *)
(***************************************************************************)
EXTENDS Naturals

VARIABLES
  sent,   \* how many lines the console completed
  box,    \* the line completed and not yet returned by gets, or 0
  held    \* the line the shell is working on, or 0

channel == <<sent, box, held>>

Init == sent = 0 /\ box = 0 /\ held = 0

Publish ==
  /\ box = 0
  /\ sent' = sent + 1
  /\ box' = sent + 1
  /\ UNCHANGED held

Take ==
  /\ held = 0
  /\ box # 0
  /\ held' = box
  /\ box' = 0
  /\ UNCHANGED sent

\* The shell frees the line it worked on.
Dispose ==
  /\ held # 0
  /\ held' = 0
  /\ UNCHANGED <<sent, box>>

Next == Publish \/ Take \/ Dispose

Spec == Init /\ [][Next]_channel

\* A completed line is taken and a taken line is disposed of.
Progress ==
  /\ box # 0 ~> box = 0
  /\ held # 0 ~> held = 0
=============================================================================
