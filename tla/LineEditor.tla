----------------------------- MODULE LineEditor -----------------------------
(***************************************************************************)
(* Typing at the prompt: console_task.c turns scancodes into characters,   *)
(* shows them and collects them in console_task_buf; Enter hands the line  *)
(* to the shell, which prints and shows its next prompt.                   *)
(*                                                                         *)
(* The user types at the prompt only (what else can happen then is module  *)
(* Kernel's subject).  Scancodes are known by what keyboard_dv has for     *)
(* them; Letter and Digit each stand for all their kind.  ctrl, alt and    *)
(* the LEDs have no effect on the line.  The panel manager_task draws into *)
(* the upper right corner is left out.                                     *)
(***************************************************************************)
EXTENDS Screen

CONSTANTS
  Characters, \* the values a char has
  Keys,       \* the keys the user has
  Outputs,    \* the strings a program prints
  Initial,    \* the size alloc_buffer gives the buffer: 8
  MaxLine     \* bound: characters in a line

Prompt == <<">", Blank>>

ASSUME EditorAssumption ==
  /\ Keys \subseteq {"letter", "digit", "none", "tab", "backspace", "enter",
                     "shift", "release", "capslock"}
  /\ MaxLine \in Nat /\ Initial \in Nat \ {0}
  /\ {"NUL", "\t", "\n", "BS", Blank, ">", "d", "a", "A", "1", "!"} \subseteq Characters
  /\ \A s \in Outputs : s \in Seq(Characters)
  /\ Width + TabStop <= Byte /\ Height + TabStop <= Byte

VARIABLES
  screen,     \* vx, vy and the video memory
  buf,        \* console_task_buf: the characters used
  allocated,  \* its size
  shift, capslock,
  typing,     \* the shell is in gets
  tabbed,     \* history: a tab was typed in this line
  overrun     \* history: the cursor of a string ran back into what it had shown

vars == <<screen, buf, allocated, shift, capslock, typing, tabbed, overrun>>

\* shift_ch, then capslock_ch: capslock takes back what shift does to letters.
Character(k) ==
  CASE k = "letter" -> IF shift # capslock THEN "A" ELSE "a"
    [] k = "digit"  -> IF shift THEN "!" ELSE "1"
    [] k = "tab"    -> "\t"
    [] k = "none"   -> "NUL"

\* Mutant of Enlarged: a full buffer is taken to have room for one more.
EnlargedLate == IF Len(buf) > allocated THEN 2 * allocated ELSE allocated

\* size_buffer for one more character.
Enlarged == IF Len(buf) + 1 > allocated THEN 2 * allocated ELSE allocated

-----------------------------------------------------------------------------
(* console_task, one pass of its loop *)

Type(k) ==
  /\ k \in {"letter", "digit", "tab", "none"}
  /\ Len(buf) < MaxLine
  /\ screen' = Putc(screen, Character(k))
  /\ buf' = Append(buf, Character(k))
  /\ allocated' = Enlarged
  /\ tabbed' = (tabbed \/ k = "tab")
  /\ UNCHANGED <<shift, capslock, typing, overrun>>

Erase ==
  /\ IF buf = <<>> THEN UNCHANGED <<screen, buf>>
     ELSE screen' = Putc(screen, "BS") /\ buf' = Front(buf)
  /\ UNCHANGED <<allocated, shift, capslock, typing, tabbed, overrun>>

\* System call 3 in between copies the line; the shell goes on with it.
Enter ==
  /\ screen' = Putc(screen, "\n")
  /\ buf' = <<>>
  /\ typing' = FALSE
  /\ tabbed' = FALSE
  /\ UNCHANGED <<allocated, shift, capslock, overrun>>

Modifier(k) ==
  /\ k \in {"shift", "release", "capslock"}
  /\ shift' = IF k = "capslock" THEN shift ELSE k = "shift"
  /\ capslock' = IF k = "capslock" THEN ~capslock ELSE capslock
  /\ UNCHANGED <<screen, buf, allocated, typing, tabbed, overrun>>

Press(k) ==
  /\ typing
  /\ \/ Type(k)
     \/ k = "backspace" /\ Erase
     \/ k = "enter" /\ Enter
     \/ Modifier(k)

-----------------------------------------------------------------------------
(* The shell *)

\* puts lets vx run past the end of the row until scroll is called: after a
\* whole range of it, or at a new line after more than a row, the cursor is back
\* in front of what s has shown.
Overruns(d, s) ==
  LET after == Typed(d, s) IN
  \/ \E i \in 1..Len(s) :
       s[i] # "BS" /\ Position(after[i]) < Position(after[i - 1])
  \/ after[Len(s)].vy + (after[Len(s)].vx \div Width) >= Byte

\* STMT_PRINT: puts the value, putc a new line.
PrintValue(s) ==
  /\ ~typing
  /\ screen' = Putc(Puts(screen, s), "\n")
  /\ overrun' = (overrun \/ Overruns(screen, s))
  /\ UNCHANGED <<buf, allocated, shift, capslock, typing, tabbed>>

ShowPrompt ==
  /\ ~typing
  /\ screen' = Puts(screen, Prompt)
  /\ overrun' = (overrun \/ Overruns(screen, Prompt))
  /\ typing' = TRUE
  /\ UNCHANGED <<buf, allocated, shift, capslock, tabbed>>

-----------------------------------------------------------------------------
\* entry_continue clears the screen and prints a line ("daintree").
Init ==
  /\ screen = Puts(Cleared, <<"d", "\n">>)
  /\ buf = <<>> /\ allocated = Initial
  /\ shift = FALSE /\ capslock = FALSE
  /\ typing = FALSE /\ tabbed = FALSE /\ overrun = FALSE

Next ==
  \/ \E k \in Keys : Press(k)
  \/ \E s \in Outputs : PrintValue(s)
  \/ ShowPrompt

Spec == Init /\ [][Next]_vars

-----------------------------------------------------------------------------
\* Between two calls the cursor is on the screen, and the line fits the block
\* allocated for it.
EditorTypeOK ==
  /\ screen \in [vx : 0..(Width - 1), vy : 0..(Height - 1), vmem : [Cells -> Characters]]
  /\ buf \in Seq(Characters) /\ Len(buf) <= allocated /\ allocated \in Nat \ {0}
  /\ shift \in BOOLEAN /\ capslock \in BOOLEAN
  /\ typing \in BOOLEAN /\ tabbed \in BOOLEAN /\ overrun \in BOOLEAN

\* What the user sees is what the shell will get: the cells before the cursor
\* show the end of the line, over the ends of rows and through scrolling.  A
\* line with a tab is excepted: a backspace goes back one cell where the tab
\* went forward several.
Shows(d, line) ==
  \A i \in 1..Len(line) :
    i <= Position(d) => d.vmem[Position(d) - i] = line[Len(line) + 1 - i]

\* Nothing is shown behind the cursor: what was erased is gone.
BlankBehind(d) == \A i \in Cells : i >= Position(d) => d.vmem[i] = Blank

EchoIsLine ==
  typing => (tabbed \/ Shows(screen, buf)) /\ (overrun \/ BlankBehind(screen))

\* Every step keeps more than that, also while a program prints.
EditorInv ==
  /\ EditorTypeOK
  /\ ~typing => buf = <<>>
  /\ tabbed \/ Shows(screen, buf)
  /\ overrun \/ BlankBehind(screen)

\* The display after each character of s when every one is put by putc.
PutOneByOne(d, s) ==
  LET after[i \in 0..Len(s)] == IF i = 0 THEN d ELSE Putc(after[i - 1], s[i])
  IN after

\* puts scrolls once, after the last character.  It does what putc would do
\* character by character as long as the text stays on the screen, moves the
\* cursor by one cell each, and does not take vx, which runs on past the end
\* of the row, out of its range.
PutsAsPutcs ==
  \A s \in Outputs :
    /\ Position(screen) + Len(s) <= Width * Height
    /\ screen.vx + Len(s) < Byte
    /\ \A i \in 1..Len(s) : s[i] \notin {"\n", "\t", "BS"}
    => Puts(screen, s) = PutOneByOne(screen, s)[Len(s)]
=============================================================================
