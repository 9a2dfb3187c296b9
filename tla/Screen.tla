------------------------------- MODULE Screen -------------------------------
(***************************************************************************)
(* The text screen of console.c.  A display d is the cursor, vx and vy,    *)
(* and the characters shown, vmem, cell by cell and row by row.  What is   *)
(* written below the last row lands in memory that is neither shown nor    *)
(* ever moved onto the screen; it is left out of vmem.                     *)
(***************************************************************************)
EXTENDS Integers, SequencesExt

CONSTANTS
  Width, Height,  \* 80 and 25 in the source
  Byte,           \* the range of the uint8_t vx and vy: 256
  TabStop         \* 8

ASSUME ScreenAssumption ==
  /\ Width \in Nat \ {0} /\ Height \in Nat \ {0} /\ TabStop \in Nat \ {0}
  /\ Byte \in Nat /\ Byte > Width /\ Byte > Height

Blank == " "
Cells == 0..(Width * Height - 1)
Cleared == [vx |-> 0, vy |-> 0, vmem |-> [i \in Cells |-> Blank]]

\* The cell under the cursor; past the end of a row it is one of the next.
Position(d) == d.vy * Width + d.vx

Write(d, c) ==
  [d EXCEPT !.vmem = [i \in Cells |-> IF i = Position(d) THEN c ELSE @[i]]]

NewLine(d) == [d EXCEPT !.vx = 0, !.vy = (@ + 1) % Byte]

Tab(d) == [d EXCEPT !.vx = (@ + TabStop - (@ % TabStop)) % Byte]

\* Mutant of Backspace: at the start of a row it stays there.
BackspaceInRow(d) ==
  Write(IF d.vx = 0 THEN d ELSE [d EXCEPT !.vx = @ - 1], Blank)

\* Back over the end of the row before, but not over the top of the screen.
Backspace(d) ==
  Write(IF d.vx # 0 THEN [d EXCEPT !.vx = @ - 1]
        ELSE IF d.vy # 0 THEN [d EXCEPT !.vx = Width - 1, !.vy = @ - 1]
        ELSE d, Blank)

PutcAt(d, c) ==
  CASE c = "\n" -> NewLine(d)
    [] c = "\t" -> Tab(d)
    [] c = "BS" -> Backspace(d)
    [] OTHER    -> LET e == Write(d, c) IN [e EXCEPT !.vx = (@ + 1) % Byte]

\* The display after each character of s.
Typed(d, s) ==
  LET after[i \in 0..Len(s)] == IF i = 0 THEN d ELSE PutcAt(after[i - 1], s[i])
  IN after

PutsAt(d, s) == Typed(d, s)[Len(s)]

\* The cursor comes back into the row and onto the screen, which moves up; the
\* rows that come in below are empty.
Scroll(d) ==
  LET row == (d.vy + (d.vx \div Width)) % Byte
      up == IF row >= Height THEN row - Height + 1 ELSE 0 IN
  [vx |-> d.vx % Width, vy |-> row - up,
   vmem |-> [i \in Cells |-> IF i + up * Width \in Cells
                               THEN d.vmem[i + up * Width] ELSE Blank]]

Putc(d, c) == Scroll(PutcAt(d, c))

\* Mutant of Puts: scroll() is not called.
PutsStays(d, s) == PutsAt(d, s)

Puts(d, s) == Scroll(PutsAt(d, s))
=============================================================================
