-------------------------- MODULE LineEditorProofs --------------------------
(***************************************************************************)
(* Theorems about LineEditor, for a screen of any size, any keys and any   *)
(* printed strings.                                                        *)
(***************************************************************************)
EXTENDS LineEditor, Lemmas, SequenceTheorems

\* Displays while a string is written, and between two calls.
Displays == [vx : 0..(Byte - 1), vy : 0..(Byte - 1), vmem : [Cells -> Characters]]
Settled == [vx : 0..(Width - 1), vy : 0..(Height - 1), vmem : [Cells -> Characters]]

\* vx is in no row too many for vy.
Fits(d) == d.vy + (d.vx \div Width) < Byte

LEMMA Sizes ==
  /\ Width \in Nat \ {0} /\ Height \in Nat \ {0} /\ TabStop \in Nat \ {0} /\ Byte \in Nat
  /\ Width < Byte /\ Height < Byte
  /\ Width + TabStop <= Byte /\ Height + TabStop <= Byte
BY ScreenAssumption, EditorAssumption

LEMMA SettledIsDisplay == Settled \subseteq Displays
BY Sizes DEF Settled, Displays

LEMMA PositionType ==
  ASSUME NEW d \in Displays
  PROVE  /\ d.vx \in Nat /\ d.vy \in Nat /\ d.vx < Byte /\ d.vy < Byte
         /\ d.vy * Width \in Nat /\ Position(d) \in Nat
         /\ Position(d) = (d.vy * Width) + d.vx
<1>1. d.vx \in Nat /\ d.vy \in Nat /\ d.vx < Byte /\ d.vy < Byte
  BY Sizes DEF Displays
<1>2. d.vy * Width \in Nat
  BY <1>1, Sizes
<1> QED
  BY <1>1, <1>2 DEF Position

\* A cursor on the screen is on a cell.
LEMMA PositionInCells ==
  ASSUME NEW d \in Settled
  PROVE  Position(d) \in Cells /\ Width * Height \in Nat
<1>1. d \in Displays /\ d.vx < Width /\ d.vy <= Height - 1
  BY SettledIsDisplay, Sizes DEF Settled
<1>2. Width * d.vy <= Width * (Height - 1) /\ Width * (Height - 1) \in Int
  BY <1>1, PositionType, ProductGrows, Sizes
<1>3. Width * (Height - 1) = (Width * Height) - Width
  BY Sizes
<1>4. Width * Height \in Nat
  BY Sizes, Product
<1>5. Width * d.vy = d.vy * Width
  BY <1>1, PositionType, Sizes
<1> QED
  BY <1>1, <1>2, <1>3, <1>4, <1>5, PositionType, Sizes DEF Cells

-----------------------------------------------------------------------------
(* putc_at *)

LEMMA WriteDisplay ==
  ASSUME NEW d \in Displays, NEW c \in Characters
  PROVE  /\ Write(d, c) \in Displays
         /\ Write(d, c).vx = d.vx /\ Write(d, c).vy = d.vy
         /\ \A i \in Cells : Write(d, c).vmem[i] = IF i = Position(d) THEN c ELSE d.vmem[i]
<1>1. d.vmem \in [Cells -> Characters]
  BY DEF Displays
<1> QED
  BY <1>1 DEF Write, Displays

LEMMA Residues ==
  ASSUME NEW n \in Nat
  PROVE  n % Byte \in 0..(Byte - 1) /\ (n < Byte => n % Byte = n)
<1>1. Byte \in Nat \ {0}
  BY Sizes
<1>2. n % Byte \in 0..(Byte - 1)
  BY <1>1, Division
<1>3. ASSUME n < Byte PROVE n % Byte = n
  <2>1. n = (Byte * 0) + n /\ n \in 0..(Byte - 1)
    BY <1>1, <1>3
  <2> QED
    BY <1>1, <2>1, OneResidue
<1> QED
  BY <1>2, <1>3

\* Where a tab goes before it is taken modulo Byte.
LEMMA TabAhead ==
  ASSUME NEW x \in Nat
  PROVE  x + TabStop - (x % TabStop) \in (x + 1)..(x + TabStop)
BY Sizes, Division

\* What each character does.
LEMMA PutNewLine ==
  ASSUME NEW d \in Displays
  PROVE  /\ PutcAt(d, "\n") \in Displays
         /\ PutcAt(d, "\n").vx = 0
         /\ PutcAt(d, "\n").vy = (d.vy + 1) % Byte
         /\ PutcAt(d, "\n").vmem = d.vmem
<1>1. (d.vy + 1) % Byte \in 0..(Byte - 1)
  BY PositionType, Residues
<1>2. PutcAt(d, "\n") = NewLine(d)
  BY DEF PutcAt
<1>3. NewLine(d) = [d EXCEPT !.vx = 0, !.vy = (d.vy + 1) % Byte]
  BY DEF NewLine
<1>4. 0 \in 0..(Byte - 1)
  BY Sizes
<1> QED
  BY <1>1, <1>2, <1>3, <1>4 DEF Displays

LEMMA PutTab ==
  ASSUME NEW d \in Displays
  PROVE  /\ PutcAt(d, "\t") \in Displays
         /\ PutcAt(d, "\t").vx = (d.vx + TabStop - (d.vx % TabStop)) % Byte
         /\ PutcAt(d, "\t").vy = d.vy
         /\ PutcAt(d, "\t").vmem = d.vmem
<1>1. d.vx + TabStop - (d.vx % TabStop) \in Nat
  BY PositionType, TabAhead, Sizes
<1>2. (d.vx + TabStop - (d.vx % TabStop)) % Byte \in 0..(Byte - 1)
  BY <1>1, Residues
<1>3. PutcAt(d, "\t") = Tab(d)
  BY DEF PutcAt
<1> QED
  BY <1>2, <1>3 DEF Tab, Displays

\* A backspace goes back one cell, but not over the top of the screen, and
\* leaves a blank there.
LEMMA PutBackspace ==
  ASSUME NEW d \in Displays
  PROVE  LET e == PutcAt(d, "BS") IN
         /\ e \in Displays
         /\ Position(e) = IF Position(d) = 0 THEN 0 ELSE Position(d) - 1
         /\ \A i \in Cells : e.vmem[i] = IF i = Position(e) THEN Blank ELSE d.vmem[i]
<1> DEFINE f == IF d.vx # 0 THEN [d EXCEPT !.vx = @ - 1]
                ELSE IF d.vy # 0 THEN [d EXCEPT !.vx = Width - 1, !.vy = @ - 1]
                ELSE d
           e == PutcAt(d, "BS")
<1>1. e = Write(f, Blank)
  BY DEF PutcAt, Backspace
<1>2. f \in Displays /\ f.vmem = d.vmem
  <2>1. d.vx # 0 => d.vx - 1 \in 0..(Byte - 1)
    BY PositionType, Sizes
  <2>2. d.vy # 0 => d.vy - 1 \in 0..(Byte - 1)
    BY PositionType, Sizes
  <2>3. Width - 1 \in 0..(Byte - 1)
    BY Sizes
  <2> QED
    BY <2>1, <2>2, <2>3 DEF Displays
<1>3. Position(f) = IF Position(d) = 0 THEN 0 ELSE Position(d) - 1
  <2>1. CASE d.vx # 0
    <3>1. f.vx = d.vx - 1 /\ f.vy = d.vy
      BY <2>1 DEF Displays
    <3> QED
      BY <2>1, <3>1, PositionType, Sizes DEF Position
  <2>2. CASE d.vx = 0 /\ d.vy # 0
    <3>1. f.vx = Width - 1 /\ f.vy = d.vy - 1
      BY <2>2 DEF Displays
    <3>2. (d.vy - 1) * Width = (d.vy * Width) - Width
      BY PositionType, Sizes
    <3>3. d.vy * Width # 0
      BY <2>2, PositionType, Sizes
    <3> QED
      BY <2>2, <3>1, <3>2, <3>3, PositionType, Sizes DEF Position
  <2>3. CASE d.vx = 0 /\ d.vy = 0
    BY <2>3, Sizes DEF Position
  <2> QED
    BY <2>1, <2>2, <2>3
<1>4. Blank \in Characters
  BY EditorAssumption
<1> HIDE DEF f
<1>5. /\ e \in Displays /\ e.vx = f.vx /\ e.vy = f.vy
      /\ \A i \in Cells : e.vmem[i] = IF i = Position(f) THEN Blank ELSE f.vmem[i]
  BY <1>1, <1>2, <1>4, WriteDisplay
<1>6. Position(e) = Position(f)
  BY <1>5 DEF Position
<1> HIDE DEF e
<1>7. /\ e \in Displays
      /\ Position(e) = IF Position(d) = 0 THEN 0 ELSE Position(d) - 1
      /\ \A i \in Cells : e.vmem[i] = IF i = Position(e) THEN Blank ELSE d.vmem[i]
  BY <1>2, <1>3, <1>5, <1>6
<1> QED
  BY <1>7 DEF e

Controls == {"\n", "\t", "BS"}

LEMMA PutOther ==
  ASSUME NEW d \in Displays, NEW c \in Characters \ Controls
  PROVE  LET e == PutcAt(d, c) IN
         /\ e \in Displays
         /\ e.vx = (d.vx + 1) % Byte /\ e.vy = d.vy
         /\ \A i \in Cells : e.vmem[i] = IF i = Position(d) THEN c ELSE d.vmem[i]
<1> DEFINE f == Write(d, c)
           e == PutcAt(d, c)
<1>1. e = [f EXCEPT !.vx = (@ + 1) % Byte]
  BY DEF PutcAt, Controls
<1>2. /\ f \in Displays /\ f.vx = d.vx /\ f.vy = d.vy
      /\ \A i \in Cells : f.vmem[i] = IF i = Position(d) THEN c ELSE d.vmem[i]
  BY WriteDisplay
<1>3. (d.vx + 1) % Byte \in 0..(Byte - 1)
  BY PositionType, Residues
<1> HIDE DEF f
<1>4. e \in Displays /\ e.vx = (d.vx + 1) % Byte /\ e.vy = d.vy /\ e.vmem = f.vmem
  BY <1>1, <1>2, <1>3 DEF Displays
<1> HIDE DEF e
<1>5. /\ e \in Displays
      /\ e.vx = (d.vx + 1) % Byte /\ e.vy = d.vy
      /\ \A i \in Cells : e.vmem[i] = IF i = Position(d) THEN c ELSE d.vmem[i]
  BY <1>2, <1>4
<1> QED
  BY <1>5 DEF e

LEMMA PutcAtDisplay ==
  ASSUME NEW d \in Displays, NEW c \in Characters
  PROVE  PutcAt(d, c) \in Displays
BY PutNewLine, PutTab, PutBackspace, PutOther DEF Controls

-----------------------------------------------------------------------------
(* scroll *)

LEMMA ScrollSettles ==
  ASSUME NEW d \in Displays
  PROVE  Scroll(d) \in Settled
<1> DEFINE row == (d.vy + (d.vx \div Width)) % Byte
           up == IF row >= Height THEN row - Height + 1 ELSE 0
<1>1. d.vx % Width \in 0..(Width - 1) /\ d.vx \div Width \in Int
  <2>1. d.vx \in Int /\ Width \in Nat \ {0}
    BY PositionType, Sizes
  <2> QED
    BY <2>1, Division
<1>2. row \in 0..(Byte - 1)
  <2>1. d.vy + (d.vx \div Width) \in Int /\ Byte \in Nat \ {0}
    BY <1>1, PositionType, Sizes
  <2> QED
    BY <2>1, Division
<1>3. row - up \in 0..(Height - 1) /\ up \in Nat
  <2> HIDE DEF row
  <2> QED
    BY <1>2, Sizes
<1>4. up * Width \in Int /\ Blank \in Characters
  BY <1>3, Sizes, Product, EditorAssumption
<1>5. \A i \in Cells : i + (up * Width) \in Cells => d.vmem[i + (up * Width)] \in Characters
  BY DEF Displays
<1> HIDE DEF row, up
<1>6. [vx |-> d.vx % Width, vy |-> row - up,
       vmem |-> [i \in Cells |-> IF i + (up * Width) \in Cells
                                   THEN d.vmem[i + (up * Width)] ELSE Blank]] \in Settled
  BY <1>1, <1>3, <1>4, <1>5 DEF Settled
<1> QED
  BY <1>6 DEF Scroll, row, up

\* scroll moves the cursor and everything on the screen back by the same number
\* of cells, and blanks come in behind.
LEMMA ScrollShifts ==
  ASSUME NEW d \in Displays, Fits(d)
  PROVE  \E k \in Nat :
           /\ Position(Scroll(d)) + k = Position(d)
           /\ \A i \in Cells :
                Scroll(d).vmem[i] = IF i + k \in Cells THEN d.vmem[i + k] ELSE Blank
<1> DEFINE q == d.vx \div Width
           r == d.vx % Width
           row == (d.vy + q) % Byte
           up == IF row >= Height THEN row - Height + 1 ELSE 0
           e == Scroll(d)
<1>1. r \in 0..(Width - 1) /\ d.vx = (Width * q) + r
  <2>1. d.vx \in Int /\ Width \in Nat \ {0}
    BY PositionType, Sizes
  <2> QED
    BY <2>1, Division
<1>2. q \in Nat
  <2>1. d.vx \in Nat /\ Width \in Nat \ {0}
    BY PositionType, Sizes
  <2> QED
    BY <2>1, NatDivision
<1>3. row = d.vy + q
  BY <1>2, Residues, PositionType DEF Fits
<1> HIDE DEF q, r, row
<1>4. row \in Nat /\ up \in Nat /\ row - up \in Nat
  BY <1>2, <1>3, PositionType, Sizes
<1> HIDE DEF up
<1>5. e = [vx |-> r, vy |-> row - up,
           vmem |-> [i \in Cells |-> IF i + (up * Width) \in Cells
                                       THEN d.vmem[i + (up * Width)] ELSE Blank]]
  BY DEF Scroll, up, row, q, r
<1>6. Position(e) + (up * Width) = Position(d)
  <2>1. Position(e) = ((row - up) * Width) + r
    BY <1>5 DEF Position
  <2>2. (row - up) * Width = (row * Width) - (up * Width)
    BY <1>4, Sizes
  <2>3. row * Width = (d.vy * Width) + (Width * q)
    BY <1>2, <1>3, PositionType, Sizes
  <2>4. up * Width \in Int /\ row * Width \in Int /\ Width * q \in Int
    BY <1>2, <1>4, Product, Sizes
  <2> QED
    BY <1>1, <2>1, <2>2, <2>3, <2>4, PositionType
<1>7. up * Width \in Nat
  BY <1>4, Sizes
<1>8. \A i \in Cells :
        e.vmem[i] = IF i + (up * Width) \in Cells THEN d.vmem[i + (up * Width)] ELSE Blank
  BY <1>5
<1> HIDE DEF e
<1>9. \E k \in Nat :
        /\ Position(e) + k = Position(d)
        /\ \A i \in Cells : e.vmem[i] = IF i + k \in Cells THEN d.vmem[i + k] ELSE Blank
  BY <1>6, <1>7, <1>8
<1> QED
  BY <1>9 DEF e

\* The rows that vx is ahead, by the cell the cursor is on.
LEMMA RowByPosition ==
  ASSUME NEW d \in Displays, NEW k \in Nat, Position(d) < Width * k
  PROVE  d.vx \div Width \in Nat /\ d.vy + (d.vx \div Width) < k
<1>1. /\ d.vx \in Nat /\ d.vy \in Nat /\ k - d.vy \in Int
      /\ Position(d) = (d.vy * Width) + d.vx
  BY PositionType
<1>2. Width * (k - d.vy) = (Width * k) - (d.vy * Width)
  BY <1>1, Sizes
<1>3. d.vy * Width \in Int /\ Width * k \in Int
  BY <1>1, Product, Sizes
<1>4. d.vx < Width * (k - d.vy)
  BY <1>1, <1>2, <1>3
<1>5. d.vx \div Width < k - d.vy
  BY <1>1, <1>4, QuotientBelow, Sizes
<1>6. d.vx \div Width \in Nat
  BY <1>1, NatDivision, Sizes
<1> QED
  BY <1>1, <1>5, <1>6

LEMMA FitsByPosition ==
  ASSUME NEW d \in Displays, Position(d) < Width * Byte
  PROVE  Fits(d)
BY RowByPosition, Sizes DEF Fits

\* From a cursor on the screen no character goes further than this.
LEMMA PutcAtMoves ==
  ASSUME NEW d \in Settled, NEW c \in Characters
  PROVE  /\ PutcAt(d, c) \in Displays
         /\ Position(PutcAt(d, c)) < (Width * Height) + TabStop
         /\ c = "BS" \/ Position(PutcAt(d, c)) >= Position(d)
         /\ c \notin Controls => Position(PutcAt(d, c)) = Position(d) + 1
<1> DEFINE e == PutcAt(d, c)
<1>1. /\ d \in Displays /\ d.vx \in Nat /\ d.vy \in Nat
      /\ d.vx < Width /\ d.vy < Height
  BY SettledIsDisplay, PositionType, Sizes DEF Settled
<1>2. /\ Position(d) \in Nat /\ Position(d) = (d.vy * Width) + d.vx
      /\ Position(d) < Width * Height /\ Width * Height \in Nat /\ d.vy * Width \in Nat
  BY <1>1, PositionInCells, PositionType DEF Cells
<1>3. e \in Displays
  BY <1>1, PutcAtDisplay
<1>4. CASE c = "\n"
  <2>1. (d.vy + 1) % Byte = d.vy + 1
    BY <1>1, Residues, Sizes
  <2>2. e.vx = 0 /\ e.vy = d.vy + 1
    BY <1>1, <1>4, <2>1, PutNewLine
  <2> HIDE DEF e
  <2>3. (d.vy + 1) * Width = (d.vy * Width) + Width
    BY <1>1, Sizes
  <2>4. Position(e) = (d.vy * Width) + Width
    BY <1>2, <2>2, <2>3, Sizes DEF Position
  <2>5. Width * (d.vy + 1) <= Width * Height
    BY <1>1, ProductGrows, Sizes
  <2>6. Width * (d.vy + 1) = (d.vy + 1) * Width
    BY <1>1, Sizes
  <2>7. Position(e) < (Width * Height) + TabStop /\ Position(e) >= Position(d)
    BY <1>1, <1>2, <2>3, <2>4, <2>5, <2>6, Sizes
  <2> QED
    BY <1>3, <1>4, <2>7 DEF e, Controls
<1>5. CASE c = "\t"
  <2> DEFINE x == d.vx + TabStop - (d.vx % TabStop)
  <2>1. x \in (d.vx + 1)..(d.vx + TabStop)
    BY <1>1, TabAhead
  <2> HIDE DEF x
  <2>2. x \in Nat /\ x < Byte
    BY <1>1, <2>1, Sizes
  <2>3. e.vx = x /\ e.vy = d.vy
    BY <1>1, <1>5, <2>2, PutTab, Residues DEF x
  <2> HIDE DEF e
  <2>4. Position(e) = (d.vy * Width) + x
    BY <2>3 DEF Position
  <2>5. Position(e) < (Width * Height) + TabStop /\ Position(e) >= Position(d)
    BY <1>1, <1>2, <2>1, <2>2, <2>4, Sizes
  <2> QED
    BY <1>3, <1>5, <2>5 DEF e, Controls
<1>6. CASE c = "BS"
  <2>1. Position(e) = IF Position(d) = 0 THEN 0 ELSE Position(d) - 1
    BY <1>1, <1>6, PutBackspace
  <2> HIDE DEF e
  <2>2. Position(e) < (Width * Height) + TabStop
    BY <1>2, <2>1, Sizes
  <2> QED
    BY <1>3, <1>6, <2>2 DEF e, Controls
<1>7. CASE c \notin Controls
  <2>1. e.vx = (d.vx + 1) % Byte /\ e.vy = d.vy
    BY <1>1, <1>7, PutOther
  <2>2. (d.vx + 1) % Byte = d.vx + 1
    BY <1>1, Residues, Sizes
  <2> HIDE DEF e
  <2>3. Position(e) = Position(d) + 1
    BY <1>1, <1>2, <2>1, <2>2 DEF Position
  <2>4. Position(e) < (Width * Height) + TabStop
    BY <1>2, <2>3, Sizes
  <2> QED
    BY <1>2, <1>3, <2>3, <2>4 DEF e
<1> QED
  BY <1>4, <1>5, <1>6, <1>7 DEF Controls

\* So that scroll finds it in a row that vy can count.
LEMMA PutcAtFits ==
  ASSUME NEW d \in Settled, NEW c \in Characters
  PROVE  Fits(PutcAt(d, c))
<1>1. (Width * Height) + TabStop <= Width * Byte
  <2>1. Width * (Height + TabStop) <= Width * Byte
    BY ProductGrows, Sizes
  <2>2. Width * (Height + TabStop) = (Width * Height) + (Width * TabStop)
    BY Sizes
  <2>3. TabStop * 1 <= TabStop * Width /\ TabStop * Width = Width * TabStop
    BY ProductGrows, Sizes
  <2>4. Width * Height \in Int /\ Width * TabStop \in Int /\ Width * Byte \in Int
    BY Product, Sizes
  <2> QED
    BY <2>1, <2>2, <2>3, <2>4, Sizes
<1>2. /\ PutcAt(d, c) \in Displays
      /\ Position(PutcAt(d, c)) < (Width * Height) + TabStop
  BY PutcAtMoves
<1>3. Width * Height \in Int /\ Width * Byte \in Int
  BY Product, Sizes
<1>4. Position(PutcAt(d, c)) < Width * Byte
  BY <1>1, <1>2, <1>3, PositionType, Sizes
<1> QED
  BY <1>2, <1>4, FitsByPosition

-----------------------------------------------------------------------------
(* What the screen shows before and behind the cursor *)

\* A character blanks nothing in front of the cursor and shows nothing behind
\* it, as long as the cursor is not taken back.
LEMMA PutcAtBlankBehind ==
  ASSUME NEW d \in Displays, NEW c \in Characters, BlankBehind(d),
         c = "BS" \/ Position(PutcAt(d, c)) >= Position(d)
  PROVE  BlankBehind(PutcAt(d, c))
<1> DEFINE e == PutcAt(d, c)
<1>1. Position(d) \in Nat /\ Cells \subseteq Int
  BY PositionType DEF Cells
<1>2. CASE c = "BS"
  <2>1. /\ Position(e) = IF Position(d) = 0 THEN 0 ELSE Position(d) - 1
        /\ \A i \in Cells : e.vmem[i] = IF i = Position(e) THEN Blank ELSE d.vmem[i]
    BY <1>2, PutBackspace
  <2> HIDE DEF e
  <2>2. BlankBehind(e)
    BY <1>1, <2>1 DEF BlankBehind
  <2> QED
    BY <2>2 DEF e
<1>3. CASE c = "\n" \/ c = "\t"
  <2>1. e.vmem = d.vmem /\ e \in Displays /\ Position(e) >= Position(d)
    BY <1>3, PutNewLine, PutTab
  <2> HIDE DEF e
  <2>2. BlankBehind(e)
    BY <1>1, <2>1, PositionType DEF BlankBehind
  <2> QED
    BY <2>2 DEF e
<1>4. CASE c \notin Controls
  <2>1. /\ e \in Displays /\ e.vx = (d.vx + 1) % Byte /\ e.vy = d.vy
        /\ \A i \in Cells : e.vmem[i] = IF i = Position(d) THEN c ELSE d.vmem[i]
    BY <1>4, PutOther
  <2>2. Position(e) >= Position(d)
    BY <1>4 DEF Controls
  <2> HIDE DEF e
  <2>3. Position(e) > Position(d)
    <3>1. CASE d.vx + 1 < Byte
      <4>1. e.vx = d.vx + 1
        BY <2>1, <3>1, PositionType, Residues
      <4> QED
        BY <2>1, <4>1, PositionType DEF Position
    <3>2. CASE ~(d.vx + 1 < Byte)
      <4>1. d.vx + 1 = (Byte * 1) + 0 /\ Byte \in Nat \ {0}
        BY <3>2, PositionType, Sizes
      <4>2. (d.vx + 1) % Byte = 0
        BY <4>1, OneResidue, PositionType
      <4>3. e.vx = 0 /\ d.vx > 0
        BY <2>1, <3>2, <4>2, PositionType, Sizes
      <4> QED
        BY <2>1, <2>2, <4>3, PositionType DEF Position
    <3> QED
      BY <3>1, <3>2
  <2>4. BlankBehind(e)
    BY <1>1, <2>1, <2>3, PositionType DEF BlankBehind
  <2> QED
    BY <2>4 DEF e
<1> QED
  BY <1>2, <1>3, <1>4 DEF Controls

LEMMA ScrollBlankBehind ==
  ASSUME NEW d \in Displays, Fits(d), BlankBehind(d)
  PROVE  BlankBehind(Scroll(d))
<1>1. PICK k \in Nat :
        /\ Position(Scroll(d)) + k = Position(d)
        /\ \A i \in Cells :
             Scroll(d).vmem[i] = IF i + k \in Cells THEN d.vmem[i + k] ELSE Blank
  BY ScrollShifts
<1>2. Position(d) \in Nat /\ Position(Scroll(d)) \in Nat /\ Cells \subseteq Int
  BY ScrollSettles, SettledIsDisplay, PositionType DEF Cells
<1> QED
  BY <1>1, <1>2 DEF BlankBehind

LEMMA ScrollShows ==
  ASSUME NEW d \in Displays, Fits(d), NEW line \in Seq(Characters), Shows(d, line),
         Position(d) <= Width * Height
  PROVE  Shows(Scroll(d), line)
<1> DEFINE e == Scroll(d)
<1>1. PICK k \in Nat :
        /\ Position(e) + k = Position(d)
        /\ \A i \in Cells : e.vmem[i] = IF i + k \in Cells THEN d.vmem[i + k] ELSE Blank
  BY ScrollShifts
<1>2. e \in Settled
  BY ScrollSettles
<1> HIDE DEF e
<1>3. Position(d) \in Nat /\ Position(e) \in Cells /\ Width * Height \in Nat
  BY <1>2, PositionInCells, PositionType
<1>4. Len(line) \in Nat
  OBVIOUS
<1>5. ASSUME NEW i \in 1..Len(line), i <= Position(e)
      PROVE  e.vmem[Position(e) - i] = line[Len(line) + 1 - i]
  <2>1. Position(e) - i \in Cells /\ (Position(e) - i) + k \in Cells
    BY <1>1, <1>3, <1>4, <1>5 DEF Cells
  <2>2. (Position(e) - i) + k = Position(d) - i /\ i <= Position(d)
    BY <1>1, <1>3, <1>4, <1>5 DEF Cells
  <2>3. e.vmem[Position(e) - i] = d.vmem[Position(d) - i]
    BY <1>1, <2>1, <2>2
  <2> QED
    BY <2>2, <2>3 DEF Shows
<1>6. Shows(e, line)
  BY <1>5 DEF Shows
<1> QED
  BY <1>6 DEF e

-----------------------------------------------------------------------------
(* putc *)

LEMMA PutcSettles ==
  ASSUME NEW d \in Settled, NEW c \in Characters
  PROVE  Putc(d, c) \in Settled
BY PutcAtMoves, ScrollSettles DEF Putc

LEMMA PutcBlankBehind ==
  ASSUME NEW d \in Settled, NEW c \in Characters, BlankBehind(d)
  PROVE  BlankBehind(Putc(d, c))
<1>1. /\ PutcAt(d, c) \in Displays /\ d \in Displays
      /\ c = "BS" \/ Position(PutcAt(d, c)) >= Position(d)
  BY PutcAtMoves, SettledIsDisplay
<1>2. BlankBehind(PutcAt(d, c))
  BY <1>1, PutcAtBlankBehind
<1> QED
  BY <1>1, <1>2, PutcAtFits, ScrollBlankBehind DEF Putc

\* A character typed behind a line is the end of the line.
LEMMA PutcShows ==
  ASSUME NEW d \in Settled, NEW c \in Characters \ Controls,
         NEW line \in Seq(Characters), Shows(d, line)
  PROVE  Shows(Putc(d, c), Append(line, c))
<1> DEFINE e == PutcAt(d, c)
           longer == Append(line, c)
<1>1. /\ d \in Displays /\ e \in Displays /\ Position(e) = Position(d) + 1
      /\ \A i \in Cells : e.vmem[i] = IF i = Position(d) THEN c ELSE d.vmem[i]
      /\ Fits(e)
  BY PutcAtMoves, PutcAtFits, PutOther, SettledIsDisplay
<1>2. Position(d) \in Cells /\ Position(d) \in Nat /\ Width * Height \in Nat
  BY <1>1, PositionInCells, PositionType
<1> HIDE DEF e
<1>3. /\ Len(line) \in Nat /\ longer \in Seq(Characters)
      /\ Len(longer) = Len(line) + 1 /\ longer[Len(line) + 1] = c
      /\ \A j \in 1..Len(line) : longer[j] = line[j]
  OBVIOUS
<1> HIDE DEF longer
<1>4. ASSUME NEW i \in 1..Len(longer), i <= Position(e)
      PROVE  e.vmem[Position(e) - i] = longer[Len(longer) + 1 - i]
  <2>1. CASE i = 1
    <3>1. Position(e) - i = Position(d) /\ Len(longer) + 1 - i = Len(line) + 1
      BY <1>1, <1>2, <1>3, <2>1
    <3> QED
      BY <1>1, <1>2, <1>3, <3>1
  <2>2. CASE i # 1
    <3>1. i - 1 \in 1..Len(line) /\ i - 1 <= Position(d)
      BY <1>1, <1>2, <1>3, <1>4, <2>2
    <3>2. Position(d) - (i - 1) \in Cells /\ Position(d) - (i - 1) # Position(d)
      BY <1>2, <1>3, <3>1 DEF Cells
    <3>3. Position(e) - i = Position(d) - (i - 1)
      BY <1>1, <1>2
    <3>4. e.vmem[Position(e) - i] = d.vmem[Position(d) - (i - 1)]
      BY <1>1, <3>2, <3>3
    <3>5. d.vmem[Position(d) - (i - 1)] = line[Len(line) + 1 - (i - 1)]
      BY <3>1 DEF Shows
    <3>6. /\ Len(line) + 1 - (i - 1) \in 1..Len(line)
          /\ Len(longer) + 1 - i = Len(line) + 1 - (i - 1)
      BY <1>3, <3>1
    <3> QED
      BY <1>3, <3>4, <3>5, <3>6
  <2> QED
    BY <2>1, <2>2
<1>5. Shows(e, longer)
  BY <1>4 DEF Shows
<1>6. Position(e) <= Width * Height
  BY <1>1, <1>2 DEF Cells
<1>7. Shows(Scroll(e), longer)
  BY <1>1, <1>3, <1>5, <1>6, ScrollShows
<1> QED
  BY <1>7 DEF Putc, e, longer

\* A backspace takes the last character off the line and off the screen.
LEMMA ErasedShows ==
  ASSUME NEW d \in Settled, NEW line \in Seq(Characters), line # <<>>, Shows(d, line)
  PROVE  Shows(Putc(d, "BS"), Front(line))
<1> DEFINE e == PutcAt(d, "BS")
           shorter == Front(line)
<1>1. "BS" \in Characters
  BY EditorAssumption
<1>2. /\ d \in Displays /\ e \in Displays /\ Fits(e)
      /\ Position(e) = IF Position(d) = 0 THEN 0 ELSE Position(d) - 1
      /\ \A i \in Cells : e.vmem[i] = IF i = Position(e) THEN Blank ELSE d.vmem[i]
  BY <1>1, PutcAtMoves, PutcAtFits, PutBackspace, SettledIsDisplay
<1>3. Position(d) \in Cells /\ Position(d) \in Nat /\ Width * Height \in Nat
  BY <1>2, PositionInCells, PositionType
<1> HIDE DEF e
<1>4. /\ Len(line) \in Nat \ {0} /\ shorter \in Seq(Characters)
      /\ Len(shorter) = Len(line) - 1
      /\ \A j \in 1..(Len(line) - 1) : shorter[j] = line[j]
  <2>1. Len(line) \in Nat /\ Len(line) # 0
    BY EmptySeq
  <2>2. shorter = SubSeq(line, 1, Len(line) - 1)
    BY DEF Front
  <2>3. \A j \in 1..(Len(line) - 1) : line[j] \in Characters
    BY <2>1
  <2>4. shorter = [j \in 1..(Len(line) - 1) |-> line[j]]
    BY <2>1, <2>2
  <2> HIDE DEF shorter
  <2> QED
    BY <2>1, <2>3, <2>4
<1> HIDE DEF shorter
<1>5. ASSUME NEW i \in 1..Len(shorter), i <= Position(e)
      PROVE  e.vmem[Position(e) - i] = shorter[Len(shorter) + 1 - i]
  <2>1. Position(e) = Position(d) - 1
    BY <1>2, <1>3, <1>4, <1>5
  <2>2. i + 1 \in 1..Len(line) /\ i + 1 <= Position(d)
    BY <1>3, <1>4, <1>5, <2>1
  <2>3. /\ Position(e) - i = Position(d) - (i + 1)
        /\ Position(e) - i \in Cells /\ Position(e) - i # Position(e)
    BY <1>3, <1>4, <1>5, <2>1, <2>2 DEF Cells
  <2>4. e.vmem[Position(e) - i] = d.vmem[Position(d) - (i + 1)]
    BY <1>2, <2>3
  <2>5. d.vmem[Position(d) - (i + 1)] = line[Len(line) + 1 - (i + 1)]
    BY <2>2 DEF Shows
  <2>6. /\ Len(shorter) + 1 - i \in 1..(Len(line) - 1)
        /\ Len(shorter) + 1 - i = Len(line) + 1 - (i + 1)
    BY <1>4, <2>2
  <2> QED
    BY <1>4, <2>4, <2>5, <2>6
<1>6. Shows(e, shorter)
  BY <1>5 DEF Shows
<1>7. Position(e) <= Width * Height
  BY <1>2, <1>3 DEF Cells
<1>8. Shows(Scroll(e), shorter)
  BY <1>2, <1>4, <1>6, <1>7, ScrollShows
<1> QED
  BY <1>8 DEF Putc, e, shorter

-----------------------------------------------------------------------------
(* puts *)

\* Typed is what its recursive definition says, and stays a display.
LEMMA TypedDef ==
  ASSUME NEW d \in Displays, NEW s \in Seq(Characters)
  PROVE  /\ Typed(d, s) \in [0..Len(s) -> Displays]
         /\ Typed(d, s)[0] = d
         /\ \A i \in 1..Len(s) : Typed(d, s)[i] = PutcAt(Typed(d, s)[i - 1], s[i])
<1> DEFINE n == Len(s)
           G == [x \in Displays \X (1..n) |-> PutcAt(x[1], s[x[2]])]
           Is(after) ==
             after = [i \in 0..n |-> IF i = 0 THEN d ELSE PutcAt(after[i - 1], s[i])]
           g == CHOOSE after : Is(after)
<1>1. n \in Nat /\ \A i \in 1..n : s[i] \in Characters
  OBVIOUS
<1>2. G \in [Displays \X (1..n) -> Displays]
  <2> HIDE DEF n
  <2> QED
    BY <1>1, PutcAtDisplay
<1>3. PICK f : IsRun(f, Displays, d, n, G)
  <2> HIDE DEF G, n
  <2> QED
    BY <1>1, <1>2, Recursion
<1>4. /\ f \in [0..n -> Displays] /\ f[0] = d
      /\ \A i \in 1..n : f[i] = G[<<f[i - 1], i>>]
  <2> HIDE DEF n, G
  <2> QED
    BY <1>3 DEF IsRun
<1>5. ASSUME NEW i \in 1..n PROVE f[i] = PutcAt(f[i - 1], s[i])
  <2>1. <<f[i - 1], i>> \in Displays \X (1..n)
    BY <1>4
  <2>2. G[<<f[i - 1], i>>] = PutcAt(f[i - 1], s[i])
    BY <2>1
  <2> QED
    BY <1>4, <2>2
<1>6. Is(f)
  BY <1>4, <1>5
<1>7. Is(g)
  BY <1>6
<1>8. Typed(d, s) = g
  BY DEF Typed
<1> HIDE DEF g
<1>9. g[0] = d /\ \A i \in 1..n : g[i] = PutcAt(g[i - 1], s[i])
  BY <1>7
<1>10. \A i \in 0..n : g[i] \in Displays
  <2> DEFINE S == {m \in Nat : m <= n => g[m] \in Displays}
  <2>1. 0 \in S
    BY <1>9
  <2>2. ASSUME NEW m \in Nat, m \in S PROVE m + 1 \in S
    <3>1. SUFFICES ASSUME m + 1 <= n PROVE g[m + 1] \in Displays
      OBVIOUS
    <3>2. g[m] \in Displays /\ m + 1 \in 1..n
      BY <2>2, <3>1
    <3>3. g[m + 1] = PutcAt(g[m], s[m + 1])
      BY <1>9, <3>2
    <3> QED
      BY <1>1, <3>2, <3>3, PutcAtDisplay
  <2> HIDE DEF S
  <2>3. Nat \subseteq S
    BY <2>1, <2>2, UpTo
  <2> QED
    BY <2>3 DEF S
<1>11. g \in [0..n -> Displays]
  BY <1>7, <1>10
<1> QED
  BY <1>8, <1>9, <1>11

LEMMA PutsAtDisplay ==
  ASSUME NEW d \in Displays, NEW s \in Seq(Characters)
  PROVE  PutsAt(d, s) \in Displays
<1>1. Len(s) \in 0..Len(s)
  OBVIOUS
<1> QED
  BY <1>1, TypedDef DEF PutsAt

LEMMA PutsSettles ==
  ASSUME NEW d \in Settled, NEW s \in Seq(Characters)
  PROVE  Puts(d, s) \in Settled
BY PutsAtDisplay, ScrollSettles, SettledIsDisplay DEF Puts

\* A string whose cursor is never taken back leaves nothing behind the cursor.
LEMMA PutsBlankBehind ==
  ASSUME NEW d \in Settled, NEW s \in Seq(Characters), BlankBehind(d), ~Overruns(d, s)
  PROVE  BlankBehind(Puts(d, s))
<1> DEFINE g == Typed(d, s)
           n == Len(s)
           S == {m \in Nat : m <= n => BlankBehind(g[m])}
<1>1. n \in Nat /\ \A i \in 1..n : s[i] \in Characters
  OBVIOUS
<1>2. /\ g \in [0..n -> Displays] /\ g[0] = d
      /\ \A i \in 1..n : g[i] = PutcAt(g[i - 1], s[i])
  BY TypedDef, SettledIsDisplay
<1>3. \A i \in 1..n : s[i] = "BS" \/ ~(Position(g[i]) < Position(g[i - 1]))
  BY DEF Overruns
<1>4. Fits(g[n])
  <2>1. g[n] \in Displays
    BY <1>1, <1>2
  <2>2. /\ ~(g[n].vy + (g[n].vx \div Width) >= Byte)
        /\ g[n].vy \in Nat /\ g[n].vx \in Nat
    BY <2>1, PositionType DEF Overruns
  <2> HIDE DEF g, n
  <2>3. g[n].vx \div Width \in Nat
    BY <2>2, NatDivision, Sizes
  <2> QED
    BY <2>2, <2>3, Sizes DEF Fits
<1> HIDE DEF g, n
<1>5. 0 \in S
  BY <1>2
<1>6. ASSUME NEW m \in Nat, m \in S PROVE m + 1 \in S
  <2>1. SUFFICES ASSUME m + 1 <= n PROVE BlankBehind(g[m + 1])
    OBVIOUS
  <2>2. m \in 0..n /\ m + 1 \in 0..n /\ m + 1 \in 1..n /\ (m + 1) - 1 = m
    BY <1>1, <2>1
  <2>3. g[m] \in Displays /\ g[m + 1] \in Displays /\ BlankBehind(g[m])
    BY <1>2, <1>6, <2>1, <2>2
  <2>4. g[m + 1] = PutcAt(g[m], s[m + 1]) /\ s[m + 1] \in Characters
    BY <1>1, <1>2, <2>2
  <2>5. s[m + 1] = "BS" \/ Position(g[m + 1]) >= Position(g[m])
    BY <1>3, <2>2, <2>3, PositionType
  <2> QED
    BY <2>3, <2>4, <2>5, PutcAtBlankBehind
<1> HIDE DEF S
<1>7. n \in S
  BY <1>1, <1>5, <1>6, UpTo
<1>8. g[n] \in Displays /\ BlankBehind(g[n])
  BY <1>1, <1>2, <1>7 DEF S
<1> QED
  BY <1>4, <1>8, ScrollBlankBehind DEF Puts, PutsAt, g, n

-----------------------------------------------------------------------------
(* The invariant of the editor *)

LEMMA EditorTypes ==
  ASSUME EditorTypeOK
  PROVE  /\ screen \in Settled /\ buf \in Seq(Characters)
         /\ Len(buf) \in Nat /\ Len(buf) <= allocated /\ allocated \in Nat \ {0}
BY DEF EditorTypeOK, Settled

LEMMA ShowsNothing == \A d : Shows(d, <<>>)
BY DEF Shows

LEMMA EmptyLine == <<>> \in Seq(Characters) /\ Len(<<>>) = 0
OBVIOUS

LEMMA PromptType == Prompt \in Seq(Characters)
<1>1. ">" \in Characters /\ Blank \in Characters
  BY EditorAssumption
<1> QED
  BY <1>1 DEF Prompt

\* The first line leaves the screen as the invariant wants it.
LEMMA FirstLine ==
  LET d == Puts(Cleared, <<"d", "\n">>) IN d \in Settled /\ BlankBehind(d)
<1> DEFINE s == <<"d", "\n">>
           g == Typed(Cleared, s)
           first == PutcAt(Cleared, "d")
           second == PutcAt(first, "\n")
<1>1. "d" \in Characters /\ "\n" \in Characters /\ Blank \in Characters
  BY EditorAssumption
<1>2. /\ Cleared \in Settled /\ Cleared \in Displays
      /\ BlankBehind(Cleared) /\ Position(Cleared) = 0
      /\ Cleared.vx = 0 /\ Cleared.vy = 0
  <2>1. 0 \in 0..(Width - 1) /\ 0 \in 0..(Height - 1) /\ 0 * Width = 0
    BY Sizes
  <2>2. Cleared \in Settled
    BY <1>1, <2>1 DEF Cleared, Settled
  <2> QED
    BY <2>1, <2>2, SettledIsDisplay, Sizes DEF Cleared, BlankBehind, Position
<1>3. "d" \in Characters \ Controls
  BY <1>1 DEF Controls
<1>4. s \in Seq(Characters) /\ Len(s) = 2 /\ s[1] = "d" /\ s[2] = "\n"
  BY <1>1
<1>5. Cleared.vx + 1 < Byte /\ (Cleared.vx + 1) % Byte = 1
  BY <1>2, Residues, Sizes
<1>6. /\ first \in Displays /\ first.vx = 1 /\ first.vy = 0
      /\ BlankBehind(first) /\ Position(first) = 1
  <2>1. first \in Displays /\ first.vx = 1 /\ first.vy = 0
    BY <1>2, <1>3, <1>5, PutOther
  <2>2. Position(first) = Position(Cleared) + 1
    BY <1>2, <1>3, PutcAtMoves
  <2>3. BlankBehind(first)
    BY <1>2, <1>3, <2>2, PutcAtBlankBehind
  <2> QED
    BY <1>2, <2>1, <2>2, <2>3
<1> HIDE DEF first
<1>7. /\ second \in Displays /\ Position(second) = Width
      /\ BlankBehind(second)
  <2>1. (first.vy + 1) % Byte = 1
    BY <1>6, Residues, Sizes
  <2>2. second \in Displays /\ second.vx = 0 /\ second.vy = 1
    BY <1>6, <2>1, PutNewLine
  <2>3. Position(second) = Width
    BY <2>2, Sizes DEF Position
  <2>4. BlankBehind(second)
    BY <1>1, <1>6, <2>3, PutcAtBlankBehind, Sizes
  <2> QED
    BY <2>2, <2>3, <2>4
<1>8. Puts(Cleared, s) = Scroll(second)
  <2>1. 1 \in 1..Len(s) /\ 2 \in 1..Len(s) /\ 1 - 1 = 0 /\ 2 - 1 = 1
    BY <1>4
  <2>2. g[0] = Cleared /\ \A i \in 1..Len(s) : g[i] = PutcAt(g[i - 1], s[i])
    BY <1>2, <1>4, TypedDef
  <2>3. g[1] = first
    BY <1>4, <2>1, <2>2 DEF first
  <2>4. g[2] = second
    BY <1>4, <2>1, <2>2, <2>3
  <2> HIDE DEF g, s, second
  <2>5. PutsAt(Cleared, s) = second
    BY <1>4, <2>4 DEF PutsAt, g
  <2> QED
    BY <2>5 DEF Puts
<1> HIDE DEF second
<1>9. Fits(second)
  <2>1. Width * 2 <= Width * Byte /\ Width * 2 > Width /\ Width * Byte \in Int
    BY ProductGrows, Sizes
  <2> QED
    BY <1>7, <2>1, FitsByPosition, Sizes
<1>10. Scroll(second) \in Settled /\ BlankBehind(Scroll(second))
  BY <1>7, <1>9, ScrollSettles, ScrollBlankBehind
<1> QED
  BY <1>8, <1>10

LEMMA EditorInit == Init => EditorInv
<1> SUFFICES ASSUME Init PROVE EditorInv
  OBVIOUS
<1>1. screen \in Settled /\ BlankBehind(screen)
  BY FirstLine DEF Init
<1>2. Shows(screen, buf)
  BY ShowsNothing DEF Init
<1>3. Initial \in Nat \ {0}
  BY EditorAssumption
<1>4. buf \in Seq(Characters) /\ Len(buf) <= allocated /\ allocated \in Nat \ {0}
  BY <1>3, EmptyLine DEF Init
<1>5. /\ shift \in BOOLEAN /\ capslock \in BOOLEAN /\ typing \in BOOLEAN
      /\ tabbed \in BOOLEAN /\ overrun \in BOOLEAN /\ buf = <<>>
  BY DEF Init
<1> QED
  BY <1>1, <1>2, <1>4, <1>5 DEF EditorInv, EditorTypeOK, Settled

LEMMA TypeStep ==
  ASSUME EditorInv, typing, NEW k, Type(k)
  PROVE  EditorInv'
<1> DEFINE c == Character(k)
<1>1. /\ screen \in Settled /\ buf \in Seq(Characters)
      /\ Len(buf) \in Nat /\ Len(buf) <= allocated /\ allocated \in Nat \ {0}
  BY EditorTypes DEF EditorInv
<1>2. c \in Characters /\ (k # "tab" => c \notin Controls)
  <2>1. k \in {"letter", "digit", "tab", "none"}
    BY DEF Type
  <2>2. {"NUL", "\t", "a", "A", "1", "!"} \subseteq Characters
    BY EditorAssumption
  <2> QED
    BY <2>1, <2>2 DEF Character, Controls
<1>3. /\ screen' = Putc(screen, c) /\ buf' = Append(buf, c)
      /\ allocated' = Enlarged /\ tabbed' = (tabbed \/ k = "tab")
      /\ UNCHANGED <<shift, capslock, typing, overrun>>
  BY DEF Type
<1> HIDE DEF c
<1>4. screen' \in Settled
  BY <1>1, <1>2, <1>3, PutcSettles
<1>5. /\ buf' \in Seq(Characters) /\ Len(buf') <= allocated' /\ allocated' \in Nat \ {0}
  BY <1>1, <1>2, <1>3 DEF Enlarged
<1>6. EditorTypeOK'
  BY <1>3, <1>4, <1>5 DEF EditorInv, EditorTypeOK, Settled
<1>7. ASSUME ~tabbed' PROVE Shows(screen', buf')
  <2>1. ~tabbed /\ k # "tab"
    BY <1>3, <1>7
  <2>2. c \in Characters \ Controls /\ Shows(screen, buf)
    BY <1>2, <2>1 DEF EditorInv
  <2> QED
    BY <1>1, <1>3, <2>2, PutcShows
<1>8. ASSUME ~overrun' PROVE BlankBehind(screen')
  <2>1. BlankBehind(screen)
    BY <1>3, <1>8 DEF EditorInv
  <2> QED
    BY <1>1, <1>2, <1>3, <2>1, PutcBlankBehind
<1>9. typing'
  BY <1>3
<1> QED
  BY <1>6, <1>7, <1>8, <1>9 DEF EditorInv, Shows, BlankBehind, Position

LEMMA EraseStep ==
  ASSUME EditorInv, typing, Erase
  PROVE  EditorInv'
<1>1. /\ screen \in Settled /\ buf \in Seq(Characters)
      /\ Len(buf) \in Nat /\ Len(buf) <= allocated /\ allocated \in Nat \ {0}
  BY EditorTypes DEF EditorInv
<1>2. UNCHANGED <<allocated, shift, capslock, typing, tabbed, overrun>>
  BY DEF Erase
<1>3. CASE buf = <<>>
  <2>1. UNCHANGED vars
    BY <1>2, <1>3 DEF Erase, vars
  <2> QED
    BY <2>1 DEF vars, EditorInv, EditorTypeOK, Shows, BlankBehind, Position
<1>4. CASE buf # <<>>
  <2>1. screen' = Putc(screen, "BS") /\ buf' = Front(buf) /\ "BS" \in Characters
    BY <1>4, EditorAssumption DEF Erase
  <2>2. screen' \in Settled
    BY <1>1, <2>1, PutcSettles
  <2>3. Front(buf) \in Seq(Characters) /\ Len(Front(buf)) <= Len(buf)
    <3>1. Len(buf) # 0 /\ Front(buf) = SubSeq(buf, 1, Len(buf) - 1)
      BY <1>1, <1>4, EmptySeq DEF Front
    <3>2. Front(buf) = [j \in 1..(Len(buf) - 1) |-> buf[j]]
      BY <1>1, <3>1
    <3> QED
      BY <1>1, <3>1, <3>2
  <2>4. EditorTypeOK'
    BY <1>1, <1>2, <2>1, <2>2, <2>3 DEF EditorInv, EditorTypeOK, Settled
  <2>5. ASSUME ~tabbed' PROVE Shows(screen', buf')
    <3>1. Shows(screen, buf)
      BY <1>2, <2>5 DEF EditorInv
    <3> QED
      BY <1>1, <1>4, <2>1, <3>1, ErasedShows
  <2>6. ASSUME ~overrun' PROVE BlankBehind(screen')
    <3>1. BlankBehind(screen)
      BY <1>2, <2>6 DEF EditorInv
    <3> QED
      BY <1>1, <2>1, <3>1, PutcBlankBehind
  <2>7. typing'
    BY <1>2
  <2> QED
    BY <2>4, <2>5, <2>6, <2>7 DEF EditorInv, Shows, BlankBehind, Position
<1> QED
  BY <1>3, <1>4

LEMMA EnterStep ==
  ASSUME EditorInv, Enter
  PROVE  EditorInv'
<1>1. screen \in Settled /\ allocated \in Nat \ {0} /\ "\n" \in Characters
  BY EditorTypes, EditorAssumption DEF EditorInv
<1>2. /\ screen' = Putc(screen, "\n") /\ buf' = <<>> /\ ~typing' /\ typing' \in BOOLEAN
      /\ tabbed' = FALSE /\ UNCHANGED <<allocated, shift, capslock, overrun>>
  BY DEF Enter
<1>3. screen' \in Settled
  BY <1>1, <1>2, PutcSettles
<1>4. EditorTypeOK'
  <2>1. buf' \in Seq(Characters) /\ Len(buf') <= allocated' /\ allocated' \in Nat \ {0}
    BY <1>1, <1>2, EmptyLine
  <2>2. /\ shift' \in BOOLEAN /\ capslock' \in BOOLEAN /\ tabbed' \in BOOLEAN
        /\ overrun' \in BOOLEAN
    BY <1>2 DEF EditorInv, EditorTypeOK
  <2> QED
    BY <1>2, <1>3, <2>1, <2>2 DEF EditorTypeOK, Settled
<1>5. ASSUME ~overrun' PROVE BlankBehind(screen')
  <2>1. BlankBehind(screen)
    BY <1>2, <1>5 DEF EditorInv
  <2> QED
    BY <1>1, <1>2, <2>1, PutcBlankBehind
<1>6. Shows(screen', buf')
  BY <1>2, ShowsNothing
<1> QED
  BY <1>2, <1>4, <1>5, <1>6 DEF EditorInv, Shows, BlankBehind, Position

LEMMA ModifierStep ==
  ASSUME EditorInv, NEW k, Modifier(k)
  PROVE  EditorInv'
<1>1. shift' \in BOOLEAN /\ capslock' \in BOOLEAN
  BY DEF Modifier, EditorInv, EditorTypeOK
<1>2. UNCHANGED <<screen, buf, allocated, typing, tabbed, overrun>>
  BY DEF Modifier
<1> QED
  BY <1>1, <1>2 DEF EditorInv, EditorTypeOK, Shows, BlankBehind, Position

\* The shell writes between two lines: the line is empty then.
LEMMA ShellWrites ==
  ASSUME EditorInv, ~typing, NEW d, d \in Settled, screen' = d,
         overrun' \/ BlankBehind(d), overrun' \in BOOLEAN, typing' \in BOOLEAN,
         UNCHANGED <<buf, allocated, shift, capslock, tabbed>>
  PROVE  EditorInv'
<1>1. buf = <<>> /\ buf' = <<>>
  BY DEF EditorInv
<1>2. EditorTypeOK'
  BY DEF EditorInv, EditorTypeOK, Settled
<1>3. Shows(screen', buf')
  BY <1>1, ShowsNothing
<1> QED
  BY <1>1, <1>2, <1>3 DEF EditorInv, Shows, BlankBehind, Position

LEMMA PrintStep ==
  ASSUME EditorInv, NEW s \in Outputs, PrintValue(s)
  PROVE  EditorInv'
<1> DEFINE d == Putc(Puts(screen, s), "\n")
<1>1. /\ screen \in Settled /\ s \in Seq(Characters) /\ "\n" \in Characters
      /\ ~typing /\ overrun \in BOOLEAN /\ typing \in BOOLEAN
  BY EditorTypes, EditorAssumption DEF EditorInv, EditorTypeOK, PrintValue
<1>2. /\ screen' = d /\ overrun' = (overrun \/ Overruns(screen, s))
      /\ UNCHANGED <<buf, allocated, shift, capslock, typing, tabbed>>
  BY DEF PrintValue
<1>3. Puts(screen, s) \in Settled
  BY <1>1, PutsSettles
<1>4. d \in Settled
  BY <1>1, <1>3, PutcSettles
<1>5. ASSUME ~overrun' PROVE BlankBehind(d)
  <2>1. BlankBehind(screen) /\ ~Overruns(screen, s)
    BY <1>2, <1>5 DEF EditorInv
  <2>2. BlankBehind(Puts(screen, s))
    BY <1>1, <2>1, PutsBlankBehind
  <2> QED
    BY <1>1, <1>3, <2>2, PutcBlankBehind
<1> HIDE DEF d
<1> QED
  BY <1>1, <1>2, <1>4, <1>5, ShellWrites

LEMMA PromptStep ==
  ASSUME EditorInv, ShowPrompt
  PROVE  EditorInv'
<1> DEFINE d == Puts(screen, Prompt)
<1>1. screen \in Settled /\ Prompt \in Seq(Characters) /\ ~typing /\ overrun \in BOOLEAN
  BY EditorTypes, PromptType DEF EditorInv, EditorTypeOK, ShowPrompt
<1>2. /\ screen' = d /\ overrun' = (overrun \/ Overruns(screen, Prompt))
      /\ typing' = TRUE /\ UNCHANGED <<buf, allocated, shift, capslock, tabbed>>
  BY DEF ShowPrompt
<1>3. d \in Settled
  BY <1>1, PutsSettles
<1>4. ASSUME ~overrun' PROVE BlankBehind(d)
  <2>1. BlankBehind(screen) /\ ~Overruns(screen, Prompt)
    BY <1>2, <1>4 DEF EditorInv
  <2> QED
    BY <1>1, <2>1, PutsBlankBehind
<1> HIDE DEF d
<1> QED
  BY <1>1, <1>2, <1>3, <1>4, ShellWrites

\* The invariant of the editor is inductive, whatever is typed and printed: on
\* no screen does a key or a printed string leave the cursor off the screen,
\* the line larger than its block (size_buffer), the screen showing another
\* line than console_task_buf holds, or something shown behind the cursor.
THEOREM EditorInductive == Spec => []EditorInv
<1>1. EditorInv /\ [Next]_vars => EditorInv'
  <2> SUFFICES ASSUME EditorInv, [Next]_vars PROVE EditorInv'
    OBVIOUS
  <2>1. ASSUME NEW k \in Keys, Press(k) PROVE EditorInv'
    BY <2>1, TypeStep, EraseStep, EnterStep, ModifierStep DEF Press
  <2>2. ASSUME NEW s \in Outputs, PrintValue(s) PROVE EditorInv'
    BY <2>2, PrintStep
  <2>3. CASE ShowPrompt
    BY <2>3, PromptStep
  <2>4. CASE UNCHANGED vars
    BY <2>4 DEF vars, EditorInv, EditorTypeOK, Shows, BlankBehind, Position
  <2> QED
    BY <2>1, <2>2, <2>3, <2>4 DEF Next
<1> QED
  BY <1>1, EditorInit, PTL DEF Spec

\* What is typed is what is shown: before the cursor the end of the line in
\* console_task_buf, behind it nothing, on a screen of any size.
THEOREM TypedIsShown == Spec => []EchoIsLine
<1>1. EditorInv => EchoIsLine
  BY DEF EditorInv, EchoIsLine
<1> QED
  BY <1>1, EditorInductive, PTL

-----------------------------------------------------------------------------
(* puts and putc *)

LEMMA ScrollInPlace ==
  ASSUME NEW d \in Displays, Position(d) < Width * Height
  PROVE  /\ Scroll(d) = [vx |-> d.vx % Width, vy |-> d.vy + (d.vx \div Width),
                         vmem |-> d.vmem]
         /\ Position(Scroll(d)) = Position(d)
<1> DEFINE q == d.vx \div Width
           r == d.vx % Width
<1>1. d.vx \in Nat /\ d.vy \in Nat /\ Width \in Nat \ {0} /\ Height \in Nat \ {0}
  BY PositionType, Sizes
<1>2. r \in 0..(Width - 1) /\ d.vx = (Width * q) + r
  <2>1. d.vx \in Int /\ Width \in Nat \ {0}
    BY <1>1
  <2> QED
    BY <2>1, Division
<1>3. q \in Nat /\ d.vy + q < Height
  BY <1>1, RowByPosition
<1>4. (d.vy + q) % Byte = d.vy + q
  <2>1. d.vy + q \in Nat /\ d.vy + q < Byte
    BY <1>1, <1>3, Sizes
  <2> QED
    BY <2>1, Residues
<1>5. Scroll(d) = [vx |-> r, vy |-> d.vy + q, vmem |-> d.vmem]
  <2>1. 0 * Width = 0 /\ \A i \in Cells : i + 0 = i
    BY <1>1 DEF Cells
  <2>2. d.vmem = [i \in Cells |-> d.vmem[i]]
    BY DEF Displays
  <2>3. ~((d.vy + q) % Byte >= Height) /\ (d.vy + q) - 0 = d.vy + q
    BY <1>1, <1>3, <1>4
  <2> HIDE DEF q, r
  <2>4. Scroll(d) = [vx |-> r, vy |-> (d.vy + q) - 0,
                     vmem |-> [i \in Cells |-> IF i + (0 * Width) \in Cells
                                                 THEN d.vmem[i + (0 * Width)] ELSE Blank]]
    BY <1>4, <2>3 DEF Scroll, q, r
  <2>5. [i \in Cells |-> IF i + (0 * Width) \in Cells
                            THEN d.vmem[i + (0 * Width)] ELSE Blank] = d.vmem
    BY <2>1, <2>2
  <2> QED
    BY <2>3, <2>4, <2>5
<1> HIDE DEF q, r
<1>6. Position(Scroll(d)) = Position(d)
  <2>1. Position(Scroll(d)) = ((d.vy + q) * Width) + r
    BY <1>5 DEF Position
  <2>2. (d.vy + q) * Width = (d.vy * Width) + (Width * q)
    BY <1>1, <1>3
  <2>3. d.vy * Width \in Int /\ Width * q \in Int
    BY <1>1, <1>3, Product
  <2> QED
    BY <1>2, <2>1, <2>2, <2>3, PositionType
<1> QED
  BY <1>5, <1>6 DEF q, r

\* Two displays with the same cursor, once vx is within its row, scroll alike.
LEMMA ScrollAlike ==
  ASSUME NEW d, NEW e, d.vmem = e.vmem, d.vx % Width = e.vx % Width,
         d.vy + (d.vx \div Width) = e.vy + (e.vx \div Width)
  PROVE  Scroll(d) = Scroll(e)
BY DEF Scroll

\* It makes no difference that the cursor is brought back into its row before
\* one more character is written.
LEMMA ScrollLater ==
  ASSUME NEW d \in Displays, NEW c \in Characters \ Controls,
         Position(d) < Width * Height, d.vx + 1 < Byte
  PROVE  Putc(Scroll(d), c) = Scroll(PutcAt(d, c))
<1> DEFINE q == d.vx \div Width
           r == d.vx % Width
           b == Scroll(d)
           e == PutcAt(d, c)
           f == PutcAt(b, c)
<1>1. /\ d.vx \in Nat /\ d.vy \in Nat /\ Width \in Nat \ {0} /\ Height \in Nat \ {0}
  BY PositionType, Sizes
<1>2. r \in 0..(Width - 1) /\ d.vx = (Width * q) + r
  <2>1. d.vx \in Int /\ Width \in Nat \ {0}
    BY <1>1
  <2> QED
    BY <2>1, Division
<1>3. q \in Nat /\ d.vy + q < Height
  BY <1>1, RowByPosition
<1>4. /\ b \in Displays /\ b.vx = r /\ b.vy = d.vy + q /\ b.vmem = d.vmem
      /\ Position(b) = Position(d)
  BY ScrollInPlace, ScrollSettles, SettledIsDisplay
<1>5. /\ e \in Displays /\ e.vx = (d.vx + 1) % Byte /\ e.vy = d.vy
      /\ \A i \in Cells : e.vmem[i] = IF i = Position(d) THEN c ELSE d.vmem[i]
  BY PutOther
<1> HIDE DEF q, r, b, e
<1>6. /\ f \in Displays /\ f.vx = (b.vx + 1) % Byte /\ f.vy = b.vy
      /\ \A i \in Cells : f.vmem[i] = IF i = Position(b) THEN c ELSE b.vmem[i]
  BY <1>4, PutOther
<1> HIDE DEF f
<1>7. e.vx = d.vx + 1 /\ f.vx = r + 1
  <2>1. d.vx + 1 \in Nat /\ r + 1 \in Nat /\ r + 1 < Byte
    BY <1>1, <1>2, Sizes
  <2> QED
    BY <1>4, <1>5, <1>6, <2>1, Residues
<1>8. e.vmem = f.vmem
  <2>1. \A i \in Cells : e.vmem[i] = f.vmem[i]
    BY <1>4, <1>5, <1>6
  <2>2. e.vmem \in [Cells -> Characters] /\ f.vmem \in [Cells -> Characters]
    BY <1>5, <1>6 DEF Displays
  <2> QED
    BY <2>1, <2>2
<1>9. /\ e.vx % Width = f.vx % Width
      /\ e.vy + (e.vx \div Width) = f.vy + (f.vx \div Width)
  <2>1. Width * q \in Int
    BY <1>1, <1>3, Product
  <2>2. CASE r + 1 < Width
    <3>1. /\ e.vx = (Width * q) + (r + 1) /\ r + 1 \in 0..(Width - 1)
          /\ f.vx = (Width * 0) + (r + 1) /\ e.vx \in Int /\ f.vx \in Int
      BY <1>1, <1>2, <1>7, <2>1, <2>2
    <3>2. e.vx % Width = r + 1 /\ e.vx \div Width = q
      <4>1. q \in Int
        BY <1>3
      <4>2. e.vx % Width = r + 1
        BY <1>1, <3>1, <4>1, OneResidue
      <4>3. e.vx \div Width = q
        BY <1>1, <3>1, <4>1, OneQuotient
      <4> QED
        BY <4>2, <4>3
    <3>3. f.vx % Width = r + 1 /\ f.vx \div Width = 0
      BY <1>1, <3>1, OneResidue, OneQuotient
    <3> QED
      BY <1>1, <1>3, <1>4, <1>5, <1>6, <3>2, <3>3
  <2>3. CASE r + 1 = Width
    <3>1. Width * (q + 1) = (Width * q) + Width
      BY <1>1, <1>3
    <3>2. /\ e.vx = (Width * (q + 1)) + 0 /\ 0 \in 0..(Width - 1)
          /\ f.vx = (Width * 1) + 0 /\ e.vx \in Int /\ f.vx \in Int /\ q + 1 \in Int
      BY <1>1, <1>2, <1>3, <1>7, <2>1, <2>3, <3>1
    <3>3. e.vx % Width = 0 /\ e.vx \div Width = q + 1
      BY <1>1, <3>2, OneResidue, OneQuotient
    <3>4. f.vx % Width = 0 /\ f.vx \div Width = 1
      BY <1>1, <3>2, OneResidue, OneQuotient
    <3> QED
      BY <1>1, <1>3, <1>4, <1>5, <1>6, <3>3, <3>4
  <2> QED
    BY <1>1, <1>2, <2>2, <2>3
<1>10. Scroll(f) = Scroll(e)
  BY <1>8, <1>9, ScrollAlike
<1> QED
  BY <1>10 DEF Putc, b, e, f

\* A display that is settled has nothing to scroll.
LEMMA NothingToScroll ==
  ASSUME NEW d \in Settled
  PROVE  Scroll(d) = d
<1>1. d \in Displays /\ d.vx \in 0..(Width - 1) /\ d.vy \in Nat
  BY SettledIsDisplay, PositionType DEF Settled
<1>2. Position(d) < Width * Height
  BY PositionInCells DEF Cells
<1>3. d.vx = (Width * 0) + d.vx
  BY <1>1, Sizes
<1>4. d.vx % Width = d.vx /\ d.vx \div Width = 0
  BY <1>1, <1>3, OneResidue, OneQuotient, Sizes
<1>5. Scroll(d) = [vx |-> d.vx, vy |-> d.vy, vmem |-> d.vmem]
  BY <1>1, <1>2, <1>4, ScrollInPlace
<1> QED
  BY <1>5 DEF Settled

LEMMA PutsOneByOne ==
  ASSUME NEW d \in Settled, NEW s \in Seq(Characters),
         Position(d) + Len(s) <= Width * Height, d.vx + Len(s) < Byte,
         \A i \in 1..Len(s) : s[i] \notin {"\n", "\t", "BS"}
  PROVE  Puts(d, s) = PutOneByOne(d, s)[Len(s)]
<1> DEFINE n == Len(s)
           t == Typed(d, s)
           Is(after) ==
             after = [i \in 0..n |-> IF i = 0 THEN d ELSE Putc(after[i - 1], s[i])]
           f == [i \in 0..n |-> Scroll(t[i])]
           p == CHOOSE after : Is(after)
<1>1. n \in Nat /\ \A i \in 1..n : s[i] \in Characters \ Controls
  BY DEF Controls
<1>2. /\ d \in Displays /\ d.vx \in Nat /\ d.vy \in Nat /\ Position(d) \in Nat
      /\ Position(d) = (d.vy * Width) + d.vx /\ d.vy * Width \in Nat
      /\ Width * Height \in Nat
  BY SettledIsDisplay, PositionType, PositionInCells
<1>3. /\ t \in [0..n -> Displays] /\ t[0] = d
      /\ \A i \in 1..n : t[i] = PutcAt(t[i - 1], s[i])
  BY <1>2, TypedDef
<1>4. Position(d) + n <= Width * Height /\ d.vx + n < Byte
  OBVIOUS
<1> HIDE DEF t, n
<1>5. \A i \in 0..n : t[i].vx = d.vx + i /\ t[i].vy = d.vy
  <2> DEFINE S == {m \in Nat : m <= n => t[m].vx = d.vx + m /\ t[m].vy = d.vy}
  <2>1. 0 \in S
    BY <1>2, <1>3
  <2>2. ASSUME NEW m \in Nat, m \in S PROVE m + 1 \in S
    <3>1. SUFFICES ASSUME m + 1 <= n
                   PROVE  t[m + 1].vx = d.vx + (m + 1) /\ t[m + 1].vy = d.vy
      OBVIOUS
    <3>2. /\ m \in 0..n /\ m + 1 \in 1..n /\ (m + 1) - 1 = m
          /\ t[m].vx = d.vx + m /\ t[m].vy = d.vy
      BY <1>1, <2>2, <3>1
    <3>3. t[m] \in Displays /\ t[m + 1] = PutcAt(t[m], s[m + 1])
      BY <1>3, <3>2
    <3>4. t[m + 1].vx = (t[m].vx + 1) % Byte /\ t[m + 1].vy = t[m].vy
      <4>1. s[m + 1] \in Characters \ Controls
        BY <1>1, <3>2
      <4> QED
        BY <3>3, <4>1, PutOther
    <3>5. t[m].vx + 1 \in Nat /\ t[m].vx + 1 < Byte /\ t[m].vx + 1 = d.vx + (m + 1)
      <4>1. d.vx + n < Byte /\ m + 1 <= n /\ n \in Nat /\ Byte \in Nat /\ d.vx \in Nat
        BY <1>1, <1>2, <1>4, <3>1, Sizes
      <4>2. d.vx + m + 1 \in Nat /\ d.vx + m + 1 < Byte
        BY <4>1
      <4>3. t[m].vx = d.vx + m
        BY <3>2
      <4> QED
        BY <4>1, <4>2, <4>3
    <3>6. (t[m].vx + 1) % Byte = t[m].vx + 1
      BY <3>5, Residues
    <3> QED
      BY <3>2, <3>4, <3>5, <3>6
  <2> HIDE DEF S
  <2>3. Nat \subseteq S
    BY <2>1, <2>2, UpTo
  <2> QED
    BY <1>1, <2>3 DEF S
<1>6. ASSUME NEW i \in 1..n PROVE Scroll(t[i]) = Putc(Scroll(t[i - 1]), s[i])
  <2>1. /\ i - 1 \in 0..n /\ t[i - 1] \in Displays /\ t[i] = PutcAt(t[i - 1], s[i])
        /\ t[i - 1].vx = d.vx + (i - 1) /\ t[i - 1].vy = d.vy
    BY <1>1, <1>3, <1>5
  <2>2. Position(t[i - 1]) = Position(d) + (i - 1)
    <3>1. Position(t[i - 1]) = (d.vy * Width) + (d.vx + (i - 1))
      BY <2>1 DEF Position
    <3> QED
      BY <1>1, <1>2, <3>1
  <2>3. Position(t[i - 1]) < Width * Height /\ t[i - 1].vx + 1 < Byte
    <3>1. i \in Nat /\ i <= n /\ n \in Nat /\ Byte \in Nat
      BY <1>1, Sizes
    <3>2. Position(d) + (i - 1) < Width * Height
      BY <1>2, <1>4, <3>1
    <3>3. (d.vx + (i - 1)) + 1 < Byte
      BY <1>2, <1>4, <3>1
    <3> QED
      BY <2>1, <2>2, <3>2, <3>3
  <2> QED
    BY <1>1, <2>1, <2>3, ScrollLater
<1>7. Is(f)
  <2>1. f[0] = d
    BY <1>1, <1>3, NothingToScroll
  <2>2. \A i \in 1..n : f[i] = Putc(f[i - 1], s[i])
    BY <1>1, <1>6
  <2> QED
    BY <1>1, <2>1, <2>2
<1>8. Is(p)
  <2> HIDE DEF f
  <2> QED
    BY <1>7
<1>9. PutOneByOne(d, s) = p
  BY DEF PutOneByOne, n
<1> HIDE DEF p
<1>10. p[0] = d /\ \A i \in 1..n : p[i] = Putc(p[i - 1], s[i])
  BY <1>1, <1>8
<1>11. p[n] = Scroll(t[n])
  <2> DEFINE S == {m \in Nat : m <= n => p[m] = Scroll(t[m])}
  <2>1. 0 \in S
    BY <1>3, <1>10, NothingToScroll
  <2>2. ASSUME NEW m \in Nat, m \in S PROVE m + 1 \in S
    <3>1. SUFFICES ASSUME m + 1 <= n PROVE p[m + 1] = Scroll(t[m + 1])
      OBVIOUS
    <3>2. m + 1 \in 1..n /\ (m + 1) - 1 = m /\ p[m] = Scroll(t[m])
      BY <1>1, <2>2, <3>1
    <3>3. p[m + 1] = Putc(p[m], s[m + 1])
      BY <1>10, <3>2
    <3>4. Scroll(t[m + 1]) = Putc(Scroll(t[m]), s[m + 1])
      BY <1>6, <3>2
    <3> QED
      BY <3>2, <3>3, <3>4
  <2> HIDE DEF S
  <2>3. Nat \subseteq S
    BY <2>1, <2>2, UpTo
  <2> QED
    BY <1>1, <2>3 DEF S
<1> QED
  BY <1>9, <1>11 DEF Puts, PutsAt, t, n

\* puts, which looks at the rows once and at the end, does to any screen what
\* putc does to it character by character.
THEOREM PutsIsPutcs == Spec => []PutsAsPutcs
<1>1. EditorInv => PutsAsPutcs
  <2> SUFFICES ASSUME EditorInv, NEW s \in Outputs,
                      Position(screen) + Len(s) <= Width * Height,
                      screen.vx + Len(s) < Byte,
                      \A i \in 1..Len(s) : s[i] \notin {"\n", "\t", "BS"}
               PROVE  Puts(screen, s) = PutOneByOne(screen, s)[Len(s)]
    BY DEF PutsAsPutcs
  <2>1. screen \in Settled /\ s \in Seq(Characters)
    BY EditorTypes, EditorAssumption DEF EditorInv
  <2> QED
    BY <2>1, PutsOneByOne
<1> QED
  BY <1>1, EditorInductive, PTL
=============================================================================
