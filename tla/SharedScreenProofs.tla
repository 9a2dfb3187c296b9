------------------------- MODULE SharedScreenProofs -------------------------
(***************************************************************************)
(* Theorems about SharedScreen and ScreenAlone, for any number of tasks,   *)
(* any screen and any strings: whatever the order of the tasks' loads and  *)
(* stores, the cursor is on the screen when none of them is writing; and a *)
(* task that had the cursor for itself leaves it where Screen says.        *)
(***************************************************************************)
EXTENDS ScreenAlone, Lemmas

Labels == {"out"} \cup InPutc \cup InColumns \cup InRows

\* The places from which a task goes through the first loop of scroll.
Ahead == InPutc \cup InColumns

LEMMA ModInRange ==
  ASSUME NEW a \in Nat, NEW b \in Nat \ {0}
  PROVE  a % b \in Nat /\ a % b < b
OBVIOUS

\* A register holds a natural number even after a subtraction in eight bits.
LEMMA LessNat ==
  ASSUME NEW n \in Nat, NEW m \in Nat, m <= Byte
  PROVE  Less(n, m) \in Nat
BY SharedScreenAssumption DEF Less

-----------------------------------------------------------------------------
\* The four things a task does with the cursor keep its type.
LEMMA TestType ==
  ASSUME ScreenTypeOK, NEW t \in Tasks, NEW from, NEW to \in Labels, Test(t, from, to)
  PROVE  ScreenTypeOK'
BY DEF ScreenTypeOK, Test, Goto, Labels

LEMMA LoadType ==
  ASSUME ScreenTypeOK, NEW t \in Tasks, NEW from, NEW to \in Labels, NEW v \in Nat,
         Load(t, from, to, v)
  PROVE  ScreenTypeOK'
BY DEF ScreenTypeOK, Load, Goto, Labels

LEMMA StoreXType ==
  ASSUME ScreenTypeOK, NEW t \in Tasks, NEW from, NEW to \in Labels, NEW v \in Nat,
         StoreX(t, from, to, v)
  PROVE  ScreenTypeOK'
<1>1. v % Byte \in 0..(Byte - 1)
  BY ModInRange, SharedScreenAssumption
<1> QED
  BY <1>1 DEF ScreenTypeOK, StoreX, Goto, Labels

LEMMA StoreYType ==
  ASSUME ScreenTypeOK, NEW t \in Tasks, NEW from, NEW to \in Labels, NEW v \in Nat,
         StoreY(t, from, to, v)
  PROVE  ScreenTypeOK'
<1>1. v % Byte \in 0..(Byte - 1)
  BY ModInRange, SharedScreenAssumption
<1> QED
  BY <1>1 DEF ScreenTypeOK, StoreY, Goto, Labels

\* A step of task t keeps the watch if t keeps it itself, or if the cursor it
\* leaves is on the screen or was somebody else's to watch.
LEMMA WatchKept ==
  ASSUME ScreenTypeOK, Watched, NEW t \in Tasks, NEW to \in Labels, Goto(t, to),
         vx' >= Width => to \in Ahead \/ (vx' = vx /\ pc[t] \notin Ahead),
         vy' >= Height => to # "out" \/ (vy' = vy /\ pc[t] = "out")
  PROVE  Watched'
<1>1. pc \in [Tasks -> Labels] /\ pc' = [pc EXCEPT ![t] = to]
  BY DEF ScreenTypeOK, Labels, Goto
<1>2. ASSUME vx' >= Width PROVE \E u \in Tasks : pc'[u] \in Ahead
  <2>1. CASE to \in Ahead
    BY <1>1, <2>1
  <2>2. CASE vx' = vx /\ pc[t] \notin Ahead
    <3>1. PICK u \in Tasks : pc[u] \in Ahead
      BY <1>2, <2>2 DEF Watched, Ahead
    <3> QED
      BY <1>1, <2>2, <3>1
  <2> QED
    BY <1>2, <2>1, <2>2
<1>3. ASSUME vy' >= Height PROVE \E u \in Tasks : pc'[u] # "out"
  <2>1. CASE to # "out"
    BY <1>1, <2>1
  <2>2. CASE vy' = vy /\ pc[t] = "out"
    <3>1. PICK u \in Tasks : pc[u] # "out"
      BY <1>3, <2>2 DEF Watched
    <3> QED
      BY <1>1, <2>2, <3>1
  <2> QED
    BY <1>3, <2>1, <2>2
<1> QED
  BY <1>2, <1>3 DEF Watched, Ahead

\* Up to the loops of scroll a task watches both the column and the row.
LEMMA WatchedInPutc ==
  ASSUME ScreenTypeOK, Watched, NEW t \in Tasks, NEW to \in Ahead, Goto(t, to)
  PROVE  Watched'
<1>1. to \in Labels /\ to # "out"
  BY DEF Ahead, Labels, InPutc, InColumns
<1> QED
  BY <1>1, WatchKept

-----------------------------------------------------------------------------
\* putc_at, and the steps of the first loop of scroll that stay in it.
LEMMA PutcAtStep ==
  ASSUME ScreenInv, NEW t \in Tasks,
         \/ \E c \in DOMAIN First : PutcAt(t, c)
         \/ NewLine(t) \/ Tab(t) \/ Backspace(t) \/ Character(t) \/ Scroll(t)
  PROVE  ScreenInv'
<1> USE DEF ScreenInv
<1>1. /\ \A l \in Ahead : l \in Labels
      /\ vx \in Nat /\ vy \in Nat /\ reg[t] \in Nat
      /\ Width \in Nat /\ Width <= Byte /\ Byte \in Nat /\ 1 <= Byte
      /\ TabStop \in Nat \ {0}
  BY SharedScreenAssumption DEF ScreenTypeOK, Ahead, Labels
<1>2. ASSUME NEW from, NEW to \in Ahead, Test(t, from, to) PROVE ScreenInv'
  BY <1>1, <1>2, TestType, WatchedInPutc DEF Test
<1>3. ASSUME NEW from, NEW to \in Ahead, NEW v \in Nat, Load(t, from, to, v) PROVE ScreenInv'
  BY <1>1, <1>3, LoadType, WatchedInPutc DEF Load
<1>4. ASSUME NEW from, NEW to \in Ahead, NEW v \in Nat, StoreX(t, from, to, v) PROVE ScreenInv'
  BY <1>1, <1>4, StoreXType, WatchedInPutc DEF StoreX
<1>5. ASSUME NEW from, NEW to \in Ahead, NEW v \in Nat, StoreY(t, from, to, v) PROVE ScreenInv'
  BY <1>1, <1>5, StoreYType, WatchedInPutc DEF StoreY
<1>6. \A n \in Nat : n + 1 \in Nat /\ Less(n, 1) \in Nat
  BY <1>1, LessNat
<1>7. CASE \E c \in DOMAIN First : PutcAt(t, c)
  <2>1. PICK c \in DOMAIN First, from \in {"out", "char"} : Test(t, from, First[c])
    BY <1>7 DEF PutcAt
  <2>2. First[c] \in {"newline", "tab", "back", "column"}
    BY DEF First
  <2>3. First[c] \in Ahead
    BY <2>2 DEF Ahead, InPutc
  <2> QED
    BY <1>2, <2>1, <2>3
<1>8. CASE NewLine(t)
  <2>1. {"row", "row+", "char"} \subseteq Ahead
    BY DEF Ahead, InPutc
  <2>2. CASE StoreX(t, "newline", "row", 0)
    BY <1>4, <2>1, <2>2
  <2>3. CASE Load(t, "row", "row+", vy)
    BY <1>1, <1>3, <2>1, <2>3
  <2>4. CASE StoreY(t, "row+", "char", reg[t] + 1)
    BY <1>1, <1>5, <1>6, <2>1, <2>4
  <2> QED
    BY <1>8, <2>2, <2>3, <2>4 DEF NewLine
<1>9. CASE Tab(t)
  <2>1. {"tab2", "tab+", "char"} \subseteq Ahead
    BY DEF Ahead, InPutc
  <2>2. CASE Load(t, "tab", "tab2", vx)
    BY <1>1, <1>3, <2>1, <2>2
  <2>3. CASE \E s \in {reg[t] + TabStop - (vx % TabStop), vx + TabStop - (reg[t] % TabStop)} :
               Load(t, "tab2", "tab+", s)
    <3>1. /\ vx % TabStop \in Nat /\ vx % TabStop < TabStop
          /\ reg[t] % TabStop \in Nat /\ reg[t] % TabStop < TabStop
      BY <1>1, ModInRange
    <3>2. reg[t] + TabStop - (vx % TabStop) \in Nat /\ vx + TabStop - (reg[t] % TabStop) \in Nat
      BY <1>1, <3>1
    <3> QED
      BY <1>3, <2>1, <2>3, <3>2
  <2>4. CASE StoreX(t, "tab+", "char", reg[t])
    BY <1>1, <1>4, <2>1, <2>4
  <2> QED
    BY <1>9, <2>2, <2>3, <2>4 DEF Tab
<1>10. CASE Backspace(t)
  <2>1. {"top", "column-", "char", "back row", "back row-", "back end", "column--"} \subseteq Ahead
    BY DEF Ahead, InPutc
  <2>2. CASE \/ Test(t, "back", IF vx = 0 THEN "top" ELSE "column-")
             \/ Test(t, "top", IF vy = 0 THEN "char" ELSE "back row")
    BY <1>2, <2>1, <2>2
  <2>3. CASE \/ Load(t, "back row", "back row-", vy)
             \/ Load(t, "column-", "column--", vx)
    BY <1>1, <1>3, <2>1, <2>3
  <2>4. CASE StoreY(t, "back row-", "back end", Less(reg[t], 1))
    BY <1>1, <1>5, <1>6, <2>1, <2>4
  <2>5. CASE StoreX(t, "back end", "char", Width - 1)
    <3>1. Width - 1 \in Nat
      BY SharedScreenAssumption
    <3> QED
      BY <1>4, <2>1, <2>5, <3>1
  <2>6. CASE StoreX(t, "column--", "char", Less(reg[t], 1))
    BY <1>1, <1>4, <1>6, <2>1, <2>6
  <2> QED
    BY <1>10, <2>2, <2>3, <2>4, <2>5, <2>6 DEF Backspace
<1>11. CASE Character(t)
  <2>1. {"column+", "char"} \subseteq Ahead
    BY DEF Ahead, InPutc
  <2>2. CASE Load(t, "column", "column+", vx)
    BY <1>1, <1>3, <2>1, <2>2
  <2>3. CASE StoreX(t, "column+", "char", reg[t] + 1)
    BY <1>1, <1>4, <1>6, <2>1, <2>3
  <2> QED
    BY <1>11, <2>2, <2>3 DEF Character
<1>12. CASE Scroll(t)
  <2>1. "columns" \in Ahead
    BY DEF Ahead, InColumns
  <2> QED
    BY <1>2, <1>12, <2>1 DEF Scroll
<1> QED
  BY <1>7, <1>8, <1>9, <1>10, <1>11, <1>12

\* The first loop of scroll is left only when the column is in the row.
LEMMA ColumnsStep ==
  ASSUME ScreenInv, NEW t \in Tasks, Columns(t)
  PROVE  ScreenInv'
<1> USE DEF ScreenInv
<1>1. /\ vx \in Nat /\ vy \in Nat /\ reg[t] \in Nat
      /\ Width \in Nat /\ Width <= Byte
  BY SharedScreenAssumption DEF ScreenTypeOK
<1>2. /\ {"columns", "wrap", "wrap-", "wrap row", "wrap row+"} \subseteq Ahead
      /\ {"columns", "wrap", "wrap-", "wrap row", "wrap row+", "rows"} \subseteq Labels
      /\ "rows" # "out"
  BY DEF Ahead, Labels, InColumns, InRows
<1>3. CASE Test(t, "columns", IF vx >= Width THEN "wrap" ELSE "rows")
  <2>1. ScreenTypeOK'
    BY <1>2, <1>3, TestType
  <2>2. CASE vx >= Width
    <3>1. Goto(t, "wrap") /\ "wrap" \in Ahead
      BY <1>2, <1>3, <2>2 DEF Test
    <3> QED
      BY <2>1, <3>1, WatchedInPutc
  <2>3. CASE ~(vx >= Width)
    <3>1. Goto(t, "rows") /\ vx' = vx /\ vy' = vy
      BY <1>3, <2>3 DEF Test
    <3> QED
      BY <1>2, <2>1, <2>3, <3>1, WatchKept
  <2> QED
    BY <2>1, <2>2, <2>3
<1>4. CASE Load(t, "wrap", "wrap-", vx)
  BY <1>1, <1>2, <1>4, LoadType, WatchedInPutc DEF Load
<1>5. CASE StoreX(t, "wrap-", "wrap row", Less(reg[t], Width))
  BY <1>1, <1>2, <1>5, LessNat, StoreXType, WatchedInPutc DEF StoreX
<1>6. CASE Load(t, "wrap row", "wrap row+", vy)
  BY <1>1, <1>2, <1>6, LoadType, WatchedInPutc DEF Load
<1>7. CASE StoreY(t, "wrap row+", "columns", reg[t] + 1)
  <2>1. reg[t] + 1 \in Nat
    BY <1>1
  <2> QED
    BY <1>2, <1>7, <2>1, StoreYType, WatchedInPutc DEF StoreY
<1> QED
  BY <1>3, <1>4, <1>5, <1>6, <1>7 DEF Columns

\* The second loop is left only when the row is on the screen.
LEMMA RowsStep ==
  ASSUME ScreenInv, NEW t \in Tasks, Rows(t)
  PROVE  ScreenInv'
<1> USE DEF ScreenInv
<1>1. vy \in Nat /\ reg[t] \in Nat /\ 1 <= Byte
  BY SharedScreenAssumption DEF ScreenTypeOK
<1>2. /\ {"rows", "up", "up-", "out"} \subseteq Labels
      /\ "rows" \notin Ahead /\ "up" \notin Ahead /\ "up-" \notin Ahead
  BY DEF Ahead, Labels, InPutc, InColumns, InRows
<1>3. CASE Test(t, "rows", IF vy >= Height THEN "up" ELSE "out")
  <2>1. ScreenTypeOK' /\ vx' = vx /\ vy' = vy /\ pc[t] = "rows"
    BY <1>2, <1>3, TestType DEF Test, At
  <2>2. CASE vy >= Height
    <3>1. Goto(t, "up")
      BY <1>3, <2>2 DEF Test
    <3> QED
      BY <1>2, <2>1, <3>1, WatchKept
  <2>3. CASE ~(vy >= Height)
    <3>1. Goto(t, "out")
      BY <1>3, <2>3 DEF Test
    <3> QED
      BY <1>2, <2>1, <2>3, <3>1, WatchKept
  <2> QED
    BY <2>2, <2>3
<1>4. CASE Load(t, "up", "up-", vy)
  <2>1. ScreenTypeOK' /\ Goto(t, "up-") /\ vx' = vx /\ vy' = vy /\ pc[t] = "up"
    BY <1>1, <1>2, <1>4, LoadType DEF Load, At
  <2> QED
    BY <1>2, <2>1, WatchKept
<1>5. CASE StoreY(t, "up-", "rows", Less(reg[t], 1))
  <2>1. ScreenTypeOK' /\ Goto(t, "rows") /\ vx' = vx /\ pc[t] = "up-"
    BY <1>1, <1>2, <1>5, LessNat, StoreYType DEF StoreY, At
  <2> QED
    BY <1>2, <2>1, WatchKept
<1> QED
  BY <1>3, <1>4, <1>5 DEF Rows

-----------------------------------------------------------------------------
LEMMA InitIInv == ScreenInit => ScreenInv
BY SharedScreenAssumption DEF ScreenInit, ScreenInv, ScreenTypeOK, Watched

LEMMA NextIInv == ScreenInv /\ [ScreenNext]_vars => ScreenInv'
<1> SUFFICES ASSUME ScreenInv, [ScreenNext]_vars PROVE ScreenInv'
  OBVIOUS
<1>1. CASE UNCHANGED vars
  BY <1>1 DEF ScreenInv, ScreenTypeOK, Watched, vars
<1>2. CASE ScreenNext
  <2>1. PICK t \in Tasks : TaskStep(t)
    BY <1>2 DEF ScreenNext
  <2> QED
    BY <2>1, PutcAtStep, ColumnsStep, RowsStep DEF TaskStep
<1> QED
  BY <1>1, <1>2

\* However the loads and stores of the tasks fall between each other, a cursor
\* off the screen has a task on its way to the loop of scroll that brings it back.
THEOREM Inductive == ScreenSpec => []ScreenInv
BY InitIInv, NextIInv, PTL DEF ScreenSpec

\* vx and vy stay in a byte and no register goes below zero, whatever the tasks
\* make of each other's cursor.
THEOREM TypeCorrect == ScreenSpec => []ScreenTypeOK
<1>1. ScreenInv => ScreenTypeOK
  BY DEF ScreenInv
<1> QED
  BY <1>1, Inductive, PTL

\* A cursor off the screen is always some task's to bring back: scroll tests
\* what it finds in vx and vy and not what it put there.
THEOREM OffScreenIsWatched == ScreenSpec => []Watched
<1>1. ScreenInv => Watched
  BY DEF ScreenInv
<1> QED
  BY <1>1, Inductive, PTL

\* When no task is inside putc or puts the cursor is on the screen, for any
\* number of tasks and any interleaving of their instructions.
THEOREM QuietCursor == ScreenSpec => []CursorOnScreen
<1>1. ScreenInv => CursorOnScreen
  <2> SUFFICES ASSUME ScreenInv, \A t \in Tasks : pc[t] = "out"
               PROVE  vx < Width /\ vy < Height
    BY DEF CursorOnScreen
  <2>1. "out" \notin InPutc \cup InColumns
    BY DEF InPutc, InColumns
  <2>2. ~(vx >= Width) /\ ~(vy >= Height)
    BY <2>1 DEF ScreenInv, Watched
  <2> QED
    BY <2>2, SharedScreenAssumption DEF ScreenInv, ScreenTypeOK
<1> QED
  BY <1>1, Inductive, PTL

-----------------------------------------------------------------------------
(* A call that nobody disturbs.  Screen says where the cursor is after the *)
(* characters so far; each statement of putc_at and of the loops of scroll *)
(* is some way before that place.                                          *)

\* scroll brings the cursor from column a of row b to column x of row y.
Scrolls(a, b, x, y) ==
  /\ x = a % Width
  /\ y = LET row == (b + (a \div Width)) % Byte
         IN  IF row >= Height THEN Height - 1 ELSE row

\* The way that is left to <<x, y>> from statement p, with r in the register and
\* the cursor at <<a, b>>.
Left(p, r, a, b, x, y) ==
  /\ p = "char" => a = x /\ b = y
  /\ p = "newline" => x = 0 /\ y = (b + 1) % Byte
  /\ p = "row" => a = x /\ y = (b + 1) % Byte
  /\ p = "row+" => a = x /\ y = (r + 1) % Byte
  /\ p = "tab" => x = (a + TabStop - (a % TabStop)) % Byte /\ b = y
  /\ p = "tab2" =>
       r = a /\ x = (a + TabStop - (a % TabStop)) % Byte /\ b = y
  /\ p = "tab+" => x = r % Byte /\ b = y
  /\ p = "back" =>
       \/ a # 0 /\ x = a - 1 /\ b = y
       \/ a = 0 /\ b # 0 /\ x = Width - 1 /\ y = b - 1
       \/ a = 0 /\ b = 0 /\ x = 0 /\ y = 0
  /\ p = "top" =>
       \/ b # 0 /\ x = Width - 1 /\ y = b - 1
       \/ a = 0 /\ b = 0 /\ x = 0 /\ y = 0
  /\ p = "back row" => b # 0 /\ x = Width - 1 /\ y = b - 1
  /\ p = "back row-" => r = b /\ b # 0 /\ x = Width - 1 /\ y = b - 1
  /\ p = "back end" => x = Width - 1 /\ b = y
  /\ p = "column-" => a # 0 /\ x = a - 1 /\ b = y
  /\ p = "column--" => r = a /\ a # 0 /\ x = a - 1 /\ b = y
  /\ p = "column" => x = (a + 1) % Byte /\ b = y
  /\ p = "column+" => x = (r + 1) % Byte /\ b = y
  /\ p = "columns" => Scrolls(a, b, x, y)
  /\ p = "wrap" => a >= Width /\ Scrolls(a, b, x, y)
  /\ p = "wrap-" => r = a /\ a >= Width /\ Scrolls(a, b, x, y)
  /\ p = "wrap row" => Scrolls(a, b + 1, x, y)
  /\ p = "wrap row+" => r = b /\ Scrolls(a, b + 1, x, y)
  /\ p = "rows" => a = x /\ y = IF b >= Height THEN Height - 1 ELSE b
  /\ p = "up" => a = x /\ b >= Height /\ y = Height - 1
  /\ p = "up-" => r = b /\ a = x /\ b >= Height /\ y = Height - 1

\* The way that is left to task t.
Way(t, x, y) == Left(pc[t], reg[t], vx, vy, x, y)

\* A display that Screen made: a cursor in bytes, and cells.
Shown(d) ==
  /\ d = [vx |-> d.vx, vy |-> d.vy, vmem |-> d.vmem]
  /\ d.vx \in 0..(Byte - 1) /\ d.vy \in 0..(Byte - 1)

OnItsWay ==
  \A t \in Tasks :
    pc[t] # "out" /\ Undisturbed(display[t]) =>
      Shown(display[t]) /\ Way(t, display[t].vx, display[t].vy)

AloneInv == ScreenInv /\ OnItsWay

LEMMA InByte ==
  ASSUME NEW a \in 0..(Byte - 1)
  PROVE  a % Byte = a
<1>1. Byte \in Nat \ {0} /\ a \in Int /\ a = (Byte * 0) + a
  BY SharedScreenAssumption
<1> QED
  BY <1>1, OneResidue

\* A subtraction in eight bits that does not go below zero.
LEMMA LessInByte ==
  ASSUME NEW a \in 0..(Byte - 1), NEW m \in Nat, m <= a
  PROVE  Less(a, m) % Byte = a - m
<1>1. /\ Byte \in Nat \ {0} /\ a + Byte - m \in Int /\ a - m \in 0..(Byte - 1)
      /\ a + Byte - m = (Byte * 1) + (a - m)
  BY SharedScreenAssumption
<1> QED
  BY <1>1, OneResidue DEF Less

\* A row counted on in eight bits, now or later.
LEMMA RowCounted ==
  ASSUME NEW b \in Nat, NEW q \in Int
  PROVE  ((b % Byte) + q) % Byte = (b + q) % Byte
<1>0. Byte \in Nat \ {0}
  BY SharedScreenAssumption
<1> DEFINE p == b \div Byte
           s == b % Byte
           u == (s + q) \div Byte
           r == (s + q) % Byte
<1>1. s \in Int /\ p \in Int /\ b = (Byte * p) + s
  BY <1>0, Division
<1>2. r \in 0..(Byte - 1) /\ u \in Int /\ s + q = (Byte * u) + r
  BY <1>0, <1>1, Division
<1> HIDE DEF p, s, u, r
<1>3. b + q = (Byte * (p + u)) + r
  <2>1. Byte * (p + u) = (Byte * p) + (Byte * u)
    BY <1>0, <1>1, <1>2
  <2>2. PICK v \in Int : v = Byte * p
    BY <1>0, <1>1, Product
  <2>3. PICK w \in Int : w = Byte * u
    BY <1>0, <1>2, Product
  <2>4. b = v + s /\ s + q = w + r /\ Byte * (p + u) = v + w
    BY <1>1, <1>2, <2>1, <2>2, <2>3
  <2>5. b + q = (v + w) + r
    BY <1>1, <1>2, <2>2, <2>3, <2>4
  <2> QED
    BY <2>4, <2>5
<1>4. b + q \in Int /\ p + u \in Int
  BY <1>1, <1>2
<1>5. (b + q) % Byte = r
  BY <1>0, <1>2, <1>3, <1>4, OneResidue
<1> QED
  BY <1>5 DEF r, s

\* A row's width less of column is a row more.
LEMMA WrapOnce ==
  ASSUME NEW a \in Nat, a >= Width
  PROVE  /\ (a - Width) % Width = a % Width
         /\ (a - Width) \div Width = (a \div Width) - 1
<1>0. Width \in Nat \ {0}
  BY SharedScreenAssumption
<1> DEFINE p == a \div Width
           r == a % Width
<1>1. r \in 0..(Width - 1) /\ p \in Int /\ a = (Width * p) + r
  BY <1>0, Division
<1> HIDE DEF p, r
<1>2. Width * (p - 1) = (Width * p) - Width
  BY <1>0, <1>1
<1>3. a - Width \in Int /\ p - 1 \in Int /\ a - Width = (Width * (p - 1)) + r
  <2>1. Width * p \in Int
    BY <1>0, <1>1, Product
  <2> QED
    BY <1>0, <1>1, <1>2, <2>1
<1>4. (a - Width) % Width = r
  BY <1>0, <1>1, <1>3, OneResidue
<1>5. (a - Width) \div Width = p - 1
  BY <1>0, <1>1, <1>3, OneQuotient
<1> QED
  BY <1>4, <1>5 DEF p, r

LEMMA InTheRow ==
  ASSUME NEW a \in Nat, a < Width
  PROVE  a % Width = a /\ a \div Width = 0
<1>1. Width \in Nat \ {0} /\ a \in Int /\ a \in 0..(Width - 1) /\ a = (Width * 0) + a
  BY SharedScreenAssumption
<1> QED
  BY <1>1, OneResidue, OneQuotient

\* One iteration of the first loop.
LEMMA ScrollsOn ==
  ASSUME NEW a \in 0..(Byte - 1), NEW b \in 0..(Byte - 1), NEW x, NEW y
  PROVE  /\ a >= Width /\ Scrolls(a, b, x, y) => Scrolls(a - Width, b + 1, x, y)
         /\ Scrolls(a, b + 1, x, y) => Scrolls(a, (b + 1) % Byte, x, y)
         /\ a < Width /\ Scrolls(a, b, x, y) =>
              x = a /\ y = IF b >= Height THEN Height - 1 ELSE b
<1>1. a \in Nat /\ b \in Nat /\ b + 1 \in Nat /\ Width \in Nat \ {0}
  BY SharedScreenAssumption
<1>2. a \div Width \in Int
  BY <1>1, Division
<1>3. ASSUME a >= Width, Scrolls(a, b, x, y) PROVE Scrolls(a - Width, b + 1, x, y)
  <2>1. /\ (a - Width) % Width = a % Width
        /\ (a - Width) \div Width = (a \div Width) - 1
    BY <1>1, <1>3, WrapOnce
  <2>2. (b + 1) + ((a \div Width) - 1) = b + (a \div Width)
    BY <1>1, <1>2
  <2> QED
    BY <1>3, <2>1, <2>2 DEF Scrolls
<1>4. ASSUME Scrolls(a, b + 1, x, y) PROVE Scrolls(a, (b + 1) % Byte, x, y)
  <2>1. (((b + 1) % Byte) + (a \div Width)) % Byte = ((b + 1) + (a \div Width)) % Byte
    BY <1>1, <1>2, RowCounted
  <2> QED
    BY <1>4, <2>1 DEF Scrolls
<1>5. ASSUME a < Width, Scrolls(a, b, x, y)
      PROVE  x = a /\ y = IF b >= Height THEN Height - 1 ELSE b
  <2>1. a % Width = a /\ a \div Width = 0
    BY <1>1, <1>5, InTheRow
  <2>2. b + 0 = b /\ b % Byte = b
    BY <1>1, InByte
  <2> QED
    BY <1>5, <2>1, <2>2 DEF Scrolls
<1> QED
  BY <1>3, <1>4, <1>5

-----------------------------------------------------------------------------
\* A statement of putc_at brings the cursor on its way.
LEMMA PutcWay ==
  ASSUME ScreenTypeOK, NEW t \in Tasks, NEW x \in 0..(Byte - 1), NEW y \in 0..(Byte - 1),
         Way(t, x, y), NewLine(t) \/ Tab(t) \/ Backspace(t) \/ Character(t)
  PROVE  Way(t, x, y)' /\ pc'[t] # "out"
<1>1. /\ vx \in 0..(Byte - 1) /\ vy \in 0..(Byte - 1) /\ reg[t] \in Nat
      /\ vx \in Int /\ vy \in Int /\ Byte \in Nat \ {0}
      /\ 0 \in 0..(Byte - 1) /\ Width - 1 \in 0..(Byte - 1)
  BY SharedScreenAssumption DEF ScreenTypeOK
<1>2. ASSUME NEW to, Goto(t, to) PROVE pc'[t] = to
  BY <1>2 DEF ScreenTypeOK, Goto
<1>3. ASSUME NEW v, reg' = [reg EXCEPT ![t] = v] PROVE reg'[t] = v
  BY <1>3 DEF ScreenTypeOK
<1>4. CASE NewLine(t)
  <2>1. CASE StoreX(t, "newline", "row", 0)
    <3>1. pc[t] = "newline" /\ pc'[t] = "row" /\ vx' = 0 /\ vy' = vy
      BY <1>1, <1>2, <2>1, InByte DEF StoreX, At
    <3> QED
      BY <3>1 DEF Way, Left
  <2>2. CASE Load(t, "row", "row+", vy)
    <3>1. pc[t] = "row" /\ pc'[t] = "row+" /\ vx' = vx /\ reg'[t] = vy
      BY <1>2, <1>3, <2>2 DEF Load, At
    <3> QED
      BY <3>1 DEF Way, Left
  <2>3. CASE StoreY(t, "row+", "char", reg[t] + 1)
    <3>1. pc[t] = "row+" /\ pc'[t] = "char" /\ vx' = vx /\ vy' = (reg[t] + 1) % Byte
      BY <1>2, <2>3 DEF StoreY, At
    <3> QED
      BY <3>1 DEF Way, Left
  <2> QED
    BY <1>4, <2>1, <2>2, <2>3 DEF NewLine
<1>5. CASE Tab(t)
  <2>1. CASE Load(t, "tab", "tab2", vx)
    <3>1. pc[t] = "tab" /\ pc'[t] = "tab2" /\ vx' = vx /\ vy' = vy /\ reg'[t] = vx
      BY <1>2, <1>3, <2>1 DEF Load, At
    <3> QED
      BY <3>1 DEF Way, Left
  <2>2. CASE \E s \in {reg[t] + TabStop - (vx % TabStop), vx + TabStop - (reg[t] % TabStop)} :
               Load(t, "tab2", "tab+", s)
    <3>1. pc[t] = "tab2" /\ pc'[t] = "tab+" /\ vx' = vx /\ vy' = vy
      BY <1>2, <2>2 DEF Load, At
    <3>2. reg[t] = vx /\ x = (vx + TabStop - (vx % TabStop)) % Byte /\ vy = y
      BY <3>1 DEF Way, Left
    <3>3. reg'[t] = vx + TabStop - (vx % TabStop)
      BY <1>3, <2>2, <3>2 DEF Load
    <3> QED
      BY <3>1, <3>2, <3>3 DEF Way, Left
  <2>3. CASE StoreX(t, "tab+", "char", reg[t])
    <3>1. pc[t] = "tab+" /\ pc'[t] = "char" /\ vx' = reg[t] % Byte /\ vy' = vy
      BY <1>2, <2>3 DEF StoreX, At
    <3> QED
      BY <3>1 DEF Way, Left
  <2> QED
    BY <1>5, <2>1, <2>2, <2>3 DEF Tab
<1>6. CASE Backspace(t)
  <2>1. CASE Test(t, "back", IF vx = 0 THEN "top" ELSE "column-")
    <3>1. /\ pc[t] = "back" /\ vx' = vx /\ vy' = vy
          /\ pc'[t] = IF vx = 0 THEN "top" ELSE "column-"
      BY <1>2, <2>1 DEF Test, At
    <3>2. CASE vx = 0
      BY <3>1, <3>2 DEF Way, Left
    <3>3. CASE vx # 0
      BY <3>1, <3>3 DEF Way, Left
    <3> QED
      BY <3>2, <3>3
  <2>2. CASE Test(t, "top", IF vy = 0 THEN "char" ELSE "back row")
    <3>1. /\ pc[t] = "top" /\ vx' = vx /\ vy' = vy
          /\ pc'[t] = IF vy = 0 THEN "char" ELSE "back row"
      BY <1>2, <2>2 DEF Test, At
    <3>2. CASE vy = 0
      BY <3>1, <3>2 DEF Way, Left
    <3>3. CASE vy # 0
      BY <3>1, <3>3 DEF Way, Left
    <3> QED
      BY <3>2, <3>3
  <2>3. CASE Load(t, "back row", "back row-", vy)
    <3>1. pc[t] = "back row" /\ pc'[t] = "back row-" /\ vx' = vx /\ vy' = vy /\ reg'[t] = vy
      BY <1>2, <1>3, <2>3 DEF Load, At
    <3> QED
      BY <3>1 DEF Way, Left
  <2>4. CASE StoreY(t, "back row-", "back end", Less(reg[t], 1))
    <3>1. /\ pc[t] = "back row-" /\ pc'[t] = "back end" /\ vx' = vx
          /\ vy' = Less(reg[t], 1) % Byte
      BY <1>2, <2>4 DEF StoreY, At
    <3>2. reg[t] = vy /\ vy # 0 /\ x = Width - 1 /\ y = vy - 1
      BY <3>1 DEF Way, Left
    <3>3. 1 <= vy
      BY <1>1, <3>2
    <3>4. vy' = vy - 1
      BY <1>1, <3>1, <3>2, <3>3, LessInByte
    <3> QED
      BY <3>1, <3>2, <3>4 DEF Way, Left
  <2>5. CASE StoreX(t, "back end", "char", Width - 1)
    <3>1. pc[t] = "back end" /\ pc'[t] = "char" /\ vx' = (Width - 1) % Byte /\ vy' = vy
      BY <1>2, <2>5 DEF StoreX, At
    <3>2. vx' = Width - 1
      BY <1>1, <3>1, InByte
    <3> QED
      BY <3>1, <3>2 DEF Way, Left
  <2>6. CASE Load(t, "column-", "column--", vx)
    <3>1. pc[t] = "column-" /\ pc'[t] = "column--" /\ vx' = vx /\ vy' = vy /\ reg'[t] = vx
      BY <1>2, <1>3, <2>6 DEF Load, At
    <3> QED
      BY <3>1 DEF Way, Left
  <2>7. CASE StoreX(t, "column--", "char", Less(reg[t], 1))
    <3>1. /\ pc[t] = "column--" /\ pc'[t] = "char" /\ vy' = vy
          /\ vx' = Less(reg[t], 1) % Byte
      BY <1>2, <2>7 DEF StoreX, At
    <3>2. reg[t] = vx /\ vx # 0 /\ x = vx - 1 /\ vy = y
      BY <3>1 DEF Way, Left
    <3>3. 1 <= vx
      BY <1>1, <3>2
    <3>4. vx' = vx - 1
      BY <1>1, <3>1, <3>2, <3>3, LessInByte
    <3> QED
      BY <3>1, <3>2, <3>4 DEF Way, Left
  <2> QED
    BY <1>6, <2>1, <2>2, <2>3, <2>4, <2>5, <2>6, <2>7 DEF Backspace
<1>7. CASE Character(t)
  <2>1. CASE Load(t, "column", "column+", vx)
    <3>1. pc[t] = "column" /\ pc'[t] = "column+" /\ vx' = vx /\ vy' = vy /\ reg'[t] = vx
      BY <1>2, <1>3, <2>1 DEF Load, At
    <3> QED
      BY <3>1 DEF Way, Left
  <2>2. CASE StoreX(t, "column+", "char", reg[t] + 1)
    <3>1. pc[t] = "column+" /\ pc'[t] = "char" /\ vx' = (reg[t] + 1) % Byte /\ vy' = vy
      BY <1>2, <2>2 DEF StoreX, At
    <3> QED
      BY <3>1 DEF Way, Left
  <2> QED
    BY <1>7, <2>1, <2>2 DEF Character
<1> QED
  BY <1>4, <1>5, <1>6, <1>7

\* So does a statement of scroll, until it returns: then the way is over.
LEMMA ScrollWay ==
  ASSUME ScreenTypeOK, NEW t \in Tasks, NEW x \in 0..(Byte - 1), NEW y \in 0..(Byte - 1),
         Way(t, x, y), Columns(t) \/ Rows(t)
  PROVE  /\ pc'[t] # "out" => Way(t, x, y)'
         /\ pc'[t] = "out" => vx' = x /\ vy' = y
<1>1. /\ vx \in 0..(Byte - 1) /\ vy \in 0..(Byte - 1) /\ reg[t] \in Nat
      /\ vx \in Int /\ vy \in Int /\ Byte \in Nat \ {0}
      /\ Width \in Nat \ {0} /\ Height \in Nat \ {0}
  BY SharedScreenAssumption DEF ScreenTypeOK
<1>2. ASSUME NEW to, Goto(t, to) PROVE pc'[t] = to
  BY <1>2 DEF ScreenTypeOK, Goto
<1>3. ASSUME NEW v, reg' = [reg EXCEPT ![t] = v] PROVE reg'[t] = v
  BY <1>3 DEF ScreenTypeOK
<1>4. CASE Columns(t)
  <2>1. CASE Test(t, "columns", IF vx >= Width THEN "wrap" ELSE "rows")
    <3>1. /\ pc[t] = "columns" /\ vx' = vx /\ vy' = vy
          /\ pc'[t] = IF vx >= Width THEN "wrap" ELSE "rows"
      BY <1>2, <2>1 DEF Test, At
    <3>2. Scrolls(vx, vy, x, y)
      BY <3>1 DEF Way, Left
    <3>3. CASE vx >= Width
      BY <3>1, <3>2, <3>3 DEF Way, Left
    <3>4. CASE ~(vx >= Width)
      <4>1. vx < Width
        BY <1>1, <3>4
      <4>2. x = vx /\ y = IF vy >= Height THEN Height - 1 ELSE vy
        BY <1>1, <3>2, <4>1, ScrollsOn
      <4> QED
        BY <3>1, <3>4, <4>2 DEF Way, Left
    <3> QED
      BY <3>3, <3>4
  <2>2. CASE Load(t, "wrap", "wrap-", vx)
    <3>1. pc[t] = "wrap" /\ pc'[t] = "wrap-" /\ vx' = vx /\ vy' = vy /\ reg'[t] = vx
      BY <1>2, <1>3, <2>2 DEF Load, At
    <3> QED
      BY <3>1 DEF Way, Left
  <2>3. CASE StoreX(t, "wrap-", "wrap row", Less(reg[t], Width))
    <3>1. /\ pc[t] = "wrap-" /\ pc'[t] = "wrap row" /\ vy' = vy
          /\ vx' = Less(reg[t], Width) % Byte
      BY <1>2, <2>3 DEF StoreX, At
    <3>2. reg[t] = vx /\ vx >= Width /\ Scrolls(vx, vy, x, y)
      BY <3>1 DEF Way, Left
    <3>3. vx' = vx - Width
      BY <1>1, <3>1, <3>2, LessInByte
    <3>4. Scrolls(vx - Width, vy + 1, x, y)
      BY <1>1, <3>2, ScrollsOn
    <3> QED
      BY <3>1, <3>3, <3>4 DEF Way, Left
  <2>4. CASE Load(t, "wrap row", "wrap row+", vy)
    <3>1. pc[t] = "wrap row" /\ pc'[t] = "wrap row+" /\ vx' = vx /\ vy' = vy /\ reg'[t] = vy
      BY <1>2, <1>3, <2>4 DEF Load, At
    <3> QED
      BY <3>1 DEF Way, Left
  <2>5. CASE StoreY(t, "wrap row+", "columns", reg[t] + 1)
    <3>1. /\ pc[t] = "wrap row+" /\ pc'[t] = "columns" /\ vx' = vx
          /\ vy' = (reg[t] + 1) % Byte
      BY <1>2, <2>5 DEF StoreY, At
    <3>2. reg[t] = vy /\ Scrolls(vx, vy + 1, x, y)
      BY <3>1 DEF Way, Left
    <3>3. Scrolls(vx, (vy + 1) % Byte, x, y)
      BY <1>1, <3>2, ScrollsOn
    <3> QED
      BY <3>1, <3>2, <3>3 DEF Way, Left
  <2> QED
    BY <1>4, <2>1, <2>2, <2>3, <2>4, <2>5 DEF Columns
<1>5. CASE Rows(t)
  <2>1. CASE Test(t, "rows", IF vy >= Height THEN "up" ELSE "out")
    <3>1. /\ pc[t] = "rows" /\ vx' = vx /\ vy' = vy
          /\ pc'[t] = IF vy >= Height THEN "up" ELSE "out"
      BY <1>2, <2>1 DEF Test, At
    <3>2. CASE vy >= Height
      BY <3>1, <3>2 DEF Way, Left
    <3>3. CASE ~(vy >= Height)
      BY <3>1, <3>3 DEF Way, Left
    <3> QED
      BY <3>2, <3>3
  <2>2. CASE Load(t, "up", "up-", vy)
    <3>1. pc[t] = "up" /\ pc'[t] = "up-" /\ vx' = vx /\ vy' = vy /\ reg'[t] = vy
      BY <1>2, <1>3, <2>2 DEF Load, At
    <3> QED
      BY <3>1 DEF Way, Left
  <2>3. CASE StoreY(t, "up-", "rows", Less(reg[t], 1))
    <3>1. /\ pc[t] = "up-" /\ pc'[t] = "rows" /\ vx' = vx
          /\ vy' = Less(reg[t], 1) % Byte
      BY <1>2, <2>3 DEF StoreY, At
    <3>2. reg[t] = vy /\ vx = x /\ vy >= Height /\ y = Height - 1
      BY <3>1 DEF Way, Left
    <3>3. 1 <= vy
      BY <1>1, <3>2
    <3>4. vy' = vy - 1
      BY <1>1, <3>1, <3>2, <3>3, LessInByte
    <3>5. y = IF vy - 1 >= Height THEN Height - 1 ELSE vy - 1
      BY <1>1, <3>2
    <3> QED
      BY <3>1, <3>2, <3>4, <3>5 DEF Way, Left
  <2> QED
    BY <1>5, <2>1, <2>2, <2>3 DEF Rows
<1> QED
  BY <1>4, <1>5

-----------------------------------------------------------------------------
\* Where Screen's functions take a display that a task sees as <<vx, vy>>.
LEMMA CharacterShown ==
  ASSUME NEW d, Shown(d), NEW c \in DOMAIN First
  PROVE  LET e == S!PutcAt(d, Text[c]) IN
         /\ Shown(e)
         /\ c = "newline" => e.vx = 0 /\ e.vy = (d.vy + 1) % Byte
         /\ c = "tab" =>
              e.vx = (d.vx + TabStop - (d.vx % TabStop)) % Byte /\ e.vy = d.vy
         /\ c = "backspace" =>
              \/ d.vx # 0 /\ e.vx = d.vx - 1 /\ e.vy = d.vy
              \/ d.vx = 0 /\ d.vy # 0 /\ e.vx = Width - 1 /\ e.vy = d.vy - 1
              \/ d.vx = 0 /\ d.vy = 0 /\ e.vx = 0 /\ e.vy = 0
         /\ c = "other" => e.vx = (d.vx + 1) % Byte /\ e.vy = d.vy
<1> DEFINE e == S!PutcAt(d, Text[c])
<1>1. PICK x, y, cells : d = [vx |-> x, vy |-> y, vmem |-> cells]
                         /\ x \in 0..(Byte - 1) /\ y \in 0..(Byte - 1)
  BY DEF Shown
<1>2. d.vx = x /\ d.vy = y /\ d.vmem = cells
  BY <1>1
<1>3. /\ Byte \in Nat \ {0} /\ Width - 1 \in 0..(Byte - 1) /\ TabStop \in Nat \ {0}
      /\ \A z \in Int : z % Byte \in 0..(Byte - 1)
  BY SharedScreenAssumption, Division
<1>4. DOMAIN First = {"newline", "tab", "backspace", "other"}
  BY DEF First
<1>5. CASE c = "newline"
  <2>1. e = [vx |-> 0, vy |-> (y + 1) % Byte, vmem |-> cells]
    BY <1>1, <1>5 DEF Text, S!PutcAt, S!NewLine
  <2>2. (y + 1) % Byte \in 0..(Byte - 1) /\ 0 \in 0..(Byte - 1)
    BY <1>1, <1>3
  <2> QED
    BY <1>2, <1>5, <2>1, <2>2 DEF Shown
<1>6. CASE c = "tab"
  <2>1. e = [vx |-> (x + TabStop - (x % TabStop)) % Byte, vy |-> y, vmem |-> cells]
    BY <1>1, <1>6 DEF Text, S!PutcAt, S!Tab
  <2>2. x % TabStop \in Int
    BY <1>1, <1>3, Division
  <2>3. (x + TabStop - (x % TabStop)) % Byte \in 0..(Byte - 1)
    <3>1. PICK m \in Int : m = x % TabStop
      BY <2>2
    <3>2. x + TabStop - m \in Int
      BY <1>1, <1>3
    <3>3. (x + TabStop - m) % Byte \in 0..(Byte - 1)
      BY <1>3, <3>2
    <3> QED
      BY <3>1, <3>3
  <2> QED
    BY <1>1, <1>2, <1>6, <2>1, <2>3 DEF Shown
<1>7. CASE c = "backspace"
  <2> DEFINE f == IF x # 0 THEN [d EXCEPT !.vx = @ - 1]
                  ELSE IF y # 0 THEN [d EXCEPT !.vx = Width - 1, !.vy = @ - 1]
                  ELSE d
  <2>1. e = S!Write(f, S!Blank)
    BY <1>2, <1>7 DEF Text, S!PutcAt, S!Backspace
  <2>2. PICK a, b : /\ f = [vx |-> a, vy |-> b, vmem |-> cells]
                    /\ \/ x # 0 /\ a = x - 1 /\ b = y
                       \/ x = 0 /\ y # 0 /\ a = Width - 1 /\ b = y - 1
                       \/ x = 0 /\ y = 0 /\ a = 0 /\ b = 0
    <3>1. CASE x # 0
      BY <1>1, <3>1
    <3>2. CASE x = 0 /\ y # 0
      BY <1>1, <3>2
    <3>3. CASE x = 0 /\ y = 0
      BY <1>1, <3>3
    <3> QED
      BY <3>1, <3>2, <3>3
  <2> HIDE DEF f
  <2>3. PICK shown : e = [vx |-> a, vy |-> b, vmem |-> shown]
    BY <2>1, <2>2 DEF S!Write
  <2>4. a \in 0..(Byte - 1) /\ b \in 0..(Byte - 1)
    <3>1. /\ x \in Int /\ y \in Int /\ 0 <= x /\ 0 <= y /\ x < Byte /\ y < Byte
          /\ Byte \in Int /\ Width - 1 \in 0..(Byte - 1)
      BY <1>1, <1>3
    <3>2. CASE x # 0 /\ a = x - 1 /\ b = y
      BY <3>1, <3>2
    <3>3. CASE x = 0 /\ y # 0 /\ a = Width - 1 /\ b = y - 1
      BY <3>1, <3>3
    <3>4. CASE x = 0 /\ y = 0 /\ a = 0 /\ b = 0
      BY <3>1, <3>4
    <3> QED
      BY <2>2, <3>2, <3>3, <3>4
  <2> QED
    BY <1>2, <1>7, <2>2, <2>3, <2>4 DEF Shown
<1>8. CASE c = "other"
  <2>1. Text[c] # "\n" /\ Text[c] # "\t" /\ Text[c] # "BS"
    BY <1>8 DEF Text, S!Blank
  <2>2. e = [S!Write(d, Text[c]) EXCEPT !.vx = (@ + 1) % Byte]
    BY <2>1 DEF S!PutcAt
  <2>3. PICK shown : S!Write(d, Text[c]) = [vx |-> x, vy |-> y, vmem |-> shown]
    <3>1. PICK k : k = Text[c]
      OBVIOUS
    <3>2. PICK shown : shown = [i \in S!Cells |-> IF i = S!Position(d) THEN k ELSE d.vmem[i]]
      OBVIOUS
    <3>3. S!Write(d, k) = [d EXCEPT !.vmem = shown]
      BY <3>2 DEF S!Write
    <3> QED
      BY <1>1, <3>1, <3>3
  <2>4. e = [vx |-> (x + 1) % Byte, vy |-> y, vmem |-> shown]
    BY <2>2, <2>3
  <2>5. (x + 1) % Byte \in 0..(Byte - 1)
    BY <1>1, <1>3
  <2> QED
    BY <1>1, <1>2, <1>8, <2>4, <2>5 DEF Shown
<1> QED
  BY <1>4, <1>5, <1>6, <1>7, <1>8

LEMMA ScrollShown ==
  ASSUME NEW d, Shown(d)
  PROVE  LET e == S!Scroll(d) IN Shown(e) /\ Scrolls(d.vx, d.vy, e.vx, e.vy)
<1> DEFINE e == S!Scroll(d)
           row == (d.vy + (d.vx \div Width)) % Byte
           up == IF row >= Height THEN row - Height + 1 ELSE 0
<1>1. /\ Byte \in Nat \ {0} /\ Width \in Nat \ {0} /\ Width < Byte
      /\ Height \in Nat \ {0} /\ Height < Byte
      /\ d.vx \in Int /\ d.vy \in Int
  BY SharedScreenAssumption DEF Shown
<1>2. d.vx % Width \in 0..(Width - 1) /\ d.vx \div Width \in Int
  BY <1>1, Division
<1>3. row \in 0..(Byte - 1)
  <2>1. PICK z \in Int : z = d.vy + (d.vx \div Width)
    BY <1>1, <1>2
  <2> QED
    BY <1>1, <2>1, Division
<1>4. PICK shown : e = [vx |-> d.vx % Width, vy |-> row - up, vmem |-> shown]
  BY DEF S!Scroll
<1> HIDE DEF e, row
<1>5. row - up = IF row >= Height THEN Height - 1 ELSE row
  BY <1>1, <1>3
<1>6. row - up \in 0..(Byte - 1)
  BY <1>1, <1>3, <1>5
<1>7. Shown(e) /\ e.vx = d.vx % Width /\ e.vy = row - up
  BY <1>1, <1>2, <1>4, <1>6 DEF Shown
<1> QED
  BY <1>5, <1>7 DEF Scrolls, e, row

\* Between two characters, and before a call, the cursor is the display's.
LEMMA BeforeShown ==
  ASSUME AloneInv, NEW t \in Tasks, pc[t] \in {"out", "char"}, Undisturbed(Before(t))
  PROVE  Shown(Before(t)) /\ Before(t).vx = vx /\ Before(t).vy = vy
<1>1. vx \in 0..(Byte - 1) /\ vy \in 0..(Byte - 1)
  BY DEF AloneInv, ScreenInv, ScreenTypeOK
<1>2. CASE pc[t] = "out"
  BY <1>1, <1>2 DEF Before, Shown
<1>3. CASE pc[t] = "char"
  <2>1. Before(t) = display[t]
    BY <1>3 DEF Before
  <2> QED
    BY <1>3, <2>1 DEF AloneInv, OnItsWay, Way, Left
<1> QED
  BY <1>2, <1>3

LEMMA CharGoesOn ==
  ASSUME AloneInv, NEW t \in Tasks, NEW c \in DOMAIN First, AloneChar(t, c),
         Undisturbed(display'[t])
  PROVE  Shown(display'[t]) /\ Way(t, display[t].vx, display[t].vy)'
<1> DEFINE e == S!PutcAt(Before(t), Text[c])
<1>1. PICK from \in {"out", "char"} : Test(t, from, First[c])
  BY DEF AloneChar, PutcAt
<1>2. pc[t] \in {"out", "char"} /\ pc'[t] = First[c] /\ vx' = vx /\ vy' = vy
  BY <1>1 DEF Test, At, Goto, AloneInv, ScreenInv, ScreenTypeOK
<1>3. display'[t] = IF Undisturbed(Before(t)) THEN e ELSE Disturbed
  BY DEF AloneChar, Note
<1>4. Undisturbed(Before(t)) /\ display'[t] = e
  BY <1>3 DEF Undisturbed
<1>5. PICK d : d = Before(t)
  OBVIOUS
<1>6. Shown(d) /\ d.vx = vx /\ d.vy = vy
  BY <1>2, <1>4, <1>5, BeforeShown
<1>7. PICK f : f = e
  OBVIOUS
<1>8. /\ Shown(f)
      /\ c = "newline" => f.vx = 0 /\ f.vy = (d.vy + 1) % Byte
      /\ c = "tab" => f.vx = (d.vx + TabStop - (d.vx % TabStop)) % Byte /\ f.vy = d.vy
      /\ c = "backspace" =>
           \/ d.vx # 0 /\ f.vx = d.vx - 1 /\ f.vy = d.vy
           \/ d.vx = 0 /\ d.vy # 0 /\ f.vx = Width - 1 /\ f.vy = d.vy - 1
           \/ d.vx = 0 /\ d.vy = 0 /\ f.vx = 0 /\ f.vy = 0
      /\ c = "other" => f.vx = (d.vx + 1) % Byte /\ f.vy = d.vy
  BY <1>5, <1>6, <1>7, CharacterShown
<1>9. c \in {"newline", "tab", "backspace", "other"} /\ pc'[t] = First[c]
  BY <1>2 DEF First
<1> HIDE DEF e
<1>10. CASE c = "newline"
  BY <1>2, <1>4, <1>6, <1>7, <1>8, <1>10 DEF Way, Left, First
<1>11. CASE c = "tab"
  BY <1>2, <1>4, <1>6, <1>7, <1>8, <1>11 DEF Way, Left, First
<1>12. CASE c = "backspace"
  BY <1>2, <1>4, <1>6, <1>7, <1>8, <1>12 DEF Way, Left, First
<1>13. CASE c = "other"
  BY <1>2, <1>4, <1>6, <1>7, <1>8, <1>13 DEF Way, Left, First
<1> QED
  BY <1>9, <1>10, <1>11, <1>12, <1>13

LEMMA ScrollGoesOn ==
  ASSUME AloneInv, NEW t \in Tasks, AloneScroll(t), Undisturbed(display'[t])
  PROVE  Shown(display'[t]) /\ Way(t, display[t].vx, display[t].vy)'
<1> DEFINE e == S!Scroll(Before(t))
<1>1. PICK from \in {"out", "char"} : Test(t, from, "columns")
  BY DEF AloneScroll, Scroll
<1>2. pc[t] \in {"out", "char"} /\ pc'[t] = "columns" /\ vx' = vx /\ vy' = vy
  BY <1>1 DEF Test, At, Goto, AloneInv, ScreenInv, ScreenTypeOK
<1>3. display'[t] = IF Undisturbed(Before(t)) THEN e ELSE Disturbed
  BY DEF AloneScroll, Note
<1>4. Undisturbed(Before(t)) /\ display'[t] = e
  BY <1>3 DEF Undisturbed
<1>5. PICK d : d = Before(t)
  OBVIOUS
<1>6. Shown(d) /\ d.vx = vx /\ d.vy = vy
  BY <1>2, <1>4, <1>5, BeforeShown
<1>7. PICK f : f = e
  OBVIOUS
<1>8. Shown(f) /\ Scrolls(d.vx, d.vy, f.vx, f.vy)
  BY <1>5, <1>6, <1>7, ScrollShown
<1> HIDE DEF e
<1> QED
  BY <1>2, <1>4, <1>6, <1>7, <1>8 DEF Way, Left, Scrolls

\* A statement inside a call, of a task that is not disturbed: it goes on, and
\* if it was the last one the cursor is where the display has it.
LEMMA MoveGoesOn ==
  ASSUME AloneInv, NEW t \in Tasks, AloneMove(t)
  PROVE  /\ pc[t] # "out"
         /\ pc'[t] # "out" /\ Undisturbed(display'[t]) =>
              Shown(display'[t]) /\ Way(t, display[t].vx, display[t].vy)'
         /\ pc'[t] = "out" /\ Undisturbed(display[t]) =>
              vx' = display[t].vx /\ vy' = display[t].vy
<1>1. pc[t] # "out"
  BY DEF AloneMove, NewLine, Tab, Backspace, Character, Columns, Rows, Test, Load, StoreX,
         StoreY, At
<1>3. PICK d : d = display[t]
  OBVIOUS
<1>4. ASSUME Undisturbed(d)
      PROVE  /\ Shown(d) /\ (pc'[t] # "out" => Way(t, d.vx, d.vy)')
             /\ pc'[t] = "out" => vx' = d.vx /\ vy' = d.vy
  <2>1. Shown(d) /\ Way(t, d.vx, d.vy) /\ ScreenTypeOK
    BY <1>1, <1>3, <1>4 DEF AloneInv, OnItsWay, ScreenInv
  <2>2. d.vx \in 0..(Byte - 1) /\ d.vy \in 0..(Byte - 1)
    BY <2>1 DEF Shown
  <2> QED
    BY <2>1, <2>2, PutcWay, ScrollWay DEF AloneMove
<1>5. pc'[t] # "out" => display'[t] = d
  BY <1>3 DEF AloneMove, Note
<1> QED
  BY <1>1, <1>3, <1>4, <1>5

\* A task whose cursor, place and register stay is as far on its way.
LEMMA WayStays ==
  ASSUME NEW u, vx' = vx, vy' = vy, pc'[u] = pc[u], reg'[u] = reg[u],
         display'[u] = display[u], Shown(display[u]),
         Way(u, display[u].vx, display[u].vy)
  PROVE  Shown(display'[u]) /\ Way(u, display[u].vx, display[u].vy)'
<1>1. ASSUME NEW x, NEW y, Way(u, x, y) PROVE Way(u, x, y)'
  BY <1>1 DEF Way
<1>2. PICK d : d = display[u]
  OBVIOUS
<1>3. Way(u, d.vx, d.vy)'
  BY <1>1, <1>2
<1> QED
  BY <1>2, <1>3

\* What other tasks do is noted.
LEMMA OthersGoOn ==
  ASSUME AloneInv, NEW t \in Tasks, NEW d, Note(t, d), NEW u \in Tasks, u # t,
         pc'[u] = pc[u], reg'[u] = reg[u], pc'[u] # "out", Undisturbed(display'[u])
  PROVE  Shown(display'[u]) /\ Way(u, display[u].vx, display[u].vy)'
<1>1. vx' = vx /\ vy' = vy /\ display'[u] = display[u]
  BY DEF Note, Undisturbed
<1>2. Shown(display[u]) /\ Way(u, display[u].vx, display[u].vy)
  BY <1>1 DEF AloneInv, OnItsWay
<1> QED
  BY <1>1, <1>2, WayStays

LEMMA StepIsTaskStep ==
  ASSUME ScreenTypeOK, NEW t \in Tasks,
         \/ \E c \in DOMAIN First : AloneChar(t, c)
         \/ AloneScroll(t) \/ AloneMove(t)
  PROVE  /\ TaskStep(t) /\ \E d : Note(t, d)
         /\ \A u \in Tasks \ {t} : pc'[u] = pc[u] /\ reg'[u] = reg[u]
<1>1. TaskStep(t) /\ \E d : Note(t, d)
  BY DEF AloneChar, AloneScroll, AloneMove, TaskStep
<1>2. /\ \E to : Goto(t, to)
      /\ reg' = reg \/ \E v : reg' = [reg EXCEPT ![t] = v]
  BY <1>1 DEF TaskStep, PutcAt, NewLine, Tab, Backspace, Character, Scroll, Columns, Rows,
              Test, Load, StoreX, StoreY
<1> QED
  BY <1>1, <1>2 DEF ScreenTypeOK, Goto

LEMMA InitAlone == AloneInit => AloneInv
<1> SUFFICES ASSUME AloneInit PROVE AloneInv
  OBVIOUS
<1>1. ScreenInv
  BY InitIInv DEF AloneInit
<1>2. OnItsWay
  BY DEF AloneInit, ScreenInit, OnItsWay
<1> QED
  BY <1>1, <1>2 DEF AloneInv

LEMMA NextAlone == AloneInv /\ [AloneNext]_<<vars, display>> => AloneInv'
<1> SUFFICES ASSUME AloneInv, [AloneNext]_<<vars, display>> PROVE AloneInv'
  OBVIOUS
<1>1. CASE UNCHANGED <<vars, display>>
  <2>1. ScreenInv'
    BY <1>1, NextIInv DEF AloneInv
  <2>2. OnItsWay'
    <3> SUFFICES ASSUME NEW u \in Tasks, (pc[u] # "out" /\ Undisturbed(display[u]))'
                 PROVE  Shown(display'[u]) /\ Way(u, display[u].vx, display[u].vy)'
      BY DEF OnItsWay
    <3> QED
      BY <1>1, WayStays DEF AloneInv, OnItsWay, Undisturbed, vars
  <2> QED
    BY <2>1, <2>2 DEF AloneInv
<1>2. CASE AloneNext
  <2>1. PICK t \in Tasks : \/ \E c \in DOMAIN First : AloneChar(t, c)
                           \/ AloneScroll(t) \/ AloneMove(t)
    BY <1>2 DEF AloneNext
  <2>2. /\ TaskStep(t) /\ \E d : Note(t, d)
        /\ \A u \in Tasks \ {t} : pc'[u] = pc[u] /\ reg'[u] = reg[u]
    BY <2>1, StepIsTaskStep DEF AloneInv, ScreenInv
  <2>3. ScreenInv'
    BY <2>2, NextIInv DEF AloneInv, ScreenNext
  <2>4. ASSUME NEW u \in Tasks, pc'[u] # "out", Undisturbed(display'[u])
        PROVE  Shown(display'[u]) /\ Way(u, display[u].vx, display[u].vy)'
    <3>1. CASE u = t
      BY <2>1, <2>4, <3>1, CharGoesOn, ScrollGoesOn, MoveGoesOn
    <3>2. CASE u # t
      BY <2>2, <2>4, <3>2, OthersGoOn
    <3> QED
      BY <3>1, <3>2
  <2>5. OnItsWay'
    BY <2>4 DEF OnItsWay, Undisturbed
  <2> QED
    BY <2>3, <2>5 DEF AloneInv
<1> QED
  BY <1>1, <1>2

\* Where each statement of console.c has the cursor of a call nobody disturbs,
\* with respect to the place Screen gives it at the end.
THEOREM AloneInductive == AloneSpec => []AloneInv
BY InitAlone, NextAlone, PTL DEF AloneSpec

\* A call of putc or puts during which no other task moved the cursor leaves it
\* where Putc or Puts of Screen say, for any strings on any screen, and however
\* far other tasks had thrown the cursor before: the loads and stores of one
\* byte each, and the two loops of scroll, add up to them.
THEOREM UndisturbedAsScreen == AloneSpec => AsScreen
<1>1. AloneInv /\ [AloneNext]_<<vars, display>> =>
        [\A t \in Tasks :
           pc[t] # "out" /\ pc'[t] = "out" /\ Undisturbed(display[t]) =>
             vx' = display[t].vx /\ vy' = display[t].vy]_<<vars, display>>
  <2> SUFFICES ASSUME AloneInv, AloneNext, NEW u \in Tasks,
                      pc[u] # "out", pc'[u] = "out", Undisturbed(display[u])
               PROVE  vx' = display[u].vx /\ vy' = display[u].vy
    OBVIOUS
  <2>1. PICK t \in Tasks : \/ \E c \in DOMAIN First : AloneChar(t, c)
                           \/ AloneScroll(t) \/ AloneMove(t)
    BY DEF AloneNext
  <2>2. u = t
    BY <2>1, StepIsTaskStep DEF AloneInv, ScreenInv
  <2>3. ASSUME NEW from, NEW to, Test(t, from, to), to # "out" PROVE FALSE
    BY <2>2, <2>3 DEF Test, Goto, AloneInv, ScreenInv, ScreenTypeOK
  <2>4. AloneMove(t)
    <3>1. \A c \in DOMAIN First : First[c] # "out"
      BY DEF First
    <3> QED
      BY <2>1, <2>3, <3>1 DEF AloneChar, AloneScroll, PutcAt, Scroll
  <2> QED
    BY <2>2, <2>4, MoveGoesOn
<1> QED
  BY <1>1, AloneInductive, PTL DEF AloneSpec, AsScreen

\* The history variable changes nothing: the tasks of ScreenAlone do what those
\* of SharedScreen do, so that all that is proved of one holds of the other.
THEOREM AloneIsShared == AloneSpec => ScreenSpec
<1>1. AloneInit => ScreenInit
  BY DEF AloneInit
<1>2. AloneInv /\ [AloneNext]_<<vars, display>> => [ScreenNext]_vars
  <2> SUFFICES ASSUME AloneInv, AloneNext PROVE ScreenNext
    BY DEF vars
  <2> QED
    BY StepIsTaskStep DEF AloneNext, ScreenNext, AloneInv, ScreenInv
<1> QED
  BY <1>1, <1>2, AloneInductive, PTL DEF AloneSpec, ScreenSpec

=============================================================================
