---------------------------- MODULE SharedScreen ----------------------------
(***************************************************************************)
(* The cursor of console.c as the tasks share it: the console's echo, the  *)
(* shell's output and the messages of the kernel move the same vx and vy,  *)
(* an interrupt may hand the processor over between any two instructions,  *)
(* and the program is compiled with -O0, so that each mention of vx or vy  *)
(* is a load or a store of its own.                                        *)
(*                                                                         *)
(* A call of putc or puts is any number of characters followed by scroll;  *)
(* what the characters are, and how many, is left open.  The cells they    *)
(* are written to have no effect on the cursor and are left out, as is     *)
(* cursor(), which only reads it.                                          *)
(***************************************************************************)
EXTENDS Naturals

CONSTANTS
  Tasks,          \* the tasks that write
  Width, Height,  \* 80 and 25 in the source
  Byte,           \* the range of the uint8_t vx and vy: 256
  TabStop         \* 8

ASSUME SharedScreenAssumption ==
  /\ Width \in Nat \ {0} /\ Height \in Nat \ {0} /\ TabStop \in Nat \ {0}
  /\ Byte \in Nat /\ Byte > Width /\ Byte > Height

VARIABLES
  vx, vy,
  pc,     \* where each task is: "out" of console.c, or the statement it is at
  reg     \* what it loaded and has not stored yet

vars == <<vx, vy, pc, reg>>

\* The places in putc_at, and in the two loops of scroll.
InPutc == {"char", "newline", "row", "row+", "tab", "tab2", "tab+", "back",
           "top", "back row", "back row-", "back end", "column-", "column--",
           "column", "column+"}
InColumns == {"columns", "wrap", "wrap-", "wrap row", "wrap row+"}
InRows == {"rows", "up", "up-"}

ScreenInit ==
  /\ vx = 0 /\ vy = 0
  /\ pc = [t \in Tasks |-> "out"]
  /\ reg = [t \in Tasks |-> 0]

At(t, label) == pc[t] = label
Goto(t, label) == pc' = [pc EXCEPT ![t] = label]

\* The three things a task does with the cursor: it tests it, loads it into a
\* register, or stores what it made of the register, in eight bits.
Test(t, from, to) ==
  At(t, from) /\ Goto(t, to) /\ UNCHANGED <<vx, vy, reg>>
Load(t, from, to, v) ==
  At(t, from) /\ Goto(t, to) /\ reg' = [reg EXCEPT ![t] = v] /\ UNCHANGED <<vx, vy>>

StoreX(t, from, to, v) ==
  /\ At(t, from) /\ Goto(t, to) /\ vx' = v % Byte
  /\ reg' = [reg EXCEPT ![t] = 0] /\ UNCHANGED vy

StoreY(t, from, to, v) ==
  /\ At(t, from) /\ Goto(t, to) /\ vy' = v % Byte
  /\ reg' = [reg EXCEPT ![t] = 0] /\ UNCHANGED vx

Less(n, m) == n + Byte - m   \* n - m in eight bits, once reduced

-----------------------------------------------------------------------------
(* putc_at(&vx, &vy, c) *)

\* What c asks for.
First == [newline |-> "newline", tab |-> "tab", backspace |-> "back", other |-> "column"]

PutcAt(t, c) ==
  \E from \in {"out", "char"} : Test(t, from, First[c])

NewLine(t) ==
  \/ StoreX(t, "newline", "row", 0)
  \/ Load(t, "row", "row+", vy)
  \/ StoreY(t, "row+", "char", reg[t] + 1)

\* *vx is read twice; which of the values is the summand is the compiler's.
Tab(t) ==
  \/ Load(t, "tab", "tab2", vx)
  \/ \E s \in {reg[t] + TabStop - (vx % TabStop), vx + TabStop - (reg[t] % TabStop)} :
       Load(t, "tab2", "tab+", s)
  \/ StoreX(t, "tab+", "char", reg[t])

\* Mutant of Backspace: at the start of a row the row stays.
BackspaceInRow(t) ==
  \/ Test(t, "back", IF vx = 0 THEN "back end" ELSE "column-")
  \/ StoreX(t, "back end", "char", Width - 1)
  \/ Load(t, "column-", "column--", vx)
  \/ StoreX(t, "column--", "char", Less(reg[t], 1))

Backspace(t) ==
  \/ Test(t, "back", IF vx = 0 THEN "top" ELSE "column-")
  \/ Test(t, "top", IF vy = 0 THEN "char" ELSE "back row")
  \/ Load(t, "back row", "back row-", vy)
  \/ StoreY(t, "back row-", "back end", Less(reg[t], 1))
  \/ StoreX(t, "back end", "char", Width - 1)
  \/ Load(t, "column-", "column--", vx)
  \/ StoreX(t, "column--", "char", Less(reg[t], 1))

Character(t) ==
  \/ Load(t, "column", "column+", vx)
  \/ StoreX(t, "column+", "char", reg[t] + 1)

-----------------------------------------------------------------------------
(* scroll() *)

Scroll(t) == \E from \in {"out", "char"} : Test(t, from, "columns")

\* Mutant of Columns: "if" in place of "while".
ColumnsOnce(t) ==
  \/ Test(t, "columns", IF vx >= Width THEN "wrap" ELSE "rows")
  \/ Load(t, "wrap", "wrap-", vx)
  \/ StoreX(t, "wrap-", "wrap row", Less(reg[t], Width))
  \/ Load(t, "wrap row", "wrap row+", vy)
  \/ StoreY(t, "wrap row+", "rows", reg[t] + 1)

Columns(t) ==
  \/ Test(t, "columns", IF vx >= Width THEN "wrap" ELSE "rows")
  \/ Load(t, "wrap", "wrap-", vx)
  \/ StoreX(t, "wrap-", "wrap row", Less(reg[t], Width))
  \/ Load(t, "wrap row", "wrap row+", vy)
  \/ StoreY(t, "wrap row+", "columns", reg[t] + 1)

\* Mutant of Rows: the screen moves up once for all.
RowsOnce(t) ==
  \/ Test(t, "rows", IF vy >= Height THEN "up" ELSE "out")
  \/ Load(t, "up", "up-", vy)
  \/ StoreY(t, "up-", "out", Less(reg[t], 1))

\* Mutant of Rows: the row is not taken back.
RowsStay(t) ==
  \/ Test(t, "rows", IF vy >= Height THEN "up" ELSE "out")
  \/ Load(t, "up", "up-", vy)
  \/ StoreY(t, "up-", "rows", reg[t])

Rows(t) ==
  \/ Test(t, "rows", IF vy >= Height THEN "up" ELSE "out")
  \/ Load(t, "up", "up-", vy)
  \/ StoreY(t, "up-", "rows", Less(reg[t], 1))

-----------------------------------------------------------------------------
TaskStep(t) ==
  \/ \E c \in DOMAIN First : PutcAt(t, c)
  \/ NewLine(t)
  \/ Tab(t)
  \/ Backspace(t)
  \/ Character(t)
  \/ Scroll(t)
  \/ Columns(t)
  \/ Rows(t)

ScreenNext == \E t \in Tasks : TaskStep(t)

ScreenSpec == ScreenInit /\ [][ScreenNext]_vars

\* A task gets on with a call it is in, and strings end.
ScreenFairness ==
  \A t \in Tasks :
    /\ WF_vars(pc[t] # "out" /\ TaskStep(t))
    /\ SF_vars(At(t, "char") /\ Scroll(t))

-----------------------------------------------------------------------------
ScreenTypeOK ==
  /\ vx \in 0..(Byte - 1) /\ vy \in 0..(Byte - 1)
  /\ pc \in [Tasks -> {"out"} \cup InPutc \cup InColumns \cup InRows]
  /\ reg \in [Tasks -> Nat]

\* However the tasks' loads and stores fall between each other, the cursor is
\* on the screen whenever no task is in the middle of writing.
CursorOnScreen ==
  (\A t \in Tasks : pc[t] = "out") => vx < Width /\ vy < Height

\* Why: a column past the end of the row, or a row below the screen, is brought
\* back by a task that has the loop of scroll for it still ahead.  A task that
\* leaves the loops late cannot rely on another one's.
Watched ==
  /\ vx >= Width => \E t \in Tasks : pc[t] \in InPutc \cup InColumns
  /\ vy >= Height => \E t \in Tasks : pc[t] # "out"

\* What every load and store keeps.
ScreenInv == ScreenTypeOK /\ Watched

\* However far other tasks have thrown the cursor, below zero included, a task
\* that is left alone with it gets out of the loops of scroll.
LastCallReturns ==
  \A t \in Tasks :
    <>[](\A u \in Tasks \ {t} : pc[u] = "out") => (pc[t] # "out" ~> pc[t] = "out")

=============================================================================
