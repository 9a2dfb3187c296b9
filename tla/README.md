# Daintree, specified

Daintree is a small 32-bit operating system in C and assembly. It boots into three tasks: a
console that reads the keyboard, a shell that runs a little language line by line, and a manager
that draws the state of the tasks and of the heap. This directory specifies its core in TLA+. TLC
checks the specifications on small instances, and TLAPS proves theorems about ten of the
parts below for every value of their constants. File names below are those under `src/`.

## The system

| Part | State | Operations | Modules |
|---|---|---|---|
| Scheduler, `task.c` | list of tasks, `current_task`; per task `waiting_irq`, `waiting_irq_no`, `waiting_irq_hits`, `waiting_ticks`, saved registers | `tasks_switch`, `create_task`, `add_task` | `Tasks`, `KernelProofs` |
| Interrupts and system calls, `interrupts.c`, `interrupts.s` | `console_data` | `isr_handler` (system calls 1 to 5, exceptions), `irq_handler` | `Tasks`, `Kernel`, `KernelProofs` |
| Kernel tasks, `entry.c`, `console_task.c`, `manager_task.c` | where each task is, the keyboard's port | `console_task`, `shell_task`, `manager_task`, `gets` | `Kernel`, `KernelSleep`, `LineChannel`, `KernelProofs` |
| Heap, `mem.c` | list of `heap_entry`, `heap_in_use` | `heap_init`, `malloc`, `free` | `Heap`, `Arena`, `HeapProofs`, `HeapSteps`, `HeapAlone`, `HeapAloneProofs` |
| Dictionary, `dict.c` | a red-black tree | insert, search, search-or-insert, remove, foreach, free | `Dict`, `Dictionary`, `MCDict`, `StoreProofs` |
| Objects and collector, `gc.c`, `object_*` and `context_*` of `program.c` | objects, marks, the list `tracked`, the variables | `object_string/list/dict`, `gc_track`, assignment, `gc_empty` | `Collector`, `MCCollector`, `StoreProofs` |
| Line editor, `console_task.c`, buffers of `console.c` | `console_task_buf`, shift, capslock | a key, `size_buffer` | `LineEditor`, `MCLineEditor`, `LineEditorProofs` |
| Screen, `console.c` | `vx`, `vy`, video memory | `putc`, `puts`, `scroll`, `clear` | `Screen`, `SharedScreen`, `ScreenAlone`, `SharedScreenProofs` |
| Lexer and parser, `lex.sv`, `parse.y` | the parser's stack, the token's value | a token, a rule's action, an error's destructors | `Grammar`, `Program`, `Syntax` |
| Syntax trees, `ast.c` | trees and lists of `malloc`ed structures, `program.stmt_list` | make, copy, append, free | `Syntax`, `LanguageProofs` |
| Evaluator and values, `program.c`, `math.c`, numbers of `vasputf` and `atoi` | tagged 32-bit words, objects, the context | `eval`, `execute`, `program_run`, `val_to_str`, `powi` | `Values`, `Evaluator`, `MCLines`, `LanguageProofs` |
| Strings, checksum, `string.c`, `crc32.c`, `ctype.c` | none | | partly: a copy is a block in `Syntax`, a checksum any hash in `Dict` |
| Boot, ports, `entry.s`, `arch.c`, `multiboot.h` | none, or a few instructions | | not modelled |

How they meet:

* Every interrupt stub runs with interrupts disabled, calls `irq_handler` or `isr_handler`, and
  returns on the stack of the task that `tasks_switch` chose. Handlers are atomic; everything
  else, `malloc` included, may be interrupted anywhere and another task resumed.
* The console registers for IRQ 1 (system call 1) and waits on it (2). On Enter it publishes a
  line (3). The shell asks for a line with `gets` (4). Calls 3 and 4 share `console_data` and wake
  one another by the pseudo interrupt numbers 0x20 and 0x21; whoever comes first waits.
* The manager sleeps with system call 5. `waiting_ticks` is taken down by the walk of
  `tasks_switch` past the sleeper, not by a clock.
* The shell parses a line into `program.stmt_list`, runs it if there was no error, prints the values
  of its statements with `puts`, and drops the trees. An exception in `eval` halts the machine.
* The shell runs each line to its end and then calls `gc_empty`, which marks from the variables
  through `dict_foreach` and frees what is tracked and unmarked.
* All tasks share the heap and the screen without a lock.

What is hard in this: the orders in which interrupts, system calls and wake-ups can fall; the
preference for woken tasks; a heap call interrupted by another; rebalancing on the way down a
tree; collecting objects that hold one another when addresses are used again and marks start as
garbage; who frees which copy of which tree, on every path a parse can take; two tasks between the
load and the store of one cursor; values told from pointers by a bit. What makes each part correct
is named with its module below; `PROJECT.json` lists every hazard at its line with the properties
aimed at it.

## The modules

**Tasks** has one action per system call and one for `irq_handler`; each contains the
`tasks_switch` it ends in. Tasks are numbered by their place in the list; idle, added first and
pushed back by every `add_task`, is the last. `TasksSwitch(w, h, k)` gets the three fields a
handler changed: a woken task is preferred, otherwise `Rotation` orders the walk, and the
sleepers passed lose a tick. The specification at the end lets every task but idle make any
system call in any order, so what holds of it holds of any three, or thirty, tasks. `create_task`
does not set two fields; `Garbage` is what the heap may have left there: of all that an
int may hold, numbers that are and that are not an interrupt's, and zero hits or some.

**Kernel** runs the real tasks on `Tasks`. Their code is cut at reads of port 0x60 and at system
calls, the places where one task's timing shows to another. The keyboard controller has one byte:
it accepts the next after the last was read, and raises IRQ 1. The user may press any key at any
time; the history variable `ahead` remembers whether Enter was ever pressed before the shell asked
for a line, and the properties that such an Enter spoils except it by name. `Faults` is whether a
program may divide by zero, which stops the machine. **LineChannel** says what `gets` promises: each
line once, in order, no next line before the last was taken (`ChannelSafe`), and every line taken and
freed in the end (`LinesGoOn`).
**KernelSleep** adds history variables that count timer interrupts during a sleep.

**Heap** has `Malloc` and `Free` as single actions on the list of blocks. **Arena** says what
callers are promised: bytes inside the arena that nobody else holds. **HeapSteps** is the same
code cut at each point where it looks at the heap again; **HeapAlone** runs it with one caller.

**Dict** is the code of `dict.c` with nodes known by their hash: insertion (`Descend`, `Repair`,
`Single`, `Double`) and removal (`Sink`, `PushRed`, `Replace`) top-down as in the source, with
the false root on the stack, the key copies made and freed, and the hooks that `program.c`
passes. `DictInit`, `DictNext` and `DictSpec` are its specification. The two loops are functions of
the number of passes (`Pass`, `Sunk`), over more passes than a tree of so many nodes can need, and
a pass after the last changes nothing; the recursions of `dict_search` and `_foreach` are functions
on the nodes (`Found`, `InOrder`). **Dictionary** is the map that `dict.h` offers.

**Collector** leaves open what a line evaluates: it may make any string, list or dictionary from
the values it has come upon, read items, assign variables. A fresh object's `mark` is arbitrary,
as `object_alloc` leaves it; a freed address is handed out again; dictionaries are not tracked,
and one abandoned half-way is left where it is. `GcEmpty` is the whole of `gc_empty`.

**Grammar** is `parse.y` as sets of rules: those that make a node, those that hand a value on, those
that append to a list. What may be shifted or reduced is what the symbols on the stack permit; the
parser Bison generates takes one of these. **Program** says what a line's parse promises, with trees
as values: the program is the sequence of what was typed, or nothing. **Syntax** is the same parse
on memory: every structure of `ast.c` is a block with an address, constructors copy what they are
given, actions free what they gave, an error destroys the values on the stack. It implements
`Program` by reading each value's tree out of memory (`Terms`).

**Values** is the arithmetic on tagged words with `Half` in place of 2^31, and the digits `vasputf`
makes and `atoi` reads. **Evaluator** adds `program_run` to `Syntax`: `Eval` on a machine of context,
objects and output, with `object_list` and `object_dict` as they are, the exception, and
`val_to_str`. Beside it stands what a line means (`Meaning`, `LineMeans`): terms evaluated to numbers
modulo `Half`, sequences and None, without words, addresses or memory.

**SharedScreen** cuts `putc`, `puts` and `scroll` at every load and store of `vx` and `vy`, for any
number of tasks. **ScreenAlone** remembers what `Screen` would have made of each call.

**Screen** is the cursor and the cells, with `vx` and `vy` eight bits wide in the source (`Byte`)
and `puts` scrolling once after all its characters. **LineEditor** types at the prompt: characters
with shift and capslock, tab, backspace, Enter, the doubling buffer, and the output of programs
between lines. Two history variables remember what excuses the echo: `tabbed`, a tab in the line, and
`overrun`, an output that `puts` put behind the place where the cursor ended up.

**Lemmas** is about numbers, recursive functions and sums, for the proof modules.

## The runs

| Run | Distinct states | What it shows |
|---|---|---|
| `tasks` | 14156 | `tasks_switch` always finds a task that may run, and resumes only such a one (`SchedulerInv`); sleepers age as the walk says (`SleepersAge`); a wake-up is never lost (`HitsWake`) |
| `kernel` | 52937 | the real tasks, any keys at any time, faults possible, with fairness. Lines go through the channel (`ChannelSafe`, `LinesGoOn`), passes of the console match bytes (`PassesMatchBytes`), the console waits on the keyboard (`WaitsOnKeyboard`), a parked line is fresh (`ParkedLineIsFresh`), eax is written into the right frame (`WaiterIsInGets`), the manager sleeps long enough at the prompt (`NapsAtPrompt`); bytes are read (`BytesAreRead`), the manager redraws. `SleepInv` is the inductive invariant of all this |
| `kernel_registered` | violated | see findings |
| `kernel_sleep` | violated | see findings |
| `heap` | 2627 | the list tiles the arena in both directions, free neighbours are joined, blocks held are in use (`HeapInv`); `heap_in_use` is the sum of what the blocks cost, what is shown as free is the sum of the free blocks, and all given back is all there (`Accounting`); pointers have no tag bit (`Aligned`); the word at address 0 is no type of an expression (`NullIsNoExpr`); it implements `Arena` (`ArenaSpec`) |
| `heap_alone` | 37851 | `HeapSteps` with one caller implements `Heap` |
| `heap_race` | violated | see findings |
| `dict` | 19751 | red-black after every call, `dict_foreach` visits all in order, keys belong to nodes, each call is the map's call |
| `collector` | 180871 | nothing the program can come to is freed, no object holds itself, all else but dictionaries is freed |
| `editor` | 1227519 | the cells before the cursor show the line the shell will get (`EchoIsLine`), also while programs print (`EditorInv`); `puts` does what `putc` would as long as the text fits (`PutsAsPutcs`) |
| `screen` | 237055 | two tasks writing at once: the cursor is on the screen when none writes (`CursorOnScreen`), because somebody still has the loop before it (`ScreenInv`); an undisturbed call does what `Screen` says (`AsScreen`); a task left alone gets out of the loops of `scroll` (`LastCallReturns`) |
| `lines` | 63725 | lines of any tokens parsed, run and dropped: no block is shared, freed twice or lost but for two named leaks (`OneOwner`), pointers lead to what their field says (`SyntaxTypeOK`), the program is what was typed (`ProgramSpec`), what is printed is what the line means and the halt comes exactly at a division by zero (`PrintsMeaning`), every word is a number, None or an object there is (`EvaluatorTypeOK`), a printed number typed again is that number (`PrintedReadsBack`) |

### Bounds, and why they suffice

* `tasks`: two tasks beside idle is the least at which two tasks wait, sleep and are woken in
  either order with a third running; the timer and the keyboard; up to two hits. The theorems
  cover every number of tasks.
* `kernel`: the four tasks of the program; three scancodes, Enter or not, after the byte that may be
  in the controller at boot, and a line for each, so that the bound on lines stops nobody. After a
  line the tasks are back where they were, so a third line shows nothing a second does not; the
  counters only number lines. A nap of three ticks is longer than any one lap between events.
* `heap`: an arena of five small blocks with sizes around the limit at which a block is not cut
  (20 bytes to spare) and a start that has to be aligned. `heap_race` and `heap_alone` have two
  and four blocks at most.
* `dict`: up to seven nodes give trees of height four, on which every rotation, double rotation
  and recolouring of both descents occurs, on both sides; one pair of colliding keys; NULL data.
  TLC distinguishes states by the shape of the tree and its data (`Shape`): what a call does
  depends on these only. The theorems cover trees of any size, any keys and any hash.
* `collector`: four addresses allow a list in a dictionary in a list beside what is collected;
  one variable, lists and dictionaries of up to two objects; addresses are interchangeable.
* `editor`: a screen of three rows of three cells and a buffer of two characters, so that lines of up
  to four wrap, scroll and grow the buffer; outputs of none, two, five and nine characters run past
  the row, past the bottom and past `Byte` (7). The theorems cover any screen, line and text.
* `screen`: two tasks on two rows of three cells with `Byte` 7 and tabs of 2: either loop of `scroll`
  runs more than once, the cursor is thrown past the row, past the bottom, and by a lost update
  below zero. The theorems cover any number of tasks and any screen.
* `lines`: `Vocabularies` are lines of up to four of any tokens, and of up to nine of a few words
  each: attributes in dictionaries and in lists, nested dictionaries that are looked up, sequences
  of assignments, strings in arithmetic, and all operators on 3, 101 and 200. With `Half` 128 the
  last is read as 72, products overflow twice, and a negative number comes back as a large
  one. Names and strings have one text each, so that dictionaries have at most one key (several
  keys are `Dict`'s subject); names are forgotten at the next prompt. A line of nine tokens never
  needs more than the 60 addresses. Each printed number is also formatted in both bases that `vasputf`
  knows, in fields of up to four; the theorem covers any.

### Fairness

`KernelFairness` has weak fairness of the timer interrupt, which the hardware gives: the timer is
always enabled in a machine that has not halted. It has strong fairness of each task's steps: a
task may lose the processor to an interrupt before any of its steps, so its steps are not
continuously enabled, but a slice lasts some ten milliseconds and a step a few instructions, so a
task that is resumed again and again does get ahead. Nothing is assumed of the user: keys may stop,
and in the runs they do (`MaxKeys`). What a stream of keys that never ends does to the shell and the manager,
which the walk reaches only when no task was woken, is not checked.
After an exception nothing is live, and after an Enter ahead of the prompt the console may wait for
nobody: the liveness properties except the one or both (`Excused`), and `ManagerRedraws` and the
freeing of lines in `LinesGoOn` hold however the user types.

`ScreenFairness` has weak fairness of each task in the middle of a call, which the scheduler gives as
above, and strong fairness of a task's reaching `scroll`: strings end. `LastCallReturns` asks in
addition that the other tasks stay out of `console.c` from some time on. With them always writing, a
task may be kept in the loops.

## What is proved

All proofs are for any values of the constants that satisfy the named assumptions next to them.

**KernelProofs**, the scheduler (any number of tasks). The invariant is `SchedulerInv`, which is
`TasksTypeOK /\ IdleReady /\ CurrentReady`.
The three need one another: a tick is only taken from sleepers because the walk stops at the
first ready task; the walk ends because idle is ready; and no task is blocked and asleep at once
because only a ready task calls. `SwitchReturns` shows that the endless loop of `tasks_switch`,
which runs with interrupts off, always returns. `Ageing` and `WakeUpsKept` are action properties
on top of the invariant: the second says no interrupt or system call, in whatever order, can lose
a wake-up.

**HeapProofs** (any arena, any sizes). The invariant is `HeapInv`, which is `HeapTypeOK /\ Chained /\
NoTwoFree /\ HeldInUse`. `NoTwoFree` is needed for the merge, which joins at most one neighbour on
each side; `Chained` because `free` follows links and not addresses. `ImplementsArena` then shows
that every step of `Heap` is one of `Arena` or a stutter: malloc never hands out bytes twice.
`PointersUntagged` adds that what it hands out is a multiple of four, which the tag of values rests
on, and `NullExprIsOther` what is read at address 0.

**HeapAloneProofs** (any arena, any sizes that are multiples of four) shows that the atomic calls of `Heap` are
what the code does when no interrupt comes between (`CallsAreAtomic`): the refinement maps the heap to the
history variable `start`, the list as the last call left it. The invariant `AloneInv` says at each place in `malloc`
and `free` how the memory differs from `start`: not at all during the search, where no block before the one
looked at fits (`NoneBefore`); in one `free` flag before the cut; and in the loops of `free` by the blocks joined so far
(`Joined(e, a, z)`), so that their second pass finds nothing, by `NoTwoFree` of `Heap`. At the return the list is
read off the memory by following `next`, and `WayIs` shows that what this recursion finds is the
set of blocks meant, though headers of joined blocks and their links are still in memory. `HeapInv` and the
lemmas of **HeapProofs** are used for `start` through an instance. `NeverReportedAlone` follows.

**SharedScreenProofs** (any number of tasks, any screen). `CursorOnScreen` is not inductive: a task
that tested the cursor a moment ago may leave while another one stores. `Watched` is: whoever makes a
column too large is still before the loop for columns, whoever makes a row too large is still inside,
and a task leaves a loop only after a test that found nothing to do. `QuietCursor` follows.

`UndisturbedAsScreen` is about a call during which no other task moved the cursor: it leaves the cursor where `Screen`,
which does a call at once, says. `AloneInv` holds at each load and store of `putc`, `puts` and `scroll`: the cursor, the value in the
task's register and the statements still to come lead to that place (`Left`). The loops of `scroll` take away a
row of columns or a row at a time, and what is left is said by a quotient and a residue (`Scrolls`). `AloneIsShared` says that the history added for this restricts nothing.

**LanguageProofs**, the trees (any lines of any length). The invariant is `SyntaxInv`: the memory is
`Good` for the blocks that the parser's stack and the program hold, and these are disjoint. `Good(m, H)`
is that every field leads to a structure of its type (`WellFormed`), that no block has two pointers to it,
those of the holders `H` included, that none holds itself, and that all blocks can be come to from
`H` or are lost (`Owned`). No induction over trees is needed: what one comes to from a block is the
least closed set, and `FromIs` shows that the recursion of the model computes it. Then each function of `ast.c`
keeps `Good`: a new structure takes what it points to from its holder (`NewKeeps`), a copy is a new
holder (`CopyKeeps`), a list grows at its end (`LinkKeeps`), and what is freed takes its tree along and
nobody else's (`FreeKeeps`, by `Disjoint`). That the rules of `parse.y` give these functions what they ask
for is checked rule by rule (`MakeRulesFit`, `HandRulesFit`, `AppendRulesFit`): a constructor for names
would otherwise get an expression, or `expr_free` a value that is still on the stack. `SyntaxTypes` and
`OneOwnerHolds` follow. They hold as long as the heap has room for the next step (`Roomy`): the parser looks at
no result of `malloc`, so what it does when there is none left nobody can say. `Roomy` asks for three
times the blocks in use and six, which is enough for copying twice all there is.

**LanguageProofs**, the values (any word size). `NumberIsResidue`: the word made of an int, taken apart again, is
the int modulo `Half`, though both shifts and the sign are in between. `ArithmeticIsExact`: every
operator, on any two words, gives what exact arithmetic on the numbers gives, modulo `Half`, or None,
or the exception. For `**` this is an induction over the loop of `powi`, each step of which wraps:
the product of residues is the residue of the product. `NegationIsExact` is the same for the minus
sign, and `ArithmeticMakesNoPointer` says that no operator makes a word that looks like a pointer.

`NumbersReadBack` is about `vasputf` and `atoi`, for any number, base and width: `ReadsBack`, which `PrintedReadsBack` asks of
the numbers that are printed. That its loops end is shown by what is left to do (`IndexLoopDef`, `DigitLoopDef`); the first
begins with a power of the base above which the number has no digit and the width no place (`FirstIndexIs`); the
second puts out a character for each power from there down (`FormattedIs`), and for those above the first digit, and no
others, a blank (`PaddedText`). The quotients of the number by the powers are what is read so far when the text is read
again (`Quotients`, `ReadingIs`); they never exceed the number, so `atoi` does not wrap (`AtoiIs`).

**StoreProofs**, the collector (any objects, variables, sizes). `Reach` is defined as the least closed set,
so that no induction is needed. The invariant is `CollectorInv`, which is `CollectorTypeOK /\ OthersTracked /\ NoDangling /\
NoCycles`. A new object is made of objects that can be come to, and these are allocated, so its own
address is not among what they reach: this is why `NoCycles` needs `NoDangling`, and it would fail
in a language with assignment to items. `OthersTracked` (what is not tracked is a dictionary) gives
`CollectsTheRest`, for which the first loop of `gc_empty`, which takes back old marks, is needed.

**StoreProofs**, the dictionary (any keys, any hash, trees of any size). `RedBlack` is not inductive: it says
nothing of order, and a rotation of a graph that is no tree may do anything. The invariant `DictInv` is that the
tree is `Kempt`: there are a function `B`, the nodes at and below each node, and a function `H`, the
black nodes on the way down from it, such that the nodes under the left link of `n` are below `n` and
those under the right above, no node has two links to it, all nodes are under the root (`Ordered`), `H` goes
up by one at each black node (`Even`), no red node has a red child and the root is black; and that there is a copy
of a key for every node. `B` and `H` are given for the tree after a rotation outright (`TurnedB`), so that
no step needs an induction over trees; only what the recursions of the model compute does (`FoundIs`, `InOrderIs`, `HeightIs`),
and there it is a statement about sets: one that holds NIL and each node whose two links it holds has all nodes.

The loop of `_inssearch` is left in a red-black tree by every pass, since `Repair` undoes at once what the flip of colours
or the new node breaks. That it can is in the invariant of the loop (`Going`): the node is on the path to the hash
(`OnWay`), the grandparent and the one above it are still where `g` and `t` say, and a red parent whose child may yet turn red
has no red sibling, so that one rotation is enough and nothing above it is touched. After a rotation `g` and `t` are
stale, and after a double one the loop has still to come past a node that went down; the proof shows that the
passes which follow find nothing to repair until they are right again (`AfterSingle`, `AfterDouble`). The loop ends, because the number of
nodes at and below `q` falls: the endless `for` of `_inssearch` returns. The loop of `dict_remove` keeps the node it stands at
red or with a red child ahead (`AtNode`), so that the last node of the path is a red leaf or the only node (`LastNode`);
this is why it may be unlinked without a repair. `Replace` then moves the greatest hash below the removed node into its place, which
is the renaming of one node in all of `B` (`RenameSound`).

`Balanced`, `VisitsAll`, `KeysStay` and `TreeIsMap` follow. The last is the refinement: what `dict_search` finds is the map
`MapOf`, and each call changes it as `Dictionary` says. The hash is any function to the
natural numbers, so keys that collide are included.

**KernelProofs**, the real tasks (any keys, lines, nap and interrupt lines). The invariant is `KernelInv`:
`SchedulerInv` of `Tasks`; that a task is blocked in the call its program counter names, on the
number that call waits for (`BlockedInCall`); that no woken task is left after a handler but the one
resumed (`NoneLeftWoken`); that every line number is in one place (`LinesKnown`); and, as long as the
user waits for the prompt, how the console, the shell and the keyboard's port stand to each other
(`AtPrompt`). The last is what makes `WaitsOnKeyboard` and `PassesMatchBytes` inductive: at the prompt the
shell waits in `gets` before Enter can be read. `LinesPassOnce` then maps every step to one of
`LineChannel` or a stutter, for a user at the prompt. `SleepInv` adds that a nap is covered: the ticks the
manager has left and the timer interrupts it has seen make up what it asked for, and one more if
the next switch may take a tick without a timer (`NapCovered`). `NapsLongEnough` follows for a machine
whose only interrupts are those of timer and keyboard; any other would take a tick as well.

**LineEditorProofs** (any screen, keys and texts). `EditorInv` says, also while a program prints, that
the cells before the cursor show the line and that nothing is shown behind the cursor. Each character
is followed through `putc`: it writes a cell and moves on, a new line jumps, `scroll` moves every
cell and the cursor alike. Erasing needs `BlankBehind`, or an old character would come back. On a
screen of three rows or more `puts` can leave text behind the cursor when a string wraps `vx` or its
last row is dropped, so `overrun` excepts this. `PutsIsPutcs` is an induction over the text: rows
scrolled late are the rows scrolled one by one. It leaves out control characters: a new line
inside a string that is long enough to scroll twice loses a row.

**Lemmas** states induction and recursion for sets and functions: a set of numbers that holds 0 and
with each number the next holds all (`UpTo`), the least number of a set (`Least`), and that what a
recursive function on numbers is defined to be exists (`RecursionOnNat`), so the proofs above can do
without the library's theorems with operator parameters. The sums of `Accounting` are handled
by induction on the size of the set (`TotalTakesOut`). `BytesAccounted` of **HeapProofs** rests on them:
each call changes the cost of at most three blocks, by what it adds to `heap_in_use`.

**Model-checked only.** `HeapSteps` with more than one caller; of `Syntax`, `ProgramSpec`, which is about the
terms in memory; and the invariants of `Evaluator`, whose evaluation is a RECURSIVE operator:
what is proved of its arithmetic and of printed numbers is proved in `Values`. Liveness is out of the prover's reach.

## Findings

* System call 3 parks the console on 0x20 if the shell is not in `gets`, by overwriting
  `waiting_irq_no`, and nothing restores it. The next system call 2, "wait on IRQ (from sys1)."
  (`interrupts.c:180`), waits on 0x20, and the keyboard no longer wakes the console. It takes an Enter
  typed while a program runs (`kernel_registered`). While the user only types at the prompt it does
  not happen (`WaitsOnKeyboard` in `kernel`).
* System call 5 promises to "wait at least ebx ticks" (`interrupts.c:200`), but a tick is taken by each
  walk that comes past the manager, whatever began it (`kernel_sleep`). In this list that is a walk from idle: the
  system calls of shell and console end theirs at idle, so it is interrupts that take ticks. A keyboard
  interrupt does when it finds idle running and wakes nobody, because the console is ready to run or waits on 0x20
  (the finding above). For a user who waits for the prompt, on a machine whose only interrupts are those of timer
  and keyboard, the promise holds (`NapsAtPrompt`).
* Two tasks inside `malloc` and `free` at once can make `free` print "double free!" (`mem.c:77`)
  to callers that made no mistake (`heap_race`).

Noted while modelling, without a run: the comment at `dict.c:130` says an unsuccessful
`dict_search_insert` returns "the node contents", but `_inssearch` returns NULL on every path
(`dict.c:152`; no caller uses the result). Dictionaries are never freed by the collector
(`OnlyDictsLeak` says what else is). A backspace over a tab takes back one column of several, so
`EchoIsLine` excepts lines with tabs. `putc`'s cursor wraps after 255 characters written by one
`puts` without a new line, which `PutsAsPutcs` excepts. `dict_remove` moves a hash but not its key
(no code calls it). `expr_free` leaves the parts of an attribute expression behind (`ast.c:34`), and
the lexer forgets its buffer when a line ends in a string (`lex.sv:42`): `OneOwner` says nothing else
is lost. Negative numbers come back from their word as large positive ones, so `x ** -1` multiplies
2^31 - 2 times; `PrintsMeaning` is therefore about residues. The separator of `vasputf`'s numbers is
never put out: its test asks for a separator both above zero and zero. The manager's
`heap_in_use * 100` (`manager_task.c:31`) overflows with some 40 MB in use.

## What is not modelled

* Errors that end the shell: if the generated lexer does not start, `shell_task` leaves its loop, frees the context and
  executes `hlt` (`entry.c:67`), and runs on into nowhere with the next interrupt. What callers of `malloc` do with NULL:
  none looks at it.
* Scancodes of 90 and more, for which `keyboard_dv` has no entry (`console_task.c:112`): what is read behind the table
  is the compiler's choice. `dict_empty`, which nothing calls.
* The automata generated from `lex.sv` and `parse.y` are not in the repository. `Syntax` takes any
  parse the rules permit, whatever the precedences would choose, and an error at any token; so what
  holds of it holds of the parser, but that `2 + 3 * 4` is read one way and not the other is not
  checked.
* `val_to_str`'s buffers and the bytes of strings; `Evaluator` prints tokens. `string.c`, `ctype.c`
  and `crc32.c` are functions on bytes without state; the checksum is an arbitrary hash in `Dict`.
* The key that puts a NUL into the line (`console_task.c:133`): how the lexer reads a line byte by
  byte is not modelled, and `LineEditor` keeps the character. Backspace over a tab
  (`console_task.c:124`) is excepted by `EchoIsLine`, which does not hold for it.
* `entry.s`, `arch.c`, `multiboot.h` and the programming of the interrupt controllers are layouts or
  straight lists of port writes. The stack of idle beside a heap header (`entry.c:30`) would need a
  model of stacks, word by word.
* Colours, the hardware cursor, `putn`, and the panel that the manager draws with `putc_at` on
  coordinates of its own.
* `Heap` takes sizes below the wrap of 32 bits. `Evaluator` never frees an object within a line, and
  the program does not either; between lines this is `Collector`.

## Plan

1. That `Syntax` implements `Program`: the term of a copy is the term of the original, by the least
   closed sets of the proof that there is one owner.
2. The line's string through `strndup`, the lexer's copy and `free`, byte by byte, with the NUL.
