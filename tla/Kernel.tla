------------------------------- MODULE Kernel -------------------------------
(***************************************************************************)
(* The running system: the tasks that entry_continue starts, on the        *)
(* scheduler of module Tasks, with the keyboard controller they share.     *)
(*                                                                         *)
(* A task's code is cut where something else can be told to have happened: *)
(* at its reads of port 0x60 and at its system calls.  Between two of its  *)
(* own steps any interrupt may come and hand the processor to another      *)
(* task; the steps of a task are enabled only while it is current_task.    *)
(*                                                                         *)
(* A line is the string that system call 3 duplicates; it is known by its  *)
(* number.  Of the keys only Enter matters here: every other scancode, key *)
(* releases and the keyboard's own replies included, leads console_task    *)
(* from its read of the port back to its wait.                             *)
(***************************************************************************)
EXTENDS Tasks

CONSTANTS
  NapTicks,    \* the manager's ebx: 100 in the source
  MaxKeys,     \* bound: scancodes the keyboard sends
  MaxLines,    \* bound: lines the console completes
  Faults       \* may a program divide by zero?

\* The order of the task list after entry_continue.
Manager == 1
Shell   == 2
Console == 3

ASSUME KernelAssumption ==
  /\ N = 4
  /\ {0, Keyboard} \subseteq Irqs
  /\ Naps = {NapTicks}
  /\ MaxKeys \in Nat /\ MaxLines \in Nat /\ Lines = 1..MaxLines
  /\ Faults \in BOOLEAN

Key == {"enter", "other"}

VARIABLES
  pc,        \* what the console and the shell do next
  port,      \* the byte a read of port 0x60 returns
  obf,       \* the controller's output buffer holds a byte not yet read
  presses,   \* scancodes sent so far
  sent,      \* lines duplicated by system call 3 so far
  live,      \* those of them the shell has not freed
  held,      \* the line the shell works on (i in shell_task)
  halted,    \* isr_handler stopped the machine
  ahead      \* history: Enter was pressed before the shell asked for a line

hardware == <<port, obf, presses>>
lines == <<sent, live, held>>
vars == <<tvars, pc, hardware, lines, halted, ahead>>

Runs(t, label) == ~halted /\ current = t /\ pc[t] = label
Goto(t, label) == pc' = [pc EXCEPT ![t] = label]

-----------------------------------------------------------------------------
(* console_task *)

ConsoleInit ==
  /\ Runs(Console, "init") /\ Goto(Console, "read")
  /\ SysRegister(Keyboard)
  /\ UNCHANGED <<hardware, lines, halted, ahead>>

\* in8(0x60) and what is done with the key; Enter leads to system call 3.
ConsoleRead ==
  /\ Runs(Console, "read")
  /\ Goto(Console, IF port = "enter" THEN "send" ELSE "wait")
  /\ obf' = FALSE
  /\ UNCHANGED <<tvars, port, presses, lines, halted, ahead>>

ConsoleSend ==
  /\ Runs(Console, "send") /\ Goto(Console, "wait")
  /\ sent < MaxLines
  /\ sent' = sent + 1
  /\ live' = live \cup {sent + 1}
  /\ SysPutLine(sent + 1)
  /\ UNCHANGED <<hardware, held, halted, ahead>>

ConsoleWait ==
  /\ Runs(Console, "wait") /\ Goto(Console, "read")
  /\ SysWait
  /\ UNCHANGED <<hardware, lines, halted, ahead>>

ConsoleStep == ConsoleInit \/ ConsoleRead \/ ConsoleSend \/ ConsoleWait

-----------------------------------------------------------------------------
(* shell_task and gets *)

ShellGets ==
  /\ Runs(Shell, "gets") /\ Goto(Shell, "take")
  /\ SysGetLine
  /\ UNCHANGED <<hardware, lines, halted, ahead>>

\* int 0x80 returned: gets returns eax.
ShellTake ==
  /\ Runs(Shell, "take") /\ Goto(Shell, "run")
  /\ held' = eax[Shell]
  /\ UNCHANGED <<tvars, hardware, sent, live, halted, ahead>>

\* The line is parsed, run, and freed.
ShellRun ==
  /\ Runs(Shell, "run") /\ Goto(Shell, "gets")
  /\ live' = live \ {held}
  /\ held' = NoLine
  /\ UNCHANGED <<tvars, hardware, sent, halted, ahead>>

\* The program raises a processor exception: isr_handler prints a message and
\* executes hlt with interrupts disabled.
ShellFault ==
  /\ Faults
  /\ Runs(Shell, "run")
  /\ halted' = TRUE
  /\ UNCHANGED <<tvars, pc, hardware, lines, ahead>>

ShellStep == ShellGets \/ ShellTake \/ ShellRun \/ ShellFault

-----------------------------------------------------------------------------
(* manager_task: draw, sleep, repeat *)

ManagerStep ==
  /\ ~halted /\ current = Manager
  /\ SysSleep(NapTicks)
  /\ UNCHANGED <<pc, hardware, lines, halted, ahead>>

-----------------------------------------------------------------------------
(* Interrupts *)

\* The PIC's lines other than the keyboard's, the timer first of all.
OtherIrq(n) ==
  /\ ~halted
  /\ n # Keyboard
  /\ IrqHandler(n)
  /\ UNCHANGED <<pc, hardware, lines, halted, ahead>>

\* The user waits for the prompt: the shell is in gets, and the console has
\* nothing left to do.
Prompted ==
  /\ waiting[Shell]
  /\ waiting[Console] /\ irqNo[Console] = Keyboard /\ hits[Console] = 0

\* The controller takes the next byte from the keyboard once the last one was
\* read, and raises IRQ 1.
KeyIrq(k) ==
  /\ ~halted
  /\ ~obf /\ presses < MaxKeys
  /\ port' = k
  /\ obf' = TRUE
  /\ presses' = presses + 1
  /\ ahead' = (ahead \/ (k = "enter" /\ ~Prompted))
  /\ IrqHandler(Keyboard)
  /\ UNCHANGED <<pc, lines, halted>>

Halted == halted /\ UNCHANGED vars

-----------------------------------------------------------------------------
\* The state at the sti of interrupts_init.  A byte may already be waiting in
\* the controller; its interrupt was raised before anyone listened.  The first
\* pass of console_task reads the port in any case.
KernelInit ==
  /\ TasksInit
  /\ pc = [t \in {Console, Shell} |-> IF t = Console THEN "init" ELSE "gets"]
  /\ port \in Key
  /\ obf \in BOOLEAN
  /\ presses = 0
  /\ sent = 0 /\ live = {} /\ held = NoLine
  /\ halted = FALSE
  /\ ahead = (port = "enter")

KernelNext ==
  \/ ConsoleStep
  \/ ShellStep
  \/ ManagerStep
  \/ \E n \in Irqs : OtherIrq(n)
  \/ \E k \in Key : KeyIrq(k)
  \/ Halted

KernelSpec == KernelInit /\ [][KernelNext]_vars

\* The timer never stops, and a task that gets the processor again and again
\* makes progress: a time slice is some ten milliseconds.
KernelFairness ==
  /\ WF_vars(OtherIrq(0))
  /\ SF_vars(ConsoleStep)
  /\ SF_vars(ShellStep)
  /\ SF_vars(ManagerStep)

FairKernelSpec == KernelSpec /\ KernelFairness

-----------------------------------------------------------------------------
KernelTypeOK ==
  /\ TasksTypeOK
  /\ pc \in [{Console, Shell} -> {"init", "read", "send", "wait", "gets", "take", "run"}]
  /\ pc[Console] \in {"init", "read", "send", "wait"}
  /\ pc[Shell] \in {"gets", "take", "run"}
  /\ port \in Key /\ obf \in BOOLEAN /\ presses \in 0..MaxKeys
  /\ sent \in 0..MaxLines /\ live \subseteq Lines /\ held \in Lines \cup {NoLine}
  /\ halted \in BOOLEAN /\ ahead \in BOOLEAN

\* The console parked in system call 3 with a line nobody asked for yet.
Parked == waiting[Console] /\ irqNo[Console] = LineTaken

\* Nothing but the return of int 0x80 in gets reads the eax that unblock_waiter
\* writes into a blocked task's saved frame: the task found there is the shell
\* and it is inside gets.
WaiterIsInGets ==
  \A t \in WaitersOn(LineReady) : t = Shell /\ pc[Shell] = "take"

\* A line whose publisher is parked is still allocated and has not been handed
\* out: it cannot be lost by, or freed under, the console waiting for its
\* reader.  "Parked in system call 3" is told from the wait at the top of the
\* loop by the console's place in its code.
ParkedLineIsFresh ==
  Parked /\ pc[Console] = "wait" =>
    /\ consoleData \in live
    /\ consoleData # held
    /\ ~(pc[Shell] = "take" /\ ~waiting[Shell] /\ eax[Shell] = consoleData)

\* The passes of console_task's loop that are already granted to it, against
\* the bytes it has not read: no byte waits without a pass to read it, and
\* there is never more than the one surplus pass that system call 1 grants at
\* the start ("to allow initial pass").  A console parked by an early Enter
\* forgets the hits it had.
PassesOwed ==
  hits[Console] + IF pc[Console] = "read" /\ ~waiting[Console] THEN 1 ELSE 0
BytesUnread == IF obf THEN 1 ELSE 0
PassesMatchBytes ==
  ~ahead /\ pc[Console] # "init" =>
    /\ BytesUnread <= PassesOwed
    /\ PassesOwed <= BytesUnread + 1

\* System call 2 waits "on IRQ (from sys1)": a console that waits at the top
\* of its loop waits for the keyboard.
WaitsOnRegisteredIrq ==
  waiting[Console] /\ pc[Console] = "read" => irqNo[Console] = Keyboard

\* As long as the user presses Enter at the prompt only, the console never waits
\* for anything but the keyboard: neither in system call 3 for a shell that may
\* be waiting for it, nor at the top of its loop for what system call 3 left in
\* waiting_irq_no.
WaitsOnKeyboard == ~ahead /\ waiting[Console] => irqNo[Console] = Keyboard

-----------------------------------------------------------------------------
(* What the properties above rest on: the invariant that every step keeps *)

\* A blocked task stands at the call that blocked it, and waits for what that
\* call waits for; a console that system call 3 once parked has no hits, since
\* no interrupt has the number that call left in waiting_irq_no.
BlockedInCall ==
  /\ ~waiting[Manager]
  /\ waiting[Shell] => pc[Shell] = "take" /\ irqNo[Shell] = LineReady
  /\ waiting[Console] =>
       \/ pc[Console] = "read"
       \/ pc[Console] = "wait" /\ irqNo[Console] = LineTaken
  /\ pc[Console] # "init" =>
       \/ irqNo[Console] = Keyboard
       \/ irqNo[Console] = LineTaken /\ hits[Console] = 0

\* Every handler wakes at most one task, and its own tasks_switch resumes it.
NoneLeftWoken == Woken(waiting, hits) = {}

\* The lines that are anywhere in the system are lines that were completed, and
\* the shell works on none while it asks for one.
LinesKnown ==
  /\ consoleData <= sent /\ eax[Shell] <= sent /\ held <= sent
  /\ \A l \in live : l <= sent
  /\ pc[Shell] # "run" => held = NoLine

\* As long as the user presses Enter at the prompt only: the shell waits from
\* the press until the line is published, the key is read by the one pass its
\* interrupt granted, and what the shell is resumed with is a line.
AtPrompt ==
  ~ahead =>
    /\ IF pc[Console] = "init" THEN port # "enter" ELSE irqNo[Console] = Keyboard
    /\ pc[Console] = "send" => waiting[Shell] /\ ~(obf /\ port = "enter")
    /\ port = "enter" => PassesOwed = BytesUnread /\ (obf => waiting[Shell])
    /\ pc[Shell] = "take" /\ ~waiting[Shell] => eax[Shell] # NoLine
    /\ pc[Shell] = "run" => held # NoLine

KernelInv ==
  /\ KernelTypeOK /\ SchedulerInv
  /\ BlockedInCall /\ NoneLeftWoken /\ LinesKnown
  /\ AtPrompt /\ ParkedLineIsFresh /\ PassesMatchBytes

-----------------------------------------------------------------------------
\* What excuses the system from going on: a program faulted, or the user did
\* not wait for the prompt.
Excused == halted \/ ahead

\* The lines reach the shell as LineChannel says, each once and in order, as
\* long as the user waits for the prompt.
Box == IF pc[Shell] = "take" /\ ~waiting[Shell] THEN eax[Shell]
       ELSE IF Parked THEN consoleData ELSE NoLine
Channel == INSTANCE LineChannel WITH box <- Box
ChannelSafe ==
  Channel!Init /\ [][~ahead' => [Channel!Next]_Channel!channel]_vars

\* A byte in the controller is eventually read.
BytesAreRead == []<>(~obf \/ Excused)

\* A line completed is taken and one taken is disposed of, as LineChannel says,
\* as long as the user waits for the prompt; and however the user types, every
\* line completed is freed in the end.
LinesGoOn ==
  /\ <>Excused \/ Channel!Progress
  /\ \A l \in Lines : l \in live ~> (l \notin live \/ halted)

\* The manager's display is redrawn again and again, however the user types.
ManagerRedraws == []<>(current = Manager \/ halted)

=============================================================================
