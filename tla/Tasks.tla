------------------------------- MODULE Tasks -------------------------------
(***************************************************************************)
(* The scheduler and the two interrupt handlers of daintree: task.c and    *)
(* the part of interrupts.c that runs with interrupts disabled             *)
(* (isr_handler for int 0x80, irq_handler for the PIC's lines).            *)
(*                                                                         *)
(* Every stub of interrupts.s begins with cli and ends with sti; iret, so  *)
(* a handler, the tasks_switch it ends in included, is one atomic action.  *)
(*                                                                         *)
(* The tasks are numbered by their place in the list "tasks".  add_task    *)
(* pushes at the front and tasks_init adds "idle" before any other task,   *)
(* so idle is the last one, N.                                             *)
(*                                                                         *)
(* The specification at the end lets every task but idle make any system   *)
(* call in any order; module Kernel runs the real tasks on it.             *)
(***************************************************************************)
EXTENDS Integers

CONSTANTS
  N,          \* the number of tasks, idle included
  Irqs,       \* the interrupt lines that may fire
  Lines,      \* the strings that int 0x80 / eax = 3 may publish
  Naps,       \* the values of ebx given to int 0x80 / eax = 5
  Garbage,    \* what fresh, uninitialised heap memory may hold: any int; it
              \* matters whether it is an interrupt's number, and whether it is 0
  MaxHits     \* bound: an interrupt that would take a task over it is not taken

Keyboard  == 1    \* IRQ 1
LineReady == 33   \* 0x21: waits until the console has a line
SameNumber == 33  \* mutant of LineTaken
LineTaken == 32   \* 0x20: waits until the shell asks for the line
NoLine    == 0    \* an eax or a console_data that points to no line

ASSUME NAssumption == N \in Nat \ {0}
ASSUME IrqsAssumption == Irqs \subseteq 0..15
ASSUME LinesAssumption == Lines \subseteq Nat \ {0}
ASSUME NapsAssumption == Naps \subseteq Nat
ASSUME GarbageAssumption == Garbage \subseteq Nat

Task == 1..N
Idle == N

VARIABLES
  waiting,      \* task->waiting_irq
  irqNo,        \* task->waiting_irq_no
  hits,         \* task->waiting_irq_hits
  ticks,        \* task->waiting_ticks
  eax,          \* task->stack->eax, as far as it is a line
  current,      \* current_task
  consoleData   \* console_data

tvars == <<waiting, irqNo, hits, ticks, eax, current, consoleData>>

-----------------------------------------------------------------------------
(* tasks_switch *)

\* Mutant of Woken: the test of waiting_irq_hits is dropped.
WokenWithoutHits(w, h) == {t \in Task : w[t]}

\* The tasks the first loop of tasks_switch would return, given the fields
\* waiting_irq (w) and waiting_irq_hits (h) of all tasks.
Woken(w, h) == {t \in Task : w[t] /\ h[t] # 0}

\* The tasks its second loop would return; k is waiting_ticks.
Ready(w, k) == {t \in Task : ~w[t] /\ k[t] = 0}

\* Mutants of Rotation: the walk starts at the head of the list; it does not
\* come back to the head.
RotationFromHead(t) == t
RotationNoWrap(t) == IF t > current THEN t - current ELSE N

\* How many steps of current_task->next, wrapping to the head of the list,
\* lead from the current task to t: 1 for its successor, N for itself.
Rotation(t) == IF t > current THEN t - current ELSE t - current + N

\* A woken task is preferred, the first of the list.  Otherwise the list is
\* walked from the current task to the first one that is ready, and every
\* sleeping task passed loses a tick.  One lap is enough: see IdleReady.
TasksSwitch(w, h, k) ==
  \/ \E t \in Woken(w, h) :
       /\ \A u \in Woken(w, h) : t <= u
       /\ current' = t
       /\ waiting' = [w EXCEPT ![t] = FALSE]
       /\ hits' = [h EXCEPT ![t] = @ - 1]
       /\ ticks' = k
  \/ /\ Woken(w, h) = {}
     /\ \E t \in Ready(w, k) :
          /\ \A u \in Ready(w, k) : Rotation(t) <= Rotation(u)
          /\ current' = t
          /\ waiting' = w
          /\ hits' = h
          /\ ticks' = [u \in Task |-> IF ~w[u] /\ Rotation(u) < Rotation(t)
                                        THEN k[u] - 1 ELSE k[u]]

-----------------------------------------------------------------------------
(* isr_handler: int 0x80 made by the current task *)

\* The loop of unblock_console and unblock_waiter: t is the first task of the
\* list that waits on number no.
WaitersOn(no) == {t \in Task : waiting[t] /\ irqNo[t] = no}

FirstWaiter(t, no) == t \in WaitersOn(no) /\ \A u \in WaitersOn(no) : t <= u

\* The current task stops until some other task makes its hits non-zero.
BlockOn(no) ==
  /\ irqNo' = [irqNo EXCEPT ![current] = no]
  /\ TasksSwitch([waiting EXCEPT ![current] = TRUE],
                 [hits EXCEPT ![current] = 0], ticks)

\* Mutant of Unblock: waiting_irq_hits is not set.
UnblockNot(t) == UNCHANGED irqNo /\ TasksSwitch(waiting, hits, ticks)

\* Task t, blocked, gets its one hit; the caller stays runnable.
Unblock(t) ==
  /\ UNCHANGED irqNo
  /\ TasksSwitch(waiting, [hits EXCEPT ![t] = 1], ticks)

\* eax = 1: register for an interrupt line, with one hit for a first pass.
SysRegister(irq) ==
  /\ irqNo' = [irqNo EXCEPT ![current] = irq]
  /\ TasksSwitch([waiting EXCEPT ![current] = TRUE],
                 [hits EXCEPT ![current] = 1], ticks)
  /\ UNCHANGED <<eax, consoleData>>

\* Mutant of SysWait: the hits are reset, as system calls 3 and 4 do.
SysWaitForgets ==
  /\ TasksSwitch([waiting EXCEPT ![current] = TRUE],
                 [hits EXCEPT ![current] = 0], ticks)
  /\ UNCHANGED <<irqNo, eax, consoleData>>

\* eax = 2: wait on the line registered before.
SysWait ==
  /\ TasksSwitch([waiting EXCEPT ![current] = TRUE], hits, ticks)
  /\ UNCHANGED <<irqNo, eax, consoleData>>

\* Mutants of SysPutLine: the caller parks also when a task was waiting; it is
\* marked as parked although it is not.
SysPutAndPark(line) ==
  consoleData' = line /\ UNCHANGED eax /\ BlockOn(LineTaken)
SysPutMarked(line) ==
  /\ consoleData' = line
  /\ irqNo' = [irqNo EXCEPT ![current] = LineTaken]
  /\ \E t \in Task :
       /\ FirstWaiter(t, LineReady)
       /\ eax' = [eax EXCEPT ![t] = line]
       /\ TasksSwitch(waiting, [hits EXCEPT ![t] = 1], ticks)

\* eax = 3: publish a line, into the saved eax of a task waiting for one if
\* there is such a task; otherwise wait for somebody to ask.
SysPutLine(line) ==
  /\ consoleData' = line
  /\ \/ \E t \in Task :
          /\ FirstWaiter(t, LineReady)
          /\ eax' = [eax EXCEPT ![t] = line]
          /\ Unblock(t)
     \/ /\ WaitersOn(LineReady) = {}
        /\ UNCHANGED eax
        /\ BlockOn(LineTaken)

\* eax = 4: take the published line if its publisher waits for that;
\* otherwise wait for a line.  A caller that blocks has no line in eax.
SysGetLine ==
  /\ UNCHANGED consoleData
  /\ \/ \E t \in Task :
          /\ FirstWaiter(t, LineTaken)
          /\ eax' = [eax EXCEPT ![current] = consoleData]
          /\ Unblock(t)
     \/ /\ WaitersOn(LineTaken) = {}
        /\ eax' = [eax EXCEPT ![current] = NoLine]
        /\ BlockOn(LineReady)

\* eax = 5: sleep.
SysSleep(n) ==
  /\ TasksSwitch(waiting, hits, [ticks EXCEPT ![current] = n])
  /\ UNCHANGED <<irqNo, eax, consoleData>>

-----------------------------------------------------------------------------
(* irq_handler: the PIC raises line n *)

\* Mutant of IrqHandler: the hits say which line came last, uncounted.
IrqHandlerLast(n) ==
  /\ TasksSwitch(waiting, [t \in Task |-> IF irqNo[t] = n THEN 1 ELSE 0], ticks)
  /\ UNCHANGED <<irqNo, eax, consoleData>>

IrqHandler(n) ==
  /\ TasksSwitch(waiting,
                 [t \in Task |-> IF irqNo[t] # 0 /\ irqNo[t] = n
                                   THEN hits[t] + 1 ELSE hits[t]],
                 ticks)
  /\ UNCHANGED <<irqNo, eax, consoleData>>

-----------------------------------------------------------------------------
(* Any tasks at all on this kernel *)

\* The state at the sti of interrupts_init.  create_task sets waiting_irq and
\* waiting_ticks and leaves the other two fields as malloc returned them.
TasksInit ==
  /\ waiting = [t \in Task |-> FALSE]
  /\ irqNo \in [Task -> Garbage]
  /\ hits \in [Task -> Garbage]
  /\ ticks = [t \in Task |-> 0]
  /\ eax = [t \in Task |-> NoLine]
  /\ current = Idle
  /\ consoleData = NoLine

\* Mutant of Syscall: idle sleeps like any other task.
SyscallByIdle == \E n \in Naps : SysSleep(n)

\* idle only halts (the loop at the end of entry_continue).
Syscall ==
  /\ current # Idle
  /\ \/ \E irq \in Irqs : SysRegister(irq)
     \/ SysWait
     \/ \E line \in Lines : SysPutLine(line)
     \/ SysGetLine
     \/ \E n \in Naps : SysSleep(n)

Interrupt ==
  \E n \in Irqs :
    /\ \A t \in Task : n # 0 /\ irqNo[t] = n => hits[t] < MaxHits
    /\ IrqHandler(n)

TasksNext == Syscall \/ Interrupt

TasksSpec == TasksInit /\ [][TasksNext]_tvars

-----------------------------------------------------------------------------
TasksTypeOK ==
  /\ waiting \in [Task -> BOOLEAN]
  /\ irqNo \in [Task -> Nat]
  /\ hits \in [Task -> Nat]
  /\ ticks \in [Task -> Nat]
  /\ eax \in [Task -> Lines \cup {NoLine}]
  /\ current \in Task
  /\ consoleData \in Lines \cup {NoLine}

\* idle never waits and never sleeps, whatever the other tasks do, so the
\* "while (1)" of tasks_switch, which runs with interrupts disabled and has
\* no other way out, returns within one lap of the list.
IdleReady == Idle \in Ready(waiting, ticks)

\* tasks_switch never resumes a task that is still blocked or asleep, also
\* not through the loop that looks at waiting_irq_hits only: no task is ever
\* blocked and asleep at once.
CurrentReady ==
  /\ current \in Ready(waiting, ticks)
  /\ \A t \in Task : waiting[t] => ticks[t] = 0

\* The three together are what every system call and interrupt keeps.  The last
\* two are not kept apart: system calls 1 to 4 block their caller, which must not
\* be asleep, and the walk of tasks_switch is known to end because idle is ready.
SchedulerInv == TasksTypeOK /\ IdleReady /\ CurrentReady

\* Sleepers age by the walk of the list, not by the clock: what is called or
\* interrupted in task c ages only the sleepers after c in the list, all of
\* them only if c is idle, and by one tick at most.
SleepersAge ==
  [][\A t \in Task : ticks'[t] < ticks[t] =>
       /\ ticks'[t] = ticks[t] - 1
       /\ current = Idle \/ t > current]_tvars

\* A wake-up is never lost: a blocked task with hits keeps hits, and stays
\* blocked, until tasks_switch resumes it, whatever other tasks and interrupts
\* do to the fields of the tasks in the meantime.
HitsWake ==
  [][\A t \in Task : waiting[t] /\ hits[t] # 0 =>
       \/ waiting'[t] /\ hits'[t] # 0
       \/ ~waiting'[t] /\ current' = t]_tvars

=============================================================================
