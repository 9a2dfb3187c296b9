---------------------------- MODULE KernelProofs ----------------------------
(***************************************************************************)
(* Theorems about modules Tasks, Kernel and KernelSleep, for every number  *)
(* of tasks, keys pressed at any time and any number of them, every set of *)
(* interrupt lines, naps and numbers of ticks to sleep, and whatever       *)
(* malloc left in the fields that create_task does not set.                *)
(***************************************************************************)
EXTENDS KernelSleep, TLAPS

-----------------------------------------------------------------------------
(* Tasks *)

\* What tasks_switch is given by every handler.
SwitchPre(w, h, k) ==
  /\ w \in [Task -> BOOLEAN]
  /\ h \in [Task -> Nat]
  /\ k \in [Task -> Nat]
  /\ ~w[Idle] /\ k[Idle] = 0
  /\ \A t \in Task : w[t] => k[t] = 0

\* What it leaves.
SwitchPost(w, h, k) ==
  /\ current' \in Task
  /\ waiting' \in [Task -> BOOLEAN]
  /\ hits' \in [Task -> Nat]
  /\ ticks' \in [Task -> Nat]
  /\ IdleReady'
  /\ CurrentReady'

\* idle is a task: the list of tasks is never empty.
LEMMA IdleIsTask == Idle \in Task
BY NAssumption DEF Idle, Task

\* A walk of tasks_switch passes no task that it could resume: no tick is
\* taken from a task that has none left.
LEMMA SwitchWakes ==
  ASSUME NEW w, NEW h, NEW k, SwitchPre(w, h, k), current \in Task,
         NEW t \in Woken(w, h), current' = t,
         waiting' = [w EXCEPT ![t] = FALSE],
         hits' = [h EXCEPT ![t] = @ - 1], ticks' = k
  PROVE  SwitchPost(w, h, k)
<1>1. t \in Task /\ w[t] /\ h[t] # 0 /\ t # Idle /\ k[t] = 0
  BY DEF Woken, SwitchPre
<1>2. waiting' \in [Task -> BOOLEAN]
  BY <1>1 DEF SwitchPre
<1>3. hits' \in [Task -> Nat]
  <2>1. h[t] - 1 \in Nat
    BY <1>1 DEF SwitchPre
  <2> QED
    BY <1>1, <2>1 DEF SwitchPre
<1>4. \A u \in Task : ~w[u] => ~waiting'[u]
  BY <1>1 DEF SwitchPre
<1>5. \A u \in Task : waiting'[u] => w[u]
  BY <1>1 DEF SwitchPre
<1>6. ~waiting'[t]
  BY <1>1 DEF SwitchPre
<1>7. IdleReady'
  BY <1>4, IdleIsTask DEF IdleReady, Ready, SwitchPre, Idle, Task
<1>8. CurrentReady'
  BY <1>1, <1>5, <1>6 DEF CurrentReady, Ready, SwitchPre, Task
<1> QED
  BY <1>1, <1>2, <1>3, <1>7, <1>8 DEF SwitchPost, SwitchPre

\* tasks_switch keeps what SwitchPre says when it walks the list: the walk
\* ends, and ages only tasks with ticks left.
LEMMA SwitchWalks ==
  ASSUME NEW w, NEW h, NEW k, SwitchPre(w, h, k), current \in Task,
         NEW t \in Ready(w, k), current' = t,
         \A u \in Ready(w, k) : Rotation(t) <= Rotation(u),
         waiting' = w, hits' = h,
         ticks' = [u \in Task |-> IF ~w[u] /\ Rotation(u) < Rotation(t)
                                    THEN k[u] - 1 ELSE k[u]]
  PROVE  SwitchPost(w, h, k)
<1>0. \A u \in Task : Rotation(u) \in Int
  BY NAssumption DEF Rotation, Task
<1>1. t \in Task /\ ~w[t] /\ k[t] = 0
  BY DEF Ready
<1>2. ASSUME NEW u \in Task, ~w[u], Rotation(u) < Rotation(t)
      PROVE  k[u] # 0
  <2>1. SUFFICES ASSUME k[u] = 0 PROVE FALSE
    OBVIOUS
  <2>2. u \in Ready(w, k)
    BY <1>2, <2>1 DEF Ready
  <2> QED
    BY <1>0, <1>1, <1>2, <2>2
<1>3. ASSUME NEW u \in Task
      PROVE  ticks'[u] \in Nat /\ (k[u] = 0 => ticks'[u] = 0)
  <2>1. k[u] \in Nat
    BY DEF SwitchPre
  <2>2. CASE ~w[u] /\ Rotation(u) < Rotation(t)
    <3>1. ticks'[u] = k[u] - 1 /\ k[u] # 0
      BY <1>2, <2>2
    <3> QED
      BY <2>1, <3>1
  <2>3. CASE ~(~w[u] /\ Rotation(u) < Rotation(t))
    BY <2>1, <2>3
  <2> QED
    BY <2>2, <2>3
<1>4. ticks' \in [Task -> Nat]
  <2>1. \A u \in Task : ticks'[u] \in Nat
    BY <1>3
  <2> QED
    BY <2>1
<1>5. IdleReady'
  BY <1>3, IdleIsTask DEF IdleReady, Ready, SwitchPre, Idle, Task
<1>6. CurrentReady'
  BY <1>1, <1>3 DEF CurrentReady, Ready, SwitchPre, Task
<1> QED
  BY <1>1, <1>4, <1>5, <1>6 DEF SwitchPost, SwitchPre

\* Both ways through tasks_switch lead from SwitchPre to SwitchPost.
LEMMA SwitchKeeps ==
  ASSUME NEW w, NEW h, NEW k, SwitchPre(w, h, k), current \in Task,
         TasksSwitch(w, h, k)
  PROVE  SwitchPost(w, h, k)
BY SwitchWakes, SwitchWalks DEF TasksSwitch

-----------------------------------------------------------------------------
\* The arguments the handlers give tasks_switch.

\* The fields of the tasks as they are are fit for tasks_switch.
LEMMA PreUnchanged ==
  ASSUME SchedulerInv PROVE SwitchPre(waiting, hits, ticks)
BY DEF SchedulerInv, TasksTypeOK, IdleReady, CurrentReady, Ready, SwitchPre

\* The current task, not idle and not asleep, may be blocked with any hits.
LEMMA PreBlocked ==
  ASSUME SchedulerInv, current # Idle, NEW h \in [Task -> Nat]
  PROVE  SwitchPre([waiting EXCEPT ![current] = TRUE], h, ticks)
BY DEF SchedulerInv, TasksTypeOK, IdleReady, CurrentReady, Ready, SwitchPre

\* So are they once the current task, not idle, was put to sleep.
LEMMA PreAsleep ==
  ASSUME SchedulerInv, current # Idle, NEW n \in Nat
  PROVE  SwitchPre(waiting, hits, [ticks EXCEPT ![current] = n])
BY DEF SchedulerInv, TasksTypeOK, IdleReady, CurrentReady, Ready, SwitchPre

\* So are they whatever hits the tasks were given.
LEMMA PreHits ==
  ASSUME SchedulerInv, NEW h \in [Task -> Nat]
  PROVE  SwitchPre(waiting, h, ticks)
BY DEF SchedulerInv, TasksTypeOK, IdleReady, CurrentReady, Ready, SwitchPre

\* A handler that ends in tasks_switch keeps SchedulerInv if what it wrote itself has
\* its type.
LEMMA SwitchKeepsIInv ==
  ASSUME NEW w, NEW h, NEW k, SchedulerInv, SwitchPre(w, h, k), TasksSwitch(w, h, k),
         irqNo' \in [Task -> Nat], eax' \in [Task -> Lines \cup {NoLine}],
         consoleData' \in Lines \cup {NoLine}
  PROVE  SchedulerInv'
<1>1. current \in Task
  BY DEF SchedulerInv, TasksTypeOK
<1>2. SwitchPost(w, h, k)
  BY <1>1, SwitchKeeps
<1> QED
  BY <1>2 DEF SwitchPost, SchedulerInv, TasksTypeOK, Task

-----------------------------------------------------------------------------
\* The state at the sti of interrupts_init satisfies the invariant.
LEMMA InitIInv == TasksInit => SchedulerInv
<1> SUFFICES ASSUME TasksInit PROVE SchedulerInv
  OBVIOUS
<1>1. TasksTypeOK
  BY GarbageAssumption, IdleIsTask DEF TasksInit, TasksTypeOK
<1>2. IdleReady /\ CurrentReady
  BY IdleIsTask DEF TasksInit, IdleReady, CurrentReady, Ready
<1> QED
  BY <1>1, <1>2 DEF SchedulerInv

\* Each of the five system calls keeps the invariant.
LEMMA SyscallIInv ==
  ASSUME SchedulerInv, Syscall PROVE SchedulerInv'
<1> USE DEF Syscall
<1>0. /\ current # Idle /\ current \in Task
      /\ hits \in [Task -> Nat] /\ irqNo \in [Task -> Nat]
      /\ eax \in [Task -> Lines \cup {NoLine}]
      /\ consoleData \in Lines \cup {NoLine}
  BY DEF SchedulerInv, TasksTypeOK
<1>1. ASSUME NEW irq \in Irqs, SysRegister(irq) PROVE SchedulerInv'
  <2>1. irq \in Nat
    BY IrqsAssumption
  <2>2. [hits EXCEPT ![current] = 1] \in [Task -> Nat]
    BY <1>0
  <2>3. irqNo' \in [Task -> Nat]
    BY <1>0, <1>1, <2>1 DEF SysRegister
  <2> QED
    BY <1>0, <1>1, <2>2, <2>3, PreBlocked, SwitchKeepsIInv DEF SysRegister
<1>2. CASE SysWait
  BY <1>0, <1>2, PreBlocked, SwitchKeepsIInv DEF SysWait
<1>3. ASSUME NEW no \in Nat, BlockOn(no),
             eax' \in [Task -> Lines \cup {NoLine}],
             consoleData' \in Lines \cup {NoLine}
      PROVE  SchedulerInv'
  <2>1. [hits EXCEPT ![current] = 0] \in [Task -> Nat]
    BY <1>0
  <2>2. irqNo' \in [Task -> Nat]
    BY <1>0, <1>3 DEF BlockOn
  <2> QED
    BY <1>0, <1>3, <2>1, <2>2, PreBlocked, SwitchKeepsIInv DEF BlockOn
<1>4. ASSUME NEW t \in Task, Unblock(t),
             eax' \in [Task -> Lines \cup {NoLine}],
             consoleData' \in Lines \cup {NoLine}
      PROVE  SchedulerInv'
  <2>1. [hits EXCEPT ![t] = 1] \in [Task -> Nat]
    BY <1>0
  <2> QED
    BY <1>0, <1>4, <2>1, PreHits, SwitchKeepsIInv DEF Unblock
<1>5. ASSUME NEW line \in Lines, SysPutLine(line) PROVE SchedulerInv'
  <2>1. consoleData' \in Lines \cup {NoLine}
    BY <1>5 DEF SysPutLine
  <2>2. ASSUME NEW t \in Task, eax' = [eax EXCEPT ![t] = line], Unblock(t)
        PROVE  SchedulerInv'
    BY <1>0, <1>4, <2>1, <2>2
  <2>3. ASSUME eax' = eax, BlockOn(LineTaken) PROVE SchedulerInv'
    BY <1>0, <1>3, <2>1, <2>3 DEF LineTaken
  <2> QED
    BY <1>5, <2>2, <2>3 DEF SysPutLine
<1>6. CASE SysGetLine
  <2>1. consoleData' \in Lines \cup {NoLine}
    BY <1>0, <1>6 DEF SysGetLine
  <2>2. ASSUME NEW t \in Task, eax' = [eax EXCEPT ![current] = consoleData],
               Unblock(t)
        PROVE  SchedulerInv'
    BY <1>0, <1>4, <2>1, <2>2
  <2>3. ASSUME eax' = [eax EXCEPT ![current] = NoLine], BlockOn(LineReady)
        PROVE  SchedulerInv'
    BY <1>0, <1>3, <2>1, <2>3 DEF LineReady
  <2> QED
    BY <1>6, <2>2, <2>3 DEF SysGetLine
<1>7. ASSUME NEW n \in Naps, SysSleep(n) PROVE SchedulerInv'
  BY <1>0, <1>7, NapsAssumption, PreAsleep, SwitchKeepsIInv DEF SysSleep
<1> QED
  BY <1>1, <1>2, <1>5, <1>6, <1>7

\* irq_handler keeps the invariant, whatever the line.
LEMMA IrqHandlerIInv ==
  ASSUME SchedulerInv, NEW n \in Irqs, IrqHandler(n) PROVE SchedulerInv'
<1> DEFINE h == [t \in Task |-> IF irqNo[t] # 0 /\ irqNo[t] = n
                                  THEN hits[t] + 1 ELSE hits[t]]
<1>1. h \in [Task -> Nat]
  BY DEF SchedulerInv, TasksTypeOK
<1>2. TasksSwitch(waiting, h, ticks) /\ UNCHANGED <<irqNo, eax, consoleData>>
  BY DEF IrqHandler
<1>3. SwitchPre(waiting, h, ticks)
  BY <1>1, PreHits
<1>4. /\ irqNo' \in [Task -> Nat]
      /\ eax' \in [Task -> Lines \cup {NoLine}]
      /\ consoleData' \in Lines \cup {NoLine}
  BY <1>2 DEF SchedulerInv, TasksTypeOK
<1> HIDE DEF h
<1> QED
  BY <1>2, <1>3, <1>4, SwitchKeepsIInv

\* So do the interrupts that may come.
LEMMA InterruptIInv ==
  ASSUME SchedulerInv, Interrupt PROVE SchedulerInv'
BY IrqHandlerIInv DEF Interrupt

\* The invariant speaks of the tasks' fields only.
LEMMA StutterIInv ==
  ASSUME SchedulerInv, UNCHANGED tvars PROVE SchedulerInv'
BY DEF SchedulerInv, TasksTypeOK, IdleReady, CurrentReady, Ready, tvars, Task, Idle

\* tasks_switch always returns, to a task that is neither blocked nor asleep,
\* whatever system calls and interrupts came before.
THEOREM Inductive == TasksSpec => []SchedulerInv
<1>1. SchedulerInv /\ [TasksNext]_tvars => SchedulerInv'
  BY SyscallIInv, InterruptIInv, StutterIInv DEF TasksNext
<1> QED
  BY <1>1, InitIInv, PTL DEF TasksSpec

\* The fields of the tasks, the current task and the published line always
\* hold what task.c and interrupts.c take them to hold; in particular a walk
\* of tasks_switch never takes a tick from a task that has none.
THEOREM TypeCorrect == TasksSpec => []TasksTypeOK
<1>1. SchedulerInv => TasksTypeOK
  BY DEF SchedulerInv
<1> QED
  BY <1>1, Inductive, PTL

\* The while (1) of tasks_switch always finds a task to return.
THEOREM SwitchReturns == TasksSpec => []IdleReady
<1>1. SchedulerInv => IdleReady
  BY DEF SchedulerInv
<1> QED
  BY <1>1, Inductive, PTL

\* The task tasks_switch returns is neither blocked nor asleep.
THEOREM ResumesReady == TasksSpec => []CurrentReady
<1>1. SchedulerInv => CurrentReady
  BY DEF SchedulerInv
<1> QED
  BY <1>1, Inductive, PTL

-----------------------------------------------------------------------------
(* What one step may do to the sleepers and to the blocked tasks *)

\* Only tasks after the current one are passed, unless idle is the current one.
LEMMA SwitchAges ==
  ASSUME NEW w, NEW h, NEW k, SwitchPre(w, h, k), current \in Task,
         TasksSwitch(w, h, k), NEW u \in Task
  PROVE  \/ ticks'[u] = k[u]
         \/ ticks'[u] = k[u] - 1 /\ (current = Idle \/ u > current)
<1>1. CASE ticks' = k
  BY <1>1
<1>2. ASSUME NEW t \in Ready(w, k),
             \A v \in Ready(w, k) : Rotation(t) <= Rotation(v),
             ticks' = [v \in Task |-> IF ~w[v] /\ Rotation(v) < Rotation(t)
                                        THEN k[v] - 1 ELSE k[v]]
      PROVE  \/ ticks'[u] = k[u]
             \/ ticks'[u] = k[u] - 1 /\ (current = Idle \/ u > current)
  <2>1. SUFFICES ASSUME Rotation(u) < Rotation(t)
                 PROVE  current = Idle \/ u > current
    BY <1>2
  <2>2. Idle \in Ready(w, k) /\ t \in Task
    BY IdleIsTask DEF Ready, SwitchPre
  <2>3. Rotation(t) <= Rotation(Idle)
    BY <1>2, <2>2
  <2> QED
    BY <2>1, <2>2, <2>3, NAssumption DEF Rotation, Idle, Task
<1> QED
  BY <1>1, <1>2 DEF TasksSwitch

\* tasks_switch takes hits only from the task it resumes.
LEMMA SwitchSpendsHits ==
  ASSUME NEW w, NEW h, NEW k, SwitchPre(w, h, k), TasksSwitch(w, h, k),
         NEW u \in Woken(w, h)
  PROVE  \/ waiting'[u] /\ hits'[u] # 0
         \/ ~waiting'[u] /\ current' = u
<1>1. u \in Task /\ w[u] /\ h[u] # 0
  BY DEF Woken
<1>2. PICK t \in Woken(w, h) : /\ current' = t
                              /\ waiting' = [w EXCEPT ![t] = FALSE]
                              /\ hits' = [h EXCEPT ![t] = @ - 1]
  BY DEF TasksSwitch
<1>3. CASE u = t
  BY <1>1, <1>2, <1>3 DEF SwitchPre
<1>4. CASE u # t
  BY <1>1, <1>2, <1>4 DEF SwitchPre
<1> QED
  BY <1>3, <1>4

\* What ends in tasks_switch without having put a task to sleep.
Handler ==
  \/ /\ current # Idle
     /\ \/ \E irq \in Irqs : SysRegister(irq)
        \/ SysWait
        \/ \E line \in Lines : SysPutLine(line)
        \/ SysGetLine
  \/ \E n \in Irqs : IrqHandler(n)

\* It gives tasks_switch the blocked tasks as they are, but for hits it adds and
\* a caller it blocks.
LEMMA HandlerSwitches ==
  ASSUME SchedulerInv, Handler
  PROVE  \E w, h :
           /\ SwitchPre(w, h, ticks)
           /\ TasksSwitch(w, h, ticks)
           /\ \A t \in Task : waiting[t] /\ hits[t] # 0 => w[t] /\ h[t] # 0
<1> DEFINE P(w, h) ==
      /\ SwitchPre(w, h, ticks)
      /\ TasksSwitch(w, h, ticks)
      /\ \A t \in Task : waiting[t] /\ hits[t] # 0 => w[t] /\ h[t] # 0
    G == \E w, h : P(w, h)
<1>0. /\ current \in Task /\ ~waiting[current] /\ ticks[current] = 0
      /\ waiting \in [Task -> BOOLEAN]
      /\ hits \in [Task -> Nat] /\ ticks \in [Task -> Nat]
  BY DEF SchedulerInv, TasksTypeOK, CurrentReady, Ready
<1>1. ASSUME current # Idle, NEW h \in [Task -> Nat],
             \A t \in Task : t # current => h[t] = hits[t],
             TasksSwitch([waiting EXCEPT ![current] = TRUE], h, ticks)
      PROVE  G
  <2>1. P([waiting EXCEPT ![current] = TRUE], h)
    BY <1>0, <1>1, PreBlocked
  <2> QED
    BY <2>1
<1>2. ASSUME NEW h \in [Task -> Nat],
             \A t \in Task : hits[t] # 0 => h[t] # 0,
             TasksSwitch(waiting, h, ticks)
      PROVE  G
  <2>1. P(waiting, h)
    BY <1>0, <1>2, PreHits
  <2> QED
    BY <2>1
<1> HIDE DEF G
<1>4. ASSUME current # Idle, NEW no, BlockOn(no) PROVE G
  BY <1>0, <1>1, <1>4 DEF BlockOn
<1>5. ASSUME NEW t \in Task, Unblock(t) PROVE G
  <2>1. [hits EXCEPT ![t] = 1] \in [Task -> Nat]
    BY <1>0
  <2>2. \A u \in Task : hits[u] # 0 => [hits EXCEPT ![t] = 1][u] # 0
    BY <1>0
  <2> QED
    BY <1>2, <1>5, <2>1, <2>2 DEF Unblock
<1>6. ASSUME current # Idle, NEW irq, SysRegister(irq) PROVE G
  BY <1>0, <1>1, <1>6 DEF SysRegister
<1>7. ASSUME current # Idle, SysWait PROVE G
  BY <1>0, <1>1, <1>7 DEF SysWait
<1>8. ASSUME current # Idle, NEW line, SysPutLine(line) PROVE G
  BY <1>4, <1>5, <1>8 DEF SysPutLine
<1>9. ASSUME current # Idle, SysGetLine PROVE G
  BY <1>4, <1>5, <1>9 DEF SysGetLine
<1>10. ASSUME NEW n \in Irqs, IrqHandler(n) PROVE G
  <2> DEFINE h == [t \in Task |-> IF irqNo[t] # 0 /\ irqNo[t] = n
                                    THEN hits[t] + 1 ELSE hits[t]]
  <2>1. h \in [Task -> Nat] /\ \A t \in Task : hits[t] # 0 => h[t] # 0
    BY <1>0
  <2> QED
    BY <1>2, <1>10, <2>1 DEF IrqHandler
<1>11. G
  BY <1>6, <1>7, <1>8, <1>9, <1>10 DEF Handler
<1> QED
  BY <1>11 DEF G

\* Every step of the specification that is not a stutter is a call of
\* tasks_switch; its arguments leave the blocked tasks as they are, but for
\* hits they add, and put at most the current task to sleep.
LEMMA StepSwitches ==
  ASSUME SchedulerInv, TasksNext
  PROVE  \E w, h, k :
           /\ SwitchPre(w, h, k)
           /\ TasksSwitch(w, h, k)
           /\ \A t \in Task : waiting[t] /\ hits[t] # 0 => w[t] /\ h[t] # 0
           /\ \A t \in Task : ticks[t] = k[t] \/ (t = current /\ ticks[t] = 0 /\ k[t] \in Nat)
<1>1. CASE Handler
  BY <1>1, HandlerSwitches
<1>2. ASSUME current # Idle, NEW n \in Naps, SysSleep(n)
      PROVE  \E w, h, k :
               /\ SwitchPre(w, h, k)
               /\ TasksSwitch(w, h, k)
               /\ \A t \in Task : waiting[t] /\ hits[t] # 0 => w[t] /\ h[t] # 0
               /\ \A t \in Task : ticks[t] = k[t] \/ (t = current /\ ticks[t] = 0 /\ k[t] \in Nat)
  <2> DEFINE k == [ticks EXCEPT ![current] = n]
  <2>1. n \in Nat
    BY NapsAssumption
  <2>2. SwitchPre(waiting, hits, k) /\ TasksSwitch(waiting, hits, k)
    BY <1>2, <2>1, PreAsleep DEF SysSleep
  <2>3. \A t \in Task : ticks[t] = k[t] \/ (t = current /\ ticks[t] = 0 /\ k[t] \in Nat)
    BY <2>1 DEF SchedulerInv, TasksTypeOK, CurrentReady, Ready
  <2> HIDE DEF k
  <2> QED
    BY <2>2, <2>3
<1> QED
  BY <1>1, <1>2 DEF TasksNext, Syscall, Interrupt, Handler

\* Sleeping tasks lose ticks one at a time, and only to what happens while
\* idle, or a task before them in the list, is the current task.
THEOREM Ageing == TasksSpec => SleepersAge
<1>1. SchedulerInv /\ [TasksNext]_tvars =>
        [\A t \in Task : ticks'[t] < ticks[t] =>
           /\ ticks'[t] = ticks[t] - 1
           /\ current = Idle \/ t > current]_tvars
  <2>1. SUFFICES ASSUME SchedulerInv, TasksNext, NEW t \in Task, ticks'[t] < ticks[t]
                 PROVE  /\ ticks'[t] = ticks[t] - 1
                        /\ current = Idle \/ t > current
    OBVIOUS
  <2>2. PICK w, h, k :
          /\ SwitchPre(w, h, k)
          /\ TasksSwitch(w, h, k)
          /\ ticks[t] = k[t] \/ (t = current /\ ticks[t] = 0 /\ k[t] \in Nat)
    BY <2>1, StepSwitches
  <2>3. current \in Task /\ ticks[t] \in Nat
    BY <2>1 DEF SchedulerInv, TasksTypeOK
  <2>4. SchedulerInv'
    BY <2>1, SyscallIInv, InterruptIInv DEF TasksNext
  <2>5. ticks'[t] \in Nat
    BY <2>4 DEF SchedulerInv, TasksTypeOK
  <2>6. ticks[t] = k[t]
    BY <2>1, <2>2, <2>3, <2>5
  <2>7. \/ ticks'[t] = k[t]
        \/ ticks'[t] = k[t] - 1 /\ (current = Idle \/ t > current)
    BY <2>2, <2>3, SwitchAges
  <2> QED
    BY <2>1, <2>3, <2>6, <2>7
<1> QED
  BY <1>1, Inductive, PTL DEF TasksSpec, SleepersAge

\* No wake-up of a blocked task is lost.
THEOREM WakeUpsKept == TasksSpec => HitsWake
<1>1. SchedulerInv /\ [TasksNext]_tvars =>
        [\A t \in Task : waiting[t] /\ hits[t] # 0 =>
           \/ waiting'[t] /\ hits'[t] # 0
           \/ ~waiting'[t] /\ current' = t]_tvars
  <2>1. SUFFICES ASSUME SchedulerInv, TasksNext, NEW t \in Task, waiting[t], hits[t] # 0
                 PROVE  \/ waiting'[t] /\ hits'[t] # 0
                        \/ ~waiting'[t] /\ current' = t
    OBVIOUS
  <2>2. PICK w, h, k :
          SwitchPre(w, h, k) /\ TasksSwitch(w, h, k) /\ w[t] /\ h[t] # 0
    BY <2>1, StepSwitches
  <2>3. t \in Woken(w, h)
    BY <2>2 DEF Woken
  <2> QED
    BY <2>2, <2>3, SwitchSpendsHits
<1> QED
  BY <1>1, Inductive, PTL DEF TasksSpec, HitsWake

-----------------------------------------------------------------------------
(* The two ways through tasks_switch *)

\* One task is woken: it is the next to run, and nobody ages.
LEMMA SwitchToWoken ==
  ASSUME NEW w, NEW h, NEW k, NEW t, Woken(w, h) = {t}, TasksSwitch(w, h, k)
  PROVE  /\ current' = t
         /\ waiting' = [w EXCEPT ![t] = FALSE]
         /\ hits' = [h EXCEPT ![t] = @ - 1]
         /\ ticks' = k
BY DEF TasksSwitch

\* Nobody is woken: the next to run is the first ready task of the walk.
LEMMA SwitchByWalk ==
  ASSUME NEW w, NEW h, NEW k, Woken(w, h) = {}, TasksSwitch(w, h, k)
  PROVE  /\ waiting' = w
         /\ hits' = h
         /\ current' \in Ready(w, k)
         /\ \A u \in Ready(w, k) : Rotation(current') <= Rotation(u)
BY DEF TasksSwitch

-----------------------------------------------------------------------------
(* What each action does to the fields of the tasks *)

\* The four tasks of the running system.
LEMMA TheTasks ==
  /\ Task = {Manager, Shell, Console, Idle}
  /\ Manager = 1 /\ Shell = 2 /\ Console = 3 /\ Idle = 4 /\ N = 4
BY KernelAssumption DEF Task, Manager, Shell, Console, Idle

\* What the invariant says of the fields of the tasks.
LEMMA FieldTypes ==
  ASSUME KernelInv
  PROVE  /\ waiting \in [Task -> BOOLEAN] /\ irqNo \in [Task -> Nat]
         /\ hits \in [Task -> Nat] /\ ticks \in [Task -> Nat]
         /\ eax \in [Task -> Lines \cup {NoLine}]
         /\ current \in Task /\ ~waiting[current] /\ ~waiting[Idle]
         /\ \A t \in Task : waiting[t] => hits[t] = 0
BY TheTasks DEF KernelInv, SchedulerInv, TasksTypeOK, IdleReady, CurrentReady, Ready,
   NoneLeftWoken, Woken

\* System call 1 of console_task returns at once.
LEMMA ConsoleInitDoes ==
  ASSUME KernelInv, ConsoleInit
  PROVE  /\ current' = Console /\ waiting' = waiting /\ ticks' = ticks
         /\ hits' = [hits EXCEPT ![Console] = 0]
         /\ irqNo' = [irqNo EXCEPT ![Console] = Keyboard]
         /\ UNCHANGED <<eax, consoleData>>
<1> DEFINE w == [waiting EXCEPT ![Console] = TRUE]
           h == [hits EXCEPT ![Console] = 1]
<1>1. current = Console /\ SysRegister(Keyboard)
  BY DEF ConsoleInit, Runs
<1>2. Woken(w, h) = {Console}
  BY FieldTypes, TheTasks DEF Woken
<1>3. TasksSwitch(w, h, ticks)
  BY <1>1 DEF SysRegister
<1> HIDE DEF w, h
<1>4. current' = Console /\ waiting' = [w EXCEPT ![Console] = FALSE]
      /\ hits' = [h EXCEPT ![Console] = @ - 1] /\ ticks' = ticks
  BY <1>2, <1>3, SwitchToWoken
<1>5. waiting' = waiting /\ hits' = [hits EXCEPT ![Console] = 0]
  BY <1>1, <1>4, FieldTypes, TheTasks DEF w, h
<1> QED
  BY <1>1, <1>4, <1>5 DEF SysRegister

\* System call 2 returns at once to a console that has hits.
LEMMA ConsoleWaitDoes ==
  ASSUME KernelInv, ConsoleWait
  PROVE  /\ UNCHANGED <<irqNo, eax, consoleData>>
         /\ \/ /\ hits[Console] # 0 /\ waiting' = waiting
               /\ current' = Console /\ ticks' = ticks
               /\ hits' = [hits EXCEPT ![Console] = @ - 1]
            \/ /\ hits[Console] = 0 /\ hits' = hits
               /\ waiting' = [waiting EXCEPT ![Console] = TRUE]
<1> DEFINE w == [waiting EXCEPT ![Console] = TRUE]
<1>1. current = Console /\ SysWait
  BY DEF ConsoleWait, Runs
<1>2. TasksSwitch(w, hits, ticks) /\ UNCHANGED <<irqNo, eax, consoleData>>
  BY <1>1 DEF SysWait
<1>3. w[Console] /\ \A t \in Task : t # Console => w[t] = waiting[t]
  BY FieldTypes, TheTasks
<1>4. CASE hits[Console] # 0
  <2>1. Woken(w, hits) = {Console}
    BY <1>3, <1>4, FieldTypes, TheTasks DEF Woken
  <2>2. waiting = [w EXCEPT ![Console] = FALSE]
    BY <1>1, FieldTypes, TheTasks
  <2> HIDE DEF w
  <2> QED
    BY <1>2, <1>4, <2>1, <2>2, SwitchToWoken
<1>5. CASE hits[Console] = 0
  <2>1. Woken(w, hits) = {}
    BY <1>3, <1>5, FieldTypes, TheTasks DEF Woken
  <2> QED
    BY <1>2, <1>5, <2>1, SwitchByWalk
<1> QED
  BY <1>4, <1>5

\* System call 3 hands the line to the shell if it waits for one, and parks the
\* console otherwise.
LEMMA ConsoleSendDoes ==
  ASSUME KernelInv, ConsoleSend
  PROVE  /\ consoleData' = sent + 1
         /\ \/ /\ waiting[Shell] /\ irqNo' = irqNo
               /\ eax' = [eax EXCEPT ![Shell] = sent + 1]
               /\ waiting' = [waiting EXCEPT ![Shell] = FALSE]
               /\ hits' = [hits EXCEPT ![Shell] = 0]
               /\ current' = Shell /\ ticks' = ticks
            \/ /\ ~waiting[Shell] /\ eax' = eax
               /\ irqNo' = [irqNo EXCEPT ![Console] = LineTaken]
               /\ waiting' = [waiting EXCEPT ![Console] = TRUE]
               /\ hits' = [hits EXCEPT ![Console] = 0]
<1>1. current = Console /\ SysPutLine(sent + 1)
  BY DEF ConsoleSend, Runs
<1>2. BlockedInCall /\ pc[Console] = "send"
  BY DEF KernelInv, ConsoleSend, Runs
<1>3. WaitersOn(LineReady) = IF waiting[Shell] THEN {Shell} ELSE {}
  BY <1>1, <1>2, FieldTypes, TheTasks DEF WaitersOn, BlockedInCall
<1>4. CASE waiting[Shell]
  <2>1. eax' = [eax EXCEPT ![Shell] = sent + 1] /\ Unblock(Shell)
    BY <1>1, <1>3, <1>4 DEF SysPutLine, FirstWaiter
  <2> DEFINE h == [hits EXCEPT ![Shell] = 1]
  <2>2. TasksSwitch(waiting, h, ticks) /\ irqNo' = irqNo
    BY <2>1 DEF Unblock
  <2>3. Woken(waiting, h) = {Shell}
    BY <1>4, FieldTypes, TheTasks DEF Woken
  <2>4. [hits EXCEPT ![Shell] = 0] = [h EXCEPT ![Shell] = @ - 1]
    BY FieldTypes, TheTasks
  <2> HIDE DEF h
  <2>5. /\ current' = Shell /\ waiting' = [waiting EXCEPT ![Shell] = FALSE]
        /\ hits' = [h EXCEPT ![Shell] = @ - 1] /\ ticks' = ticks
    BY <2>2, <2>3, SwitchToWoken
  <2> QED
    BY <1>1, <1>4, <2>1, <2>2, <2>4, <2>5 DEF SysPutLine
<1>5. CASE ~waiting[Shell]
  <2>1. eax' = eax /\ BlockOn(LineTaken)
    BY <1>1, <1>3, <1>5 DEF SysPutLine, FirstWaiter
  <2> DEFINE w == [waiting EXCEPT ![Console] = TRUE]
             h == [hits EXCEPT ![Console] = 0]
  <2>2. TasksSwitch(w, h, ticks) /\ irqNo' = [irqNo EXCEPT ![Console] = LineTaken]
    BY <1>1, <2>1 DEF BlockOn
  <2>3. Woken(w, h) = {}
    BY FieldTypes, TheTasks DEF Woken
  <2> HIDE DEF w, h
  <2>4. waiting' = w /\ hits' = h
    BY <2>2, <2>3, SwitchByWalk
  <2> QED
    BY <1>1, <1>5, <2>1, <2>2, <2>4 DEF SysPutLine, w, h
<1> QED
  BY <1>4, <1>5

\* System call 4 takes the line of a console that waits for that, and blocks the
\* shell otherwise.
LEMMA ShellGetsDoes ==
  ASSUME KernelInv, ShellGets
  PROVE  /\ consoleData' = consoleData
         /\ \/ /\ Parked /\ irqNo' = irqNo
               /\ eax' = [eax EXCEPT ![Shell] = consoleData]
               /\ waiting' = [waiting EXCEPT ![Console] = FALSE]
               /\ hits' = [hits EXCEPT ![Console] = 0]
               /\ current' = Console /\ ticks' = ticks
            \/ /\ ~Parked
               /\ eax' = [eax EXCEPT ![Shell] = NoLine]
               /\ irqNo' = [irqNo EXCEPT ![Shell] = LineReady]
               /\ waiting' = [waiting EXCEPT ![Shell] = TRUE]
               /\ hits' = [hits EXCEPT ![Shell] = 0]
<1>1. current = Shell /\ SysGetLine
  BY DEF ShellGets, Runs
<1>2. BlockedInCall
  BY DEF KernelInv
<1>3. WaitersOn(LineTaken) = IF Parked THEN {Console} ELSE {}
  BY <1>1, <1>2, FieldTypes, TheTasks DEF WaitersOn, BlockedInCall, Parked
<1>4. CASE Parked
  <2>1. eax' = [eax EXCEPT ![Shell] = consoleData] /\ Unblock(Console)
    BY <1>1, <1>3, <1>4 DEF SysGetLine, FirstWaiter
  <2> DEFINE h == [hits EXCEPT ![Console] = 1]
  <2>2. TasksSwitch(waiting, h, ticks) /\ irqNo' = irqNo
    BY <2>1 DEF Unblock
  <2>3. Woken(waiting, h) = {Console}
    BY <1>4, FieldTypes, TheTasks DEF Woken, Parked
  <2>4. [hits EXCEPT ![Console] = 0] = [h EXCEPT ![Console] = @ - 1]
    BY FieldTypes, TheTasks
  <2> HIDE DEF h
  <2>5. /\ current' = Console /\ waiting' = [waiting EXCEPT ![Console] = FALSE]
        /\ hits' = [h EXCEPT ![Console] = @ - 1] /\ ticks' = ticks
    BY <2>2, <2>3, SwitchToWoken
  <2> QED
    BY <1>1, <1>4, <2>1, <2>2, <2>4, <2>5 DEF SysGetLine
<1>5. CASE ~Parked
  <2>1. eax' = [eax EXCEPT ![Shell] = NoLine] /\ BlockOn(LineReady)
    BY <1>1, <1>3, <1>5 DEF SysGetLine, FirstWaiter
  <2> DEFINE w == [waiting EXCEPT ![Shell] = TRUE]
             h == [hits EXCEPT ![Shell] = 0]
  <2>2. TasksSwitch(w, h, ticks) /\ irqNo' = [irqNo EXCEPT ![Shell] = LineReady]
    BY <1>1, <2>1 DEF BlockOn
  <2>3. Woken(w, h) = {}
    BY FieldTypes, TheTasks DEF Woken
  <2> HIDE DEF w, h
  <2>4. waiting' = w /\ hits' = h
    BY <2>2, <2>3, SwitchByWalk
  <2> QED
    BY <1>1, <1>5, <2>1, <2>2, <2>4 DEF SysGetLine, w, h
<1> QED
  BY <1>4, <1>5

\* System call 5 wakes nobody.
LEMMA ManagerDoes ==
  ASSUME KernelInv, ManagerStep
  PROVE  UNCHANGED <<waiting, hits, irqNo, eax, consoleData>>
<1>1. SysSleep(NapTicks)
  BY DEF ManagerStep
<1>2. Woken(waiting, hits) = {}
  BY DEF KernelInv, NoneLeftWoken
<1> QED
  BY <1>1, <1>2, SwitchByWalk DEF SysSleep

\* An interrupt other than the keyboard's wakes nobody, and leaves the hits of
\* the blocked tasks and of the console as they are.
LEMMA OtherIrqDoes ==
  ASSUME KernelInv, NEW n \in Irqs, OtherIrq(n)
  PROVE  /\ UNCHANGED <<waiting, irqNo, eax, consoleData>>
         /\ \A t \in Task : waiting[t] => hits'[t] = hits[t]
         /\ pc[Console] # "init" => hits'[Console] = hits[Console]
<1> DEFINE h == [t \in Task |-> IF irqNo[t] # 0 /\ irqNo[t] = n
                                  THEN hits[t] + 1 ELSE hits[t]]
<1>1. n # Keyboard /\ IrqHandler(n)
  BY DEF OtherIrq
<1>2. TasksSwitch(waiting, h, ticks) /\ UNCHANGED <<irqNo, eax, consoleData>>
  BY <1>1 DEF IrqHandler
<1>3. n # LineReady /\ n # LineTaken
  BY IrqsAssumption DEF LineReady, LineTaken
<1>4. pc[Console] # "init" => irqNo[Console] \in {Keyboard, LineTaken}
  BY DEF KernelInv, BlockedInCall
<1>5. \A t \in Task : waiting[t] => h[t] = hits[t]
  BY <1>1, <1>3, <1>4, FieldTypes, TheTasks DEF KernelInv, BlockedInCall
<1>6. pc[Console] # "init" => h[Console] = hits[Console]
  BY <1>1, <1>3, <1>4, TheTasks
<1>7. Woken(waiting, h) = {}
  BY <1>5, FieldTypes DEF Woken
<1> HIDE DEF h
<1>8. waiting' = waiting /\ hits' = h
  BY <1>2, <1>7, SwitchByWalk
<1> QED
  BY <1>2, <1>5, <1>6, <1>8

\* The keyboard's interrupt wakes a console that waits for it, and is counted
\* for one that will.
LEMMA KeyIrqDoes ==
  ASSUME KernelInv, NEW k \in Key, KeyIrq(k)
  PROVE  /\ UNCHANGED <<irqNo, eax, consoleData>>
         /\ \A t \in Task : waiting[t] => hits'[t] = 0
         /\ \/ /\ waiting[Console] /\ irqNo[Console] = Keyboard
               /\ waiting' = [waiting EXCEPT ![Console] = FALSE]
               /\ current' = Console /\ ticks' = ticks
            \/ /\ ~(waiting[Console] /\ irqNo[Console] = Keyboard)
               /\ waiting' = waiting
               /\ hits'[Console] = IF irqNo[Console] = Keyboard
                                    THEN hits[Console] + 1 ELSE hits[Console]
<1> DEFINE h == [t \in Task |-> IF irqNo[t] # 0 /\ irqNo[t] = Keyboard
                                  THEN hits[t] + 1 ELSE hits[t]]
<1>1. TasksSwitch(waiting, h, ticks) /\ UNCHANGED <<irqNo, eax, consoleData>>
  BY DEF KeyIrq, IrqHandler
<1>2. BlockedInCall
  BY DEF KernelInv
<1>3. /\ h \in [Task -> Nat]
      /\ h[Console] = IF irqNo[Console] = Keyboard THEN hits[Console] + 1 ELSE hits[Console]
  BY FieldTypes, TheTasks DEF Keyboard
<1>4. \A t \in Task : waiting[t] /\ t # Console => h[t] = 0
  BY <1>2, FieldTypes, TheTasks DEF BlockedInCall, LineReady, Keyboard
<1> HIDE DEF h
<1>5. CASE waiting[Console] /\ irqNo[Console] = Keyboard
  <2>1. h[Console] = 1
    BY <1>3, <1>5, FieldTypes, TheTasks
  <2>2. Woken(waiting, h) = {Console}
    BY <1>4, <1>5, <2>1, TheTasks DEF Woken
  <2>3. /\ current' = Console /\ waiting' = [waiting EXCEPT ![Console] = FALSE]
        /\ hits' = [h EXCEPT ![Console] = @ - 1] /\ ticks' = ticks
    BY <1>1, <2>2, SwitchToWoken
  <2>4. \A t \in Task : waiting[t] => hits'[t] = 0
    BY <1>3, <1>4, <2>1, <2>3, TheTasks
  <2> QED
    BY <1>1, <1>5, <2>3, <2>4
<1>6. CASE ~(waiting[Console] /\ irqNo[Console] = Keyboard)
  <2>1. \A t \in Task : waiting[t] => h[t] = 0
    BY <1>3, <1>4, <1>6, FieldTypes, TheTasks
  <2>2. Woken(waiting, h) = {}
    BY <2>1 DEF Woken
  <2>3. waiting' = waiting /\ hits' = h
    BY <1>1, <2>2, SwitchByWalk
  <2> QED
    BY <1>1, <1>3, <1>6, <2>1, <2>3
<1> QED
  BY <1>5, <1>6

-----------------------------------------------------------------------------
(* Each action keeps the invariant *)

\* The state at the sti of interrupts_init satisfies it.
LEMMA KernelInitInv == KernelInit => KernelInv
<1> SUFFICES ASSUME KernelInit PROVE KernelInv
  OBVIOUS
<1>1. SchedulerInv /\ TasksTypeOK
  BY InitIInv DEF KernelInit, SchedulerInv
<1>2. KernelTypeOK
  <2>1. pc \in [{Console, Shell} -> {"init", "read", "send", "wait", "gets", "take", "run"}]
        /\ pc[Console] = "init" /\ pc[Shell] = "gets"
    BY TheTasks DEF KernelInit
  <2>2. ahead \in BOOLEAN
    BY DEF KernelInit
  <2>3. presses \in 0..MaxKeys /\ sent \in 0..MaxLines /\ live \subseteq Lines
    BY KernelAssumption DEF KernelInit
  <2> QED
    BY <1>1, <2>1, <2>2, <2>3 DEF KernelInit, KernelTypeOK
<1>3. BlockedInCall /\ NoneLeftWoken
  BY TheTasks DEF KernelInit, TasksInit, BlockedInCall, NoneLeftWoken, Woken
<1>4. LinesKnown
  BY TheTasks DEF KernelInit, TasksInit, LinesKnown, NoLine
<1>5. pc[Console] = "init" /\ pc[Shell] = "gets" /\ ~waiting[Console] /\ ahead = (port = "enter")
  BY TheTasks DEF KernelInit, TasksInit
<1>6. AtPrompt /\ ParkedLineIsFresh /\ PassesMatchBytes
  BY <1>5 DEF AtPrompt, ParkedLineIsFresh, Parked, PassesMatchBytes
<1> QED
  BY <1>1, <1>2, <1>3, <1>4, <1>6 DEF KernelInv

\* Every action is a system call or an interrupt of module Tasks, or leaves the
\* tasks' fields alone.
LEMMA KernelSchedulerInv ==
  ASSUME KernelInv, [KernelNext]_vars PROVE SchedulerInv'
<1>0. SchedulerInv /\ Keyboard \in Irqs
  BY KernelAssumption DEF KernelInv
<1>1. ASSUME Syscall PROVE SchedulerInv'
  BY <1>0, <1>1, SyscallIInv
<1>2. ASSUME UNCHANGED tvars PROVE SchedulerInv'
  BY <1>0, <1>2, StutterIInv
<1>3. CASE ConsoleStep
  <2>1. CASE ConsoleInit
    BY <1>0, <1>1, <2>1, TheTasks DEF ConsoleInit, Runs, Syscall
  <2>2. CASE ConsoleRead
    BY <1>2, <2>2 DEF ConsoleRead
  <2>3. CASE ConsoleSend
    <3>1. sent + 1 \in Lines
      BY <2>3, KernelAssumption DEF ConsoleSend, KernelInv, KernelTypeOK
    <3> QED
      BY <1>1, <2>3, <3>1, TheTasks DEF ConsoleSend, Runs, Syscall
  <2>4. CASE ConsoleWait
    BY <1>1, <2>4, TheTasks DEF ConsoleWait, Runs, Syscall
  <2> QED
    BY <1>3, <2>1, <2>2, <2>3, <2>4 DEF ConsoleStep
<1>4. CASE ShellStep
  <2>1. CASE ShellGets
    BY <1>1, <2>1, TheTasks DEF ShellGets, Runs, Syscall
  <2>2. CASE ShellTake \/ ShellRun \/ ShellFault
    BY <1>2, <2>2 DEF ShellTake, ShellRun, ShellFault
  <2> QED
    BY <1>4, <2>1, <2>2 DEF ShellStep
<1>5. CASE ManagerStep
  BY <1>1, <1>5, TheTasks, KernelAssumption DEF ManagerStep, Syscall
<1>6. ASSUME NEW n \in Irqs, OtherIrq(n) PROVE SchedulerInv'
  BY <1>0, <1>6, IrqHandlerIInv DEF OtherIrq
<1>7. ASSUME NEW k \in Key, KeyIrq(k) PROVE SchedulerInv'
  BY <1>0, <1>7, IrqHandlerIInv DEF KeyIrq
<1>8. CASE Halted \/ UNCHANGED vars
  BY <1>2, <1>8 DEF Halted, vars
<1> QED
  BY <1>3, <1>4, <1>5, <1>6, <1>7, <1>8 DEF KernelNext

\* What the invariant says of the other variables, for the steps below.
LEMMA KernelTypes ==
  ASSUME KernelInv
  PROVE  /\ pc \in [{Console, Shell} -> {"init", "read", "send", "wait", "gets", "take", "run"}]
         /\ pc[Console] \in {"init", "read", "send", "wait"}
         /\ pc[Shell] \in {"gets", "take", "run"}
         /\ port \in Key /\ obf \in BOOLEAN /\ presses \in 0..MaxKeys
         /\ sent \in 0..MaxLines /\ live \subseteq Lines /\ held \in Lines \cup {NoLine}
         /\ halted \in BOOLEAN /\ ahead \in BOOLEAN
         /\ consoleData \in Nat /\ Lines = 1..MaxLines /\ MaxLines \in Nat /\ MaxKeys \in Nat
         /\ \A t \in Task : eax[t] \in Nat
BY KernelAssumption DEF KernelInv, KernelTypeOK, TasksTypeOK, NoLine

LEMMA ConsoleInitKeeps ==
  ASSUME KernelInv, ConsoleInit, SchedulerInv' PROVE KernelInv'
<1>0. /\ pc[Console] = "init" /\ ~waiting[Console] /\ pc' = [pc EXCEPT ![Console] = "read"]
      /\ UNCHANGED <<port, obf, presses, sent, live, held, halted, ahead>>
  BY FieldTypes DEF ConsoleInit, Runs, Goto, hardware, lines
<1>1. /\ waiting' = waiting /\ hits' = [hits EXCEPT ![Console] = 0]
      /\ irqNo' = [irqNo EXCEPT ![Console] = Keyboard] /\ UNCHANGED <<eax, consoleData>>
  BY ConsoleInitDoes
<1>2. pc'[Console] = "read" /\ pc'[Shell] = pc[Shell]
  BY <1>0, KernelTypes, TheTasks
<1>3. /\ hits'[Console] = 0 /\ irqNo'[Console] = Keyboard /\ irqNo'[Shell] = irqNo[Shell]
      /\ \A t \in Task : hits'[t] = IF t = Console THEN 0 ELSE hits[t]
  BY <1>1, FieldTypes, TheTasks
<1>4. KernelTypeOK'
  BY <1>0, <1>2, KernelTypes, TheTasks DEF KernelTypeOK, SchedulerInv
<1>5. BlockedInCall'
  BY <1>0, <1>1, <1>2, <1>3, TheTasks DEF BlockedInCall, KernelInv
<1>6. NoneLeftWoken'
  BY <1>1, <1>3, FieldTypes DEF NoneLeftWoken, Woken
<1>7. LinesKnown'
  BY <1>0, <1>1, <1>2 DEF LinesKnown, KernelInv
<1>8. AtPrompt'
  BY <1>0, <1>1, <1>2, <1>3 DEF AtPrompt, KernelInv
<1>9. ParkedLineIsFresh'
  BY <1>2 DEF ParkedLineIsFresh
<1>10. PassesMatchBytes'
  BY <1>0, <1>1, <1>2, <1>3 DEF PassesMatchBytes, PassesOwed, BytesUnread
<1> QED
  BY <1>4, <1>5, <1>6, <1>7, <1>8, <1>9, <1>10 DEF KernelInv

LEMMA ConsoleReadKeeps ==
  ASSUME KernelInv, ConsoleRead, SchedulerInv' PROVE KernelInv'
<1>0. /\ pc[Console] = "read" /\ ~waiting[Console] /\ obf' = FALSE
      /\ UNCHANGED <<waiting, irqNo, hits, ticks, eax, current, consoleData>>
      /\ UNCHANGED <<port, presses, sent, live, held, halted, ahead>>
  BY FieldTypes DEF ConsoleRead, Runs, lines, tvars
<1>1. /\ pc'[Console] = (IF port = "enter" THEN "send" ELSE "wait") /\ pc'[Shell] = pc[Shell]
      /\ pc' \in [{Console, Shell} -> {"init", "read", "send", "wait", "gets", "take", "run"}]
  BY KernelTypes, TheTasks DEF ConsoleRead, Goto
<1>2. /\ BlockedInCall /\ LinesKnown /\ AtPrompt /\ PassesMatchBytes
      /\ NoneLeftWoken /\ obf \in BOOLEAN /\ hits[Console] \in Nat
  BY KernelTypes, FieldTypes, TheTasks DEF KernelInv
<1>3. PassesOwed = hits[Console] + 1 /\ PassesOwed' = hits[Console] /\ BytesUnread' = 0
  BY <1>0, <1>1, <1>2 DEF PassesOwed, BytesUnread
<1>4. KernelTypeOK'
  BY <1>0, <1>1, KernelTypes DEF KernelTypeOK, SchedulerInv
<1>5. BlockedInCall'
  BY <1>0, <1>1, <1>2 DEF BlockedInCall
<1>6. NoneLeftWoken'
  BY <1>0, <1>2 DEF NoneLeftWoken, Woken
<1>7. LinesKnown'
  BY <1>0, <1>1, <1>2 DEF LinesKnown
<1>8. AtPrompt'
  BY <1>0, <1>1, <1>2, <1>3 DEF AtPrompt, BytesUnread
<1>9. ParkedLineIsFresh'
  BY <1>0 DEF ParkedLineIsFresh, Parked
<1>10. PassesMatchBytes'
  BY <1>0, <1>2, <1>3 DEF PassesMatchBytes, BytesUnread
<1> QED
  BY <1>4, <1>5, <1>6, <1>7, <1>8, <1>9, <1>10 DEF KernelInv

LEMMA ConsoleSendKeeps ==
  ASSUME KernelInv, ConsoleSend, SchedulerInv' PROVE KernelInv'
<1>0. /\ pc[Console] = "send" /\ ~waiting[Console] /\ sent' = sent + 1 /\ sent < MaxLines
      /\ live' = live \cup {sent + 1}
      /\ UNCHANGED <<port, obf, presses, held, halted, ahead>>
  BY FieldTypes DEF ConsoleSend, Runs, hardware
<1>1. /\ pc'[Console] = "wait" /\ pc'[Shell] = pc[Shell]
      /\ pc' \in [{Console, Shell} -> {"init", "read", "send", "wait", "gets", "take", "run"}]
  BY KernelTypes, TheTasks DEF ConsoleSend, Goto
<1>2. /\ BlockedInCall /\ LinesKnown /\ AtPrompt /\ PassesMatchBytes
      /\ NoneLeftWoken /\ obf \in BOOLEAN /\ hits[Console] \in Nat
  BY KernelTypes, FieldTypes, TheTasks DEF KernelInv
<1>3. consoleData' = sent + 1
  BY ConsoleSendDoes
<1>4. KernelTypeOK'
  BY <1>0, <1>1, KernelTypes DEF KernelTypeOK, SchedulerInv
<1>5. CASE waiting[Shell]
  <2>1. /\ irqNo' = irqNo
        /\ eax'[Shell] = sent + 1
        /\ ~waiting'[Shell] /\ hits'[Shell] = 0
        /\ \A t \in Task : t # Shell => waiting'[t] = waiting[t] /\ hits'[t] = hits[t]
    BY <1>5, ConsoleSendDoes, FieldTypes, TheTasks
  <2>2. ~waiting'[Console] /\ ~waiting'[Shell] /\ hits'[Console] = hits[Console]
    BY <1>0, <2>1, TheTasks
  <2>3. PassesOwed' = PassesOwed /\ BytesUnread' = BytesUnread
    BY <1>0, <1>1, <2>2 DEF PassesOwed, BytesUnread
  <2>4. BlockedInCall'
    BY <1>0, <1>1, <1>2, <2>1, <2>2, TheTasks DEF BlockedInCall
  <2>5. NoneLeftWoken'
    BY <2>1, FieldTypes DEF NoneLeftWoken, Woken
  <2>6. LinesKnown'
    <3>1. eax'[Shell] = sent' /\ consoleData' = sent' /\ held' = held
      BY <1>0, <1>3, <2>1
    <3>2. held <= sent' /\ \A l \in live' : l <= sent'
      BY <1>0, <1>2, KernelTypes DEF LinesKnown, NoLine
    <3>3. pc'[Shell] # "run" => held' = NoLine
      BY <1>1, <1>2, <3>1 DEF LinesKnown
    <3> QED
      BY <1>0, <3>1, <3>2, <3>3, KernelTypes DEF LinesKnown
  <2>7. AtPrompt'
    BY <1>0, <1>1, <1>2, <1>5, <2>1, <2>2, <2>3, KernelTypes DEF AtPrompt, NoLine
  <2>8. ParkedLineIsFresh'
    BY <2>2 DEF ParkedLineIsFresh, Parked
  <2>9. PassesMatchBytes'
    BY <1>0, <1>1, <1>2, <2>3 DEF PassesMatchBytes
  <2> QED
    BY <1>4, <2>4, <2>5, <2>6, <2>7, <2>8, <2>9 DEF KernelInv
<1>6. CASE ~waiting[Shell]
  <2>1. /\ eax' = eax
        /\ irqNo'[Console] = LineTaken /\ irqNo'[Shell] = irqNo[Shell]
        /\ waiting'[Console] /\ hits'[Console] = 0
        /\ \A t \in Task : t # Console => waiting'[t] = waiting[t] /\ hits'[t] = hits[t]
    BY <1>6, ConsoleSendDoes, FieldTypes, TheTasks
  <2>2. waiting'[Console] /\ ~waiting'[Shell] /\ hits'[Console] = 0
    BY <1>6, <2>1, TheTasks
  <2>3. ahead
    BY <1>0, <1>2, <1>6 DEF AtPrompt
  <2>4. BlockedInCall'
    BY <1>0, <1>1, <1>2, <2>1, <2>2, TheTasks DEF BlockedInCall
  <2>5. NoneLeftWoken'
    BY <2>1, FieldTypes DEF NoneLeftWoken, Woken
  <2>6. LinesKnown'
    <3>1. eax'[Shell] = eax[Shell] /\ consoleData' = sent' /\ held' = held
      BY <1>0, <1>3, <2>1
    <3>2. eax[Shell] <= sent'
      BY <1>0, <1>2, KernelTypes, TheTasks DEF LinesKnown
    <3>3. held <= sent' /\ \A l \in live' : l <= sent'
      BY <1>0, <1>2, KernelTypes DEF LinesKnown, NoLine
    <3>4. pc'[Shell] # "run" => held' = NoLine
      BY <1>1, <1>2, <3>1 DEF LinesKnown
    <3> QED
      BY <1>0, <3>1, <3>2, <3>3, <3>4, KernelTypes DEF LinesKnown
  <2>7. AtPrompt' /\ PassesMatchBytes'
    BY <1>0, <2>3 DEF AtPrompt, PassesMatchBytes
  <2>8. ParkedLineIsFresh'
    <3>1. consoleData' \in live'
      BY <1>0, <1>3
    <3>2. held # sent + 1 /\ eax[Shell] # sent + 1
      BY <1>2, KernelTypes, TheTasks DEF LinesKnown, NoLine
    <3> QED
      BY <1>0, <1>3, <2>1, <3>1, <3>2 DEF ParkedLineIsFresh
  <2> QED
    BY <1>4, <2>4, <2>5, <2>6, <2>7, <2>8 DEF KernelInv
<1> QED
  BY <1>5, <1>6

LEMMA ConsoleWaitKeeps ==
  ASSUME KernelInv, ConsoleWait, SchedulerInv' PROVE KernelInv'
<1>0. /\ pc[Console] = "wait" /\ ~waiting[Console]
      /\ UNCHANGED <<port, obf, presses, sent, live, held, halted, ahead>>
  BY FieldTypes DEF ConsoleWait, Runs, hardware, lines
<1>1. /\ pc'[Console] = "read" /\ pc'[Shell] = pc[Shell]
      /\ pc' \in [{Console, Shell} -> {"init", "read", "send", "wait", "gets", "take", "run"}]
  BY KernelTypes, TheTasks DEF ConsoleWait, Goto
<1>2. /\ BlockedInCall /\ LinesKnown /\ AtPrompt /\ PassesMatchBytes
      /\ NoneLeftWoken /\ obf \in BOOLEAN /\ hits[Console] \in Nat
  BY KernelTypes, FieldTypes, TheTasks DEF KernelInv
<1>3. /\ UNCHANGED <<irqNo, eax, consoleData>>
      /\ \A t \in Task : t # Console => waiting'[t] = waiting[t] /\ hits'[t] = hits[t]
      /\ \/ ~waiting'[Console] /\ hits[Console] # 0 /\ hits'[Console] = hits[Console] - 1
         \/ waiting'[Console] /\ hits[Console] = 0 /\ hits'[Console] = 0
  BY <1>0, ConsoleWaitDoes, FieldTypes, TheTasks
<1>4. KernelTypeOK'
  BY <1>0, <1>1, KernelTypes DEF KernelTypeOK, SchedulerInv
<1>5. BlockedInCall'
  BY <1>0, <1>1, <1>2, <1>3, TheTasks DEF BlockedInCall
<1>6. NoneLeftWoken'
  BY <1>3, FieldTypes DEF NoneLeftWoken, Woken
<1>7. LinesKnown'
  BY <1>0, <1>1, <1>2, <1>3 DEF LinesKnown
<1>8. PassesOwed' = PassesOwed /\ BytesUnread' = BytesUnread
  BY <1>0, <1>1, <1>2, <1>3 DEF PassesOwed, BytesUnread
<1>9. AtPrompt'
  BY <1>0, <1>1, <1>2, <1>3, <1>8, TheTasks DEF AtPrompt
<1>10. ParkedLineIsFresh'
  BY <1>1 DEF ParkedLineIsFresh
<1>11. PassesMatchBytes'
  BY <1>0, <1>2, <1>8 DEF PassesMatchBytes
<1> QED
  BY <1>4, <1>5, <1>6, <1>7, <1>9, <1>10, <1>11 DEF KernelInv

LEMMA ShellGetsKeeps ==
  ASSUME KernelInv, ShellGets, SchedulerInv' PROVE KernelInv'
<1>0. /\ pc[Shell] = "gets" /\ ~waiting[Shell]
      /\ UNCHANGED <<port, obf, presses, sent, live, held, halted, ahead>>
  BY FieldTypes DEF ShellGets, Runs, hardware, lines
<1>1. /\ pc'[Shell] = "take" /\ pc'[Console] = pc[Console]
      /\ pc' \in [{Console, Shell} -> {"init", "read", "send", "wait", "gets", "take", "run"}]
  BY KernelTypes, TheTasks DEF ShellGets, Goto
<1>2. /\ BlockedInCall /\ LinesKnown /\ AtPrompt /\ PassesMatchBytes /\ ParkedLineIsFresh
      /\ NoneLeftWoken /\ obf \in BOOLEAN /\ hits[Console] \in Nat
  BY KernelTypes, FieldTypes, TheTasks DEF KernelInv
<1>3. consoleData' = consoleData
  BY ShellGetsDoes
<1>4. KernelTypeOK'
  BY <1>0, <1>1, KernelTypes DEF KernelTypeOK, SchedulerInv
<1>5. CASE Parked
  <2>1. /\ irqNo' = irqNo /\ eax'[Shell] = consoleData
        /\ ~waiting'[Console] /\ hits'[Console] = 0
        /\ \A t \in Task : t # Console => waiting'[t] = waiting[t] /\ hits'[t] = hits[t]
    BY <1>5, ShellGetsDoes, FieldTypes, TheTasks
  <2>2. ahead
    BY <1>2, <1>5 DEF AtPrompt, BlockedInCall, Parked, LineTaken, Keyboard
  <2>3. BlockedInCall'
    BY <1>0, <1>1, <1>2, <1>5, <2>1, TheTasks DEF BlockedInCall, Parked
  <2>4. NoneLeftWoken'
    BY <2>1, FieldTypes DEF NoneLeftWoken, Woken
  <2>5. LinesKnown'
    BY <1>0, <1>1, <1>2, <1>3, <2>1 DEF LinesKnown
  <2>6. AtPrompt' /\ PassesMatchBytes'
    BY <1>0, <2>2 DEF AtPrompt, PassesMatchBytes
  <2>7. ParkedLineIsFresh'
    BY <2>1 DEF ParkedLineIsFresh, Parked
  <2> QED
    BY <1>4, <2>3, <2>4, <2>5, <2>6, <2>7 DEF KernelInv
<1>6. CASE ~Parked
  <2>1. /\ eax'[Shell] = NoLine
        /\ irqNo'[Shell] = LineReady /\ irqNo'[Console] = irqNo[Console]
        /\ waiting'[Shell] /\ hits'[Shell] = 0
        /\ \A t \in Task : t # Shell => waiting'[t] = waiting[t] /\ hits'[t] = hits[t]
    BY <1>6, ShellGetsDoes, FieldTypes, TheTasks
  <2>2. waiting'[Console] = waiting[Console] /\ hits'[Console] = hits[Console]
    BY <2>1, TheTasks
  <2>3. BlockedInCall'
    BY <1>0, <1>1, <1>2, <2>1, <2>2, TheTasks DEF BlockedInCall
  <2>4. NoneLeftWoken'
    BY <2>1, FieldTypes DEF NoneLeftWoken, Woken
  <2>5. LinesKnown'
    BY <1>0, <1>1, <1>2, <1>3, <2>1, KernelTypes DEF LinesKnown, NoLine
  <2>6. PassesOwed' = PassesOwed /\ BytesUnread' = BytesUnread
    BY <1>0, <1>1, <2>2 DEF PassesOwed, BytesUnread
  <2>7. AtPrompt'
    BY <1>0, <1>1, <1>2, <2>1, <2>2, <2>6 DEF AtPrompt
  <2>8. PassesMatchBytes'
    BY <1>0, <1>1, <1>2, <2>6 DEF PassesMatchBytes
  <2>9. ParkedLineIsFresh'
    BY <1>0, <1>1, <1>2, <1>3, <1>6, <2>1, <2>2 DEF ParkedLineIsFresh, Parked
  <2> QED
    BY <1>4, <2>3, <2>4, <2>5, <2>7, <2>8, <2>9 DEF KernelInv
<1> QED
  BY <1>5, <1>6

LEMMA ShellTakeKeeps ==
  ASSUME KernelInv, ShellTake, SchedulerInv' PROVE KernelInv'
<1>0. /\ pc[Shell] = "take" /\ ~waiting[Shell] /\ held' = eax[Shell]
      /\ UNCHANGED <<waiting, irqNo, hits, ticks, eax, current, consoleData>>
      /\ UNCHANGED <<port, obf, presses, sent, live, halted, ahead>>
  BY FieldTypes DEF ShellTake, Runs, hardware, tvars
<1>1. /\ pc'[Shell] = "run" /\ pc'[Console] = pc[Console]
      /\ pc' \in [{Console, Shell} -> {"init", "read", "send", "wait", "gets", "take", "run"}]
  BY KernelTypes, TheTasks DEF ShellTake, Goto
<1>2. /\ BlockedInCall /\ LinesKnown /\ AtPrompt /\ PassesMatchBytes
      /\ ParkedLineIsFresh /\ NoneLeftWoken
  BY DEF KernelInv
<1>3. held' \in Lines \cup {NoLine}
  BY <1>0, FieldTypes, TheTasks
<1>4. KernelTypeOK'
  BY <1>0, <1>1, <1>3, KernelTypes DEF KernelTypeOK, SchedulerInv
<1>5. BlockedInCall' /\ NoneLeftWoken'
  BY <1>0, <1>1, <1>2 DEF BlockedInCall, NoneLeftWoken, Woken
<1>6. LinesKnown'
  BY <1>0, <1>1, <1>2 DEF LinesKnown
<1>7. PassesOwed' = PassesOwed /\ BytesUnread' = BytesUnread
  BY <1>0, <1>1 DEF PassesOwed, BytesUnread
<1>8. AtPrompt' /\ PassesMatchBytes'
  BY <1>0, <1>1, <1>2, <1>7 DEF AtPrompt, PassesMatchBytes
<1>9. ParkedLineIsFresh'
  BY <1>0, <1>1, <1>2 DEF ParkedLineIsFresh, Parked
<1> QED
  BY <1>4, <1>5, <1>6, <1>8, <1>9 DEF KernelInv

LEMMA ShellRunKeeps ==
  ASSUME KernelInv, ShellRun, SchedulerInv' PROVE KernelInv'
<1>0. /\ pc[Shell] = "run" /\ held' = NoLine /\ live' = live \ {held}
      /\ UNCHANGED <<waiting, irqNo, hits, ticks, eax, current, consoleData>>
      /\ UNCHANGED <<port, obf, presses, sent, halted, ahead>>
  BY DEF ShellRun, Runs, hardware, tvars
<1>1. /\ pc'[Shell] = "gets" /\ pc'[Console] = pc[Console]
      /\ pc' \in [{Console, Shell} -> {"init", "read", "send", "wait", "gets", "take", "run"}]
  BY KernelTypes, TheTasks DEF ShellRun, Goto
<1>2. /\ BlockedInCall /\ LinesKnown /\ AtPrompt /\ PassesMatchBytes
      /\ ParkedLineIsFresh /\ NoneLeftWoken
  BY DEF KernelInv
<1>4. KernelTypeOK'
  BY <1>0, <1>1, KernelTypes DEF KernelTypeOK, SchedulerInv
<1>5. BlockedInCall' /\ NoneLeftWoken'
  BY <1>0, <1>1, <1>2 DEF BlockedInCall, NoneLeftWoken, Woken
<1>6. LinesKnown'
  BY <1>0, <1>1, <1>2, KernelTypes DEF LinesKnown, NoLine
<1>7. PassesOwed' = PassesOwed /\ BytesUnread' = BytesUnread
  BY <1>0, <1>1 DEF PassesOwed, BytesUnread
<1>8. AtPrompt' /\ PassesMatchBytes'
  BY <1>0, <1>1, <1>2, <1>7 DEF AtPrompt, PassesMatchBytes
<1>9. ParkedLineIsFresh'
  BY <1>0, <1>1, <1>2, KernelTypes DEF ParkedLineIsFresh, Parked, NoLine
<1> QED
  BY <1>4, <1>5, <1>6, <1>8, <1>9 DEF KernelInv

\* A step that leaves the variables of the console and the shell alone, and the
\* hits of the blocked tasks and of the console.
LEMMA OthersKeep ==
  ASSUME KernelInv, SchedulerInv',
         UNCHANGED <<waiting, irqNo, eax, consoleData, pc, port, obf, presses,
                     sent, live, held, ahead>>,
         halted' \in BOOLEAN,
         \A t \in Task : waiting[t] => hits'[t] = hits[t],
         pc[Console] # "init" => hits'[Console] = hits[Console]
  PROVE  KernelInv'
<1>1. /\ BlockedInCall /\ LinesKnown /\ AtPrompt /\ PassesMatchBytes
      /\ ParkedLineIsFresh /\ NoneLeftWoken
  BY DEF KernelInv
<1>2. KernelTypeOK'
  BY KernelTypes DEF KernelTypeOK, SchedulerInv
<1>3. BlockedInCall'
  BY <1>1 DEF BlockedInCall
<1>4. NoneLeftWoken'
  BY <1>1 DEF NoneLeftWoken, Woken
<1>5. LinesKnown' /\ ParkedLineIsFresh'
  BY <1>1 DEF LinesKnown, ParkedLineIsFresh, Parked
<1>6. pc[Console] # "init" => PassesOwed' = PassesOwed /\ BytesUnread' = BytesUnread
  BY DEF PassesOwed, BytesUnread
<1>7. AtPrompt' /\ PassesMatchBytes'
  BY <1>1, <1>6 DEF AtPrompt, PassesMatchBytes
<1> QED
  BY <1>2, <1>3, <1>4, <1>5, <1>7 DEF KernelInv

LEMMA KeyIrqKeeps ==
  ASSUME KernelInv, NEW k \in Key, KeyIrq(k), SchedulerInv' PROVE KernelInv'
<1>0. /\ ~obf /\ presses < MaxKeys /\ port' = k /\ obf' = TRUE /\ presses' = presses + 1
      /\ ahead' = (ahead \/ (k = "enter" /\ ~Prompted))
      /\ UNCHANGED <<pc, sent, live, held, halted>>
  BY DEF KeyIrq, lines
<1>1. /\ BlockedInCall /\ LinesKnown /\ AtPrompt /\ PassesMatchBytes
      /\ ParkedLineIsFresh /\ NoneLeftWoken
  BY DEF KernelInv
<1>2. /\ UNCHANGED <<irqNo, eax, consoleData>>
      /\ \A t \in Task : waiting[t] => hits'[t] = 0
      /\ \A t \in Task : t # Console => waiting'[t] = waiting[t]
      /\ \A t \in Task : waiting'[t] => waiting[t]
      /\ waiting'[Console] => waiting[Console] /\ irqNo[Console] # Keyboard
      /\ waiting[Console] /\ irqNo[Console] = Keyboard => ~waiting'[Console]
      /\ waiting[Console] \/ irqNo[Console] # Keyboard \/ hits'[Console] = hits[Console] + 1
      /\ waiting[Console] \/ irqNo[Console] = Keyboard \/ hits'[Console] = hits[Console]
      /\ waiting[Console] => hits[Console] = 0
      /\ hits[Console] \in Nat
  BY KeyIrqDoes, FieldTypes, TheTasks
<1>3. KernelTypeOK'
  <2>1. ahead' \in BOOLEAN
    BY <1>0
  <2>2. presses' \in 0..MaxKeys
    BY <1>0, KernelTypes
  <2> QED
    BY <1>0, <2>1, <2>2, KernelTypes DEF KernelTypeOK, SchedulerInv
<1>4. BlockedInCall'
  BY <1>0, <1>1, <1>2, TheTasks DEF BlockedInCall, LineTaken, Keyboard
<1>5. NoneLeftWoken'
  BY <1>2 DEF NoneLeftWoken, Woken
<1>6. LinesKnown'
  BY <1>0, <1>1, <1>2 DEF LinesKnown
<1>7. ParkedLineIsFresh'
  BY <1>0, <1>1, <1>2, TheTasks DEF ParkedLineIsFresh, Parked
<1>8. AtPrompt' /\ PassesMatchBytes'
  <2>1. SUFFICES ASSUME ~ahead' PROVE AtPrompt' /\ PassesMatchBytes'
    BY DEF AtPrompt, PassesMatchBytes
  <2>2. ~ahead /\ (k = "enter" => Prompted) /\ BytesUnread = 0 /\ BytesUnread' = 1
    BY <1>0, <2>1 DEF BytesUnread
  <2>3. waiting[Shell] = waiting'[Shell]
    BY <1>2, TheTasks
  <2>4. CASE pc[Console] = "init"
    BY <1>0, <1>1, <1>2, <2>2, <2>3, <2>4 DEF AtPrompt, PassesMatchBytes, Prompted, BlockedInCall
  <2>5. CASE pc[Console] # "init"
    <3>1. irqNo[Console] = Keyboard
      BY <1>1, <2>2, <2>5 DEF AtPrompt
    <3>2. waiting[Console] => pc[Console] = "read"
      BY <1>1, <3>1 DEF BlockedInCall, LineTaken, Keyboard
    <3>3. PassesOwed' = PassesOwed + 1
      BY <1>0, <1>2, <3>1, <3>2, TheTasks DEF PassesOwed
    <3>4. PassesOwed \in Nat
      BY <1>2 DEF PassesOwed
    <3>5. PassesMatchBytes'
      BY <1>1, <2>2, <2>5, <3>3, <3>4 DEF PassesMatchBytes
    <3>6. k = "enter" => waiting[Shell] /\ PassesOwed = 0 /\ pc[Console] = "read"
      BY <1>2, <2>2, <3>2 DEF Prompted, PassesOwed
    <3>7. AtPrompt'
      BY <1>0, <1>1, <1>2, <2>2, <2>3, <2>5, <3>1, <3>3, <3>6 DEF AtPrompt
    <3> QED
      BY <3>5, <3>7
  <2> QED
    BY <2>4, <2>5
<1> QED
  BY <1>3, <1>4, <1>5, <1>6, <1>7, <1>8 DEF KernelInv

\* Every step of the running system keeps the invariant.
LEMMA KernelStepInv ==
  ASSUME KernelInv, [KernelNext]_vars PROVE KernelInv'
<1>0. SchedulerInv'
  BY KernelSchedulerInv
<1>1. CASE ConsoleStep
  BY <1>0, <1>1, ConsoleInitKeeps, ConsoleReadKeeps, ConsoleSendKeeps, ConsoleWaitKeeps
  DEF ConsoleStep
<1>2. CASE ShellStep
  <2>1. CASE ShellFault
    BY <1>0, <2>1, OthersKeep DEF ShellFault, tvars, hardware, lines
  <2> QED
    BY <1>0, <1>2, <2>1, ShellGetsKeeps, ShellTakeKeeps, ShellRunKeeps DEF ShellStep
<1>3. CASE ManagerStep
  <2>1. UNCHANGED <<waiting, hits, irqNo, eax, consoleData>>
    BY <1>3, ManagerDoes
  <2> QED
    BY <1>0, <1>3, <2>1, OthersKeep, KernelTypes DEF ManagerStep, hardware, lines
<1>4. ASSUME NEW n \in Irqs, OtherIrq(n) PROVE KernelInv'
  <2>1. /\ UNCHANGED <<waiting, irqNo, eax, consoleData>>
        /\ \A t \in Task : waiting[t] => hits'[t] = hits[t]
        /\ pc[Console] # "init" => hits'[Console] = hits[Console]
    BY <1>4, OtherIrqDoes
  <2> QED
    BY <1>0, <1>4, <2>1, OthersKeep, KernelTypes DEF OtherIrq, hardware, lines
<1>5. ASSUME NEW k \in Key, KeyIrq(k) PROVE KernelInv'
  BY <1>0, <1>5, KeyIrqKeeps
<1>6. CASE UNCHANGED vars
  BY <1>0, <1>6, OthersKeep, KernelTypes DEF vars, tvars, hardware, lines
<1> QED
  BY <1>1, <1>2, <1>3, <1>4, <1>5, <1>6 DEF KernelNext, Halted

-----------------------------------------------------------------------------
(* The properties of module Kernel *)

\* Whatever keys are pressed, whatever interrupts come and whatever programs
\* fault: blocked tasks are where they are thought to be, every byte has its pass
\* of the console, and lines are neither lost nor freed early.
THEOREM KernelInductive == KernelSpec => []KernelInv
BY KernelInitInv, KernelStepInv, PTL DEF KernelSpec

\* The console's and the shell's variables always hold what their code takes them
\* to hold.
THEOREM KernelTypeCorrect == KernelSpec => []KernelTypeOK
<1>1. KernelInv => KernelTypeOK
  BY DEF KernelInv
<1> QED
  BY <1>1, KernelInductive, PTL

\* A console that was given its lines at the prompt only waits for the keyboard
\* whenever it waits.
THEOREM ConsoleWaitsOnKeyboard == KernelSpec => []WaitsOnKeyboard
<1>1. KernelInv => WaitsOnKeyboard
  BY DEF KernelInv, WaitsOnKeyboard, BlockedInCall, AtPrompt
<1> QED
  BY <1>1, KernelInductive, PTL

\* No byte of the keyboard waits for a pass of the console that was not granted,
\* and at most one pass is granted without a byte.
THEOREM EveryByteHasItsPass == KernelSpec => []PassesMatchBytes
<1>1. KernelInv => PassesMatchBytes
  BY DEF KernelInv
<1> QED
  BY <1>1, KernelInductive, PTL

\* The line of a console parked in system call 3 was neither freed nor handed out.
THEOREM ParkedLineKept == KernelSpec => []ParkedLineIsFresh
<1>1. KernelInv => ParkedLineIsFresh
  BY DEF KernelInv
<1> QED
  BY <1>1, KernelInductive, PTL

\* The task whose saved eax unblock_waiter overwrites is the shell, inside gets.
THEOREM WaiterKnown == KernelSpec => []WaiterIsInGets
<1>1. KernelInv => WaiterIsInGets
  <2>1. SUFFICES ASSUME KernelInv, NEW t \in Task, waiting[t], irqNo[t] = LineReady
                 PROVE  t = Shell /\ pc[Shell] = "take"
    BY DEF WaiterIsInGets, WaitersOn
  <2>2. BlockedInCall /\ t # Idle
    BY <2>1, FieldTypes DEF KernelInv
  <2> QED
    BY <2>1, <2>2, TheTasks DEF BlockedInCall, LineReady, LineTaken, Keyboard
<1> QED
  BY <1>1, KernelInductive, PTL

\* A step of the running system is one of LineChannel's, or none, as long as Enter
\* is pressed at the prompt only.
LEMMA ChannelStep ==
  ASSUME KernelInv, KernelInv', [KernelNext]_vars, ~ahead'
  PROVE  [Channel!Next]_Channel!channel
<1>1. /\ BlockedInCall /\ LinesKnown /\ AtPrompt
      /\ BlockedInCall' /\ AtPrompt'
  BY DEF KernelInv
<1>2. ~ahead
  BY DEF KernelNext, ConsoleStep, ConsoleInit, ConsoleRead, ConsoleSend, ConsoleWait,
     ShellStep, ShellGets, ShellTake, ShellRun, ShellFault, ManagerStep, OtherIrq, KeyIrq,
     Halted, vars
<1>3. ~Parked /\ ~Parked'
  BY <1>1, <1>2 DEF Parked, BlockedInCall, AtPrompt, LineTaken, Keyboard
<1>4. /\ Box = IF pc[Shell] = "take" /\ ~waiting[Shell] THEN eax[Shell] ELSE NoLine
      /\ Box' = IF pc'[Shell] = "take" /\ ~waiting'[Shell] THEN eax'[Shell] ELSE NoLine
  BY <1>3 DEF Box
<1>5. ASSUME UNCHANGED <<sent, held>>, pc'[Shell] = pc[Shell],
             waiting'[Shell] = waiting[Shell], eax'[Shell] = eax[Shell]
      PROVE  UNCHANGED Channel!channel
  BY <1>4, <1>5 DEF Channel!channel
<1>6. CASE ConsoleInit
  BY <1>5, <1>6, ConsoleInitDoes, KernelTypes, TheTasks DEF ConsoleInit, Goto, lines
<1>7. CASE ConsoleRead
  BY <1>5, <1>7, KernelTypes, TheTasks DEF ConsoleRead, Goto, lines, tvars
<1>8. CASE ConsoleSend
  <2>1. pc[Console] = "send" /\ waiting[Shell]
    BY <1>1, <1>2, <1>8 DEF ConsoleSend, Runs, AtPrompt
  <2>2. /\ pc[Shell] = "take" /\ pc'[Shell] = "take"
        /\ ~waiting'[Shell] /\ eax'[Shell] = sent + 1
        /\ sent' = sent + 1 /\ held' = held
    BY <1>1, <1>8, <2>1, ConsoleSendDoes, KernelTypes, FieldTypes, TheTasks
    DEF ConsoleSend, Goto, BlockedInCall
  <2> QED
    BY <1>4, <2>1, <2>2 DEF Channel!Next, Channel!Publish, NoLine
<1>9. CASE ConsoleWait
  BY <1>5, <1>9, ConsoleWaitDoes, KernelTypes, FieldTypes, TheTasks DEF ConsoleWait, Goto, lines
<1>10. CASE ShellGets
  <2>1. /\ pc[Shell] = "gets" /\ pc'[Shell] = "take" /\ waiting'[Shell]
        /\ UNCHANGED <<sent, held>>
    BY <1>3, <1>10, ShellGetsDoes, KernelTypes, FieldTypes, TheTasks
    DEF ShellGets, Runs, Goto, lines
  <2> QED
    BY <1>4, <2>1 DEF Channel!channel
<1>11. CASE ShellTake
  <2>1. /\ pc[Shell] = "take" /\ pc'[Shell] = "run" /\ ~waiting[Shell]
        /\ held' = eax[Shell] /\ sent' = sent
    BY <1>11, KernelTypes, FieldTypes, TheTasks DEF ShellTake, Runs, Goto
  <2> QED
    BY <1>1, <1>2, <1>4, <2>1 DEF AtPrompt, LinesKnown, Channel!Next, Channel!Take, NoLine
<1>12. CASE ShellRun
  <2>1. /\ pc[Shell] = "run" /\ pc'[Shell] = "gets" /\ held' = NoLine /\ sent' = sent
    BY <1>12, KernelTypes, TheTasks DEF ShellRun, Runs, Goto
  <2> QED
    BY <1>1, <1>2, <1>4, <2>1 DEF AtPrompt, Channel!Next, Channel!Dispose, NoLine
<1>13. CASE ShellFault \/ Halted \/ UNCHANGED vars
  BY <1>5, <1>13 DEF ShellFault, Halted, vars, lines, tvars
<1>14. CASE ManagerStep
  BY <1>5, <1>14, ManagerDoes DEF ManagerStep, lines
<1>15. ASSUME NEW n \in Irqs, OtherIrq(n) PROVE UNCHANGED Channel!channel
  BY <1>5, <1>15, OtherIrqDoes DEF OtherIrq, lines
<1>16. ASSUME NEW k \in Key, KeyIrq(k) PROVE UNCHANGED Channel!channel
  BY <1>5, <1>16, KeyIrqDoes, FieldTypes, TheTasks DEF KeyIrq, lines
<1> QED
  BY <1>6, <1>7, <1>8, <1>9, <1>10, <1>11, <1>12, <1>13, <1>14, <1>15, <1>16
  DEF KernelNext, ConsoleStep, ShellStep

\* System calls 3 and 4 implement LineChannel for a user who waits for the prompt:
\* each line reaches the shell once, in order, and none is completed before the
\* last one was taken.
THEOREM LinesPassOnce == KernelSpec => ChannelSafe
<1>1. KernelInit => Channel!Init
  BY TheTasks DEF KernelInit, TasksInit, Channel!Init, Box, Parked, NoLine
<1>2. KernelInv /\ KernelInv' /\ [KernelNext]_vars =>
        [~ahead' => [Channel!Next]_Channel!channel]_vars
  BY ChannelStep
<1> QED
  BY <1>1, <1>2, KernelInductive, PTL DEF KernelSpec, ChannelSafe

-----------------------------------------------------------------------------
(* How long system call 5 sleeps *)

\* The walk takes no tick from the task it ends at.
LEMMA ResumedKeepsTicks ==
  ASSUME NEW w, NEW h, NEW k, SwitchPre(w, h, k), TasksSwitch(w, h, k), current \in Task
  PROVE  ticks'[current'] = k[current']
<1>1. CASE ticks' = k
  BY <1>1
<1>2. ASSUME NEW t \in Ready(w, k), current' = t,
             ticks' = [u \in Task |-> IF ~w[u] /\ Rotation(u) < Rotation(t)
                                        THEN k[u] - 1 ELSE k[u]]
      PROVE  ticks'[current'] = k[current']
  <2>1. t \in Task
    BY <1>2 DEF Ready
  <2>2. ~(Rotation(t) < Rotation(t))
    BY <2>1, TheTasks DEF Rotation
  <2> QED
    BY <1>2, <2>1, <2>2
<1> QED
  BY <1>1, <1>2 DEF TasksSwitch

\* The console comes before idle in every walk but its own: idle is resumed only
\* when the console cannot be.
LEMMA ConsoleBeforeIdle ==
  ASSUME NEW w, NEW h, NEW k, SwitchPre(w, h, k), TasksSwitch(w, h, k),
         current \in Task, current # Console, k[Console] = 0, current' = Idle
  PROVE  waiting'[Console]
<1>1. Woken(w, h) = {}
  <2>1. SUFFICES ASSUME NEW t \in Woken(w, h) PROVE FALSE
    OBVIOUS
  <2>2. current' \in Woken(w, h)
    BY <2>1 DEF TasksSwitch
  <2> QED
    BY <2>2 DEF Woken, SwitchPre
<1>2. waiting' = w /\ \A u \in Ready(w, k) : Rotation(Idle) <= Rotation(u)
  BY <1>1, SwitchByWalk
<1>3. Console \notin Ready(w, k)
  BY <1>2, TheTasks DEF Rotation
<1> QED
  BY <1>2, <1>3, TheTasks DEF Ready

\* What a handler other than that of system call 5 does to the ticks.
LEMMA HandlerTicks ==
  ASSUME SchedulerInv, Handler, ticks[Console] = 0
  PROVE  /\ \A u \in Task :
              \/ ticks'[u] = ticks[u]
              \/ ticks'[u] = ticks[u] - 1 /\ (current = Idle \/ u > current)
         /\ ticks'[current'] = ticks[current']
         /\ current # Console /\ current' = Idle => waiting'[Console]
<1>1. PICK w, h : SwitchPre(w, h, ticks) /\ TasksSwitch(w, h, ticks)
  BY HandlerSwitches
<1>2. current \in Task
  BY DEF SchedulerInv, TasksTypeOK
<1>3. ASSUME NEW u \in Task
      PROVE  \/ ticks'[u] = ticks[u]
             \/ ticks'[u] = ticks[u] - 1 /\ (current = Idle \/ u > current)
  BY <1>1, <1>2, SwitchAges
<1>4. ticks'[current'] = ticks[current']
  BY <1>1, <1>2, ResumedKeepsTicks
<1>5. current # Console /\ current' = Idle => waiting'[Console]
  BY <1>1, <1>2, ConsoleBeforeIdle
<1> QED
  BY <1>3, <1>4, <1>5

\* Every step of the running system but the manager's is such a handler, or leaves
\* the tasks' fields alone.
LEMMA KernelHandlers ==
  ASSUME KernelInv, KernelNext
  PROVE  ManagerStep \/ Handler \/ UNCHANGED tvars
<1>0. Keyboard \in Irqs
  BY KernelAssumption
<1>1. CASE ConsoleStep
  <2>1. CASE ConsoleInit \/ ConsoleWait
    BY <1>0, <2>1, TheTasks DEF ConsoleInit, ConsoleWait, Runs, Handler
  <2>2. CASE ConsoleRead
    BY <2>2 DEF ConsoleRead
  <2>3. CASE ConsoleSend
    <3>1. sent + 1 \in Lines
      BY <2>3, KernelTypes DEF ConsoleSend
    <3> QED
      BY <2>3, <3>1, TheTasks DEF ConsoleSend, Runs, Handler
  <2> QED
    BY <1>1, <2>1, <2>2, <2>3 DEF ConsoleStep
<1>2. CASE ShellStep
  BY <1>2, TheTasks DEF ShellStep, ShellGets, ShellTake, ShellRun, ShellFault, Runs, Handler
<1>3. CASE ManagerStep
  BY <1>3
<1>4. ASSUME NEW n \in Irqs, OtherIrq(n) PROVE Handler
  BY <1>4 DEF OtherIrq, Handler
<1>5. ASSUME NEW k \in Key, KeyIrq(k) PROVE Handler
  BY <1>0, <1>5 DEF KeyIrq, Handler
<1>6. CASE Halted
  BY <1>6 DEF Halted, vars
<1> QED
  BY <1>1, <1>2, <1>3, <1>4, <1>5, <1>6 DEF KernelNext

\* What system call 5 of the manager does: the manager sleeps, somebody else runs,
\* and idle only if the console cannot.
LEMMA ManagerSleeps ==
  ASSUME KernelInv, ManagerStep, ticks[Console] = 0, ticks[Shell] = 0
  PROVE  /\ ticks'[Manager] = NapTicks
         /\ current' # Manager
         /\ current' = Idle => waiting'[Console]
         /\ \A u \in {Shell, Console} : ticks'[u] = 0 \/ ticks'[u] = -1
<1> DEFINE k == [ticks EXCEPT ![Manager] = NapTicks]
<1>1. current = Manager /\ SysSleep(NapTicks) /\ NapTicks \in Nat
  BY KernelAssumption, NapsAssumption DEF ManagerStep
<1>2. SchedulerInv /\ current # Idle
  BY <1>1, TheTasks DEF KernelInv
<1>3. SwitchPre(waiting, hits, k) /\ TasksSwitch(waiting, hits, k)
  BY <1>1, <1>2, PreAsleep DEF SysSleep
<1>4. k[Manager] = NapTicks /\ k[Console] = 0 /\ k[Shell] = 0
  BY FieldTypes, TheTasks
<1> HIDE DEF k
<1>5. ASSUME NEW u \in Task
      PROVE  \/ ticks'[u] = k[u]
             \/ ticks'[u] = k[u] - 1 /\ (current = Idle \/ u > current)
  <2>1. current \in Task
    BY <1>1, TheTasks
  <2> QED
    BY <1>3, <2>1, SwitchAges
<1>6. ticks'[Manager] = NapTicks
  BY <1>1, <1>4, <1>5, TheTasks
<1>7. current' = Idle => waiting'[Console]
  BY <1>1, <1>3, <1>4, TheTasks, ConsoleBeforeIdle
<1>8. current' # Manager
  <2>1. SUFFICES ASSUME current' = Manager PROVE FALSE
    OBVIOUS
  <2>2. Woken(waiting, hits) = {} /\ Idle \in Ready(waiting, k)
    BY <1>3, TheTasks DEF KernelInv, NoneLeftWoken, Ready, SwitchPre
  <2>3. Rotation(Manager) <= Rotation(Idle)
    BY <1>3, <2>1, <2>2, SwitchByWalk
  <2> QED
    BY <1>1, <2>3, TheTasks DEF Rotation
<1> QED
  BY <1>4, <1>5, <1>6, <1>7, <1>8, TheTasks

\* The state at the sti of interrupts_init.
LEMMA SleepInitInv == SleepInit => SleepInv
<1> SUFFICES ASSUME SleepInit PROVE SleepInv
  OBVIOUS
<1>1. KernelInv
  BY KernelInitInv DEF SleepInit
<1>2. ticks[Shell] = 0 /\ ticks[Console] = 0
  BY TheTasks DEF SleepInit, KernelInit, TasksInit
<1>3. NapTicks \in Nat /\ 0 \in 0..NapTicks
  BY KernelAssumption, NapsAssumption
<1> QED
  BY <1>1, <1>2, <1>3 DEF SleepInit, SleepInv, NapCovered

\* The history variables follow the running system: they add no step to it.
LEMMA SleepIsKernel ==
  ASSUME SleepNext PROVE KernelNext
BY DEF SleepNext, FallAsleep, LineRaised, KernelNext, ConsoleStep, ShellStep

\* Every step leaves the console and the shell awake, and takes at most a tick from
\* a sleeper, none from the task it resumes; only idle's loss is the manager's.
LEMMA SleepTicks ==
  ASSUME SleepInv, KernelNext, ~ManagerStep
  PROVE  /\ ticks'[Shell] = 0 /\ ticks'[Console] = 0
         /\ \/ ticks'[Manager] = ticks[Manager]
            \/ ticks'[Manager] = ticks[Manager] - 1 /\ current = Idle
         /\ current' = current \/ ticks'[current'] = ticks[current']
         /\ current # Console /\ current # Idle /\ current' = Idle => waiting'[Console]
<1>0. KernelInv /\ SchedulerInv /\ current \in Task /\ ticks[Shell] = 0 /\ ticks[Console] = 0
  BY FieldTypes DEF SleepInv, KernelInv
<1>1. SchedulerInv'
  BY <1>0, KernelSchedulerInv
<1>2. /\ ticks'[Shell] \in Nat /\ ticks'[Console] \in Nat
      /\ ticks[Manager] \in Nat
  BY <1>0, <1>1, TheTasks DEF SchedulerInv, TasksTypeOK
<1>3. CASE UNCHANGED tvars
  BY <1>0, <1>3, TheTasks DEF tvars
<1>4. CASE Handler
  <2>1. ASSUME NEW u \in Task
        PROVE  \/ ticks'[u] = ticks[u]
               \/ ticks'[u] = ticks[u] - 1 /\ (current = Idle \/ u > current)
    BY <1>0, <1>4, HandlerTicks
  <2>2. /\ ticks'[current'] = ticks[current']
        /\ current # Console /\ current' = Idle => waiting'[Console]
    BY <1>0, <1>4, HandlerTicks
  <2>3. ticks'[Shell] = 0 /\ ticks'[Console] = 0
    BY <1>0, <1>2, <2>1, TheTasks
  <2>4. \/ ticks'[Manager] = ticks[Manager]
        \/ ticks'[Manager] = ticks[Manager] - 1 /\ current = Idle
    BY <1>0, <2>1, TheTasks
  <2> QED
    BY <2>2, <2>3, <2>4, TheTasks
<1> QED
  BY <1>0, <1>3, <1>4, KernelHandlers

\* A step of the console or the shell resumes idle only when the console cannot go
\* on.
LEMMA TaskStepIdle ==
  ASSUME SleepInv, ConsoleStep \/ ShellStep
  PROVE  current \in {Shell, Console} /\ (current' = Idle => waiting'[Console])
<1>0. KernelInv
  BY DEF SleepInv
<1>1. CASE ConsoleStep
  <2>1. current = Console
    BY <1>1 DEF ConsoleStep, ConsoleInit, ConsoleRead, ConsoleSend, ConsoleWait, Runs
  <2>2. CASE ConsoleInit
    BY <1>0, <2>1, <2>2, ConsoleInitDoes, TheTasks
  <2>3. CASE ConsoleRead
    BY <2>1, <2>3, TheTasks DEF ConsoleRead, tvars
  <2>4. CASE ConsoleSend
    BY <1>0, <2>1, <2>4, ConsoleSendDoes, FieldTypes, TheTasks
  <2>5. CASE ConsoleWait
    BY <1>0, <2>1, <2>5, ConsoleWaitDoes, FieldTypes, TheTasks
  <2> QED
    BY <1>1, <2>2, <2>3, <2>4, <2>5 DEF ConsoleStep
<1>2. CASE ShellStep
  <2>1. current = Shell /\ KernelNext /\ ~ManagerStep
    BY <1>2, TheTasks DEF ShellStep, ShellGets, ShellTake, ShellRun, ShellFault, Runs,
       KernelNext, ManagerStep
  <2> QED
    BY <2>1, TheTasks, SleepTicks
<1> QED
  BY <1>1, <1>2

\* The two history variables keep their types, and the manager's nap ends where it
\* is resumed.
LEMMA NapStep ==
  ASSUME SleepInv, [SleepNext]_sleepvars
  PROVE  /\ napping' \in BOOLEAN /\ elapsed' \in 0..NapTicks
         /\ napping' => current' # Manager
<1>0. /\ KernelInv /\ napping \in BOOLEAN /\ elapsed \in 0..NapTicks /\ NapTicks \in Nat
      /\ napping => current # Manager
  BY KernelAssumption, NapsAssumption DEF SleepInv
<1>1. CASE FallAsleep
  <2>1. current' # Manager
    BY <1>0, <1>1, ManagerSleeps DEF FallAsleep, SleepInv
  <2> QED
    BY <1>0, <1>1, <2>1 DEF FallAsleep
<1>2. ASSUME NEW n \in Irqs, LineRaised(n)
      PROVE  /\ napping' \in BOOLEAN /\ elapsed' \in 0..NapTicks
             /\ napping' => current' # Manager
  <2>1. elapsed' = elapsed \/ (elapsed < NapTicks /\ elapsed' = elapsed + 1)
    BY <1>2 DEF LineRaised
  <2>2. elapsed' \in 0..NapTicks
    BY <1>0, <2>1
  <2>3. StillNapping
    BY <1>2 DEF LineRaised
  <2>4. napping' \in BOOLEAN /\ (napping' => current' # Manager)
    BY <2>3 DEF StillNapping
  <2> QED
    BY <2>2, <2>4
<1>3. CASE Meanwhile
  BY <1>0, <1>3 DEF Meanwhile, StillNapping
<1>4. CASE UNCHANGED sleepvars
  BY <1>0, <1>4 DEF sleepvars, vars, tvars
<1> QED
  BY <1>1, <1>2, <1>3, <1>4 DEF SleepNext

\* A nap stays covered: what idle loses to the timer the timer counts, and what it
\* loses to a key was counted by the timer before, without a loss.
LEMMA NapStaysCovered ==
  ASSUME SleepInv, SleepNext PROVE NapCovered'
<1> SUFFICES ASSUME Irqs = {0, Keyboard}, ~ahead', napping'
             PROVE  \/ elapsed' >= NapTicks
                    \/ ticks'[Manager] + elapsed' >= NapTicks + (IF KeyMayAge' THEN 1 ELSE 0)
  BY DEF NapCovered
<1>0. /\ KernelInv /\ KernelNext /\ elapsed \in 0..NapTicks /\ NapTicks \in Nat
      /\ ticks[Shell] = 0 /\ ticks[Console] = 0
      /\ ticks[Manager] \in Nat /\ ticks'[Manager] \in Nat
      /\ napping => current # Manager
  <2>1. SchedulerInv'
    BY SleepIsKernel, KernelSchedulerInv DEF SleepInv
  <2> QED
    BY <2>1, SleepIsKernel, FieldTypes, TheTasks, KernelAssumption, NapsAssumption
    DEF SleepInv, SchedulerInv, TasksTypeOK
<1>1. CASE FallAsleep
  <2>1. ticks'[Manager] = NapTicks /\ (current' = Idle => waiting'[Console]) /\ elapsed' = 0
    BY <1>0, <1>1, ManagerSleeps DEF FallAsleep
  <2> QED
    BY <1>0, <2>1 DEF KeyMayAge
\* From here on the manager was asleep before.
<1>2. ASSUME ~FallAsleep
      PROVE  /\ napping /\ ~ahead /\ ~ManagerStep
             /\ \/ elapsed >= NapTicks
                \/ ticks[Manager] + elapsed >= NapTicks + (IF KeyMayAge THEN 1 ELSE 0)
  <2>1. napping /\ StillNapping
    BY <1>2 DEF SleepNext, LineRaised, Meanwhile, StillNapping
  <2>2. ~ahead
    BY <1>0 DEF KernelNext, ConsoleStep, ConsoleInit, ConsoleRead, ConsoleSend, ConsoleWait,
       ShellStep, ShellGets, ShellTake, ShellRun, ShellFault, ManagerStep, OtherIrq, KeyIrq,
       Halted, vars
  <2>3. ~ManagerStep
    BY <1>0, <2>1 DEF ManagerStep
  <2> QED
    BY <2>1, <2>2, <2>3 DEF SleepInv, NapCovered
<1>3. ASSUME ~FallAsleep
      PROVE  /\ \/ ticks'[Manager] = ticks[Manager]
                \/ ticks'[Manager] = ticks[Manager] - 1 /\ current = Idle
             /\ current # Console /\ current # Idle /\ current' = Idle => waiting'[Console]
      BY <1>0, <1>2, <1>3, SleepTicks
<1>4. ASSUME ~FallAsleep, NEW n \in Irqs, LineRaised(n)
      PROVE  \/ elapsed' >= NapTicks
             \/ ticks'[Manager] + elapsed' >= NapTicks + (IF KeyMayAge' THEN 1 ELSE 0)
  <2>1. n = 0 /\ OtherIrq(n)
    BY <1>4 DEF LineRaised, OtherIrq
  <2>2. (elapsed >= NapTicks /\ elapsed' = elapsed) \/ elapsed' = elapsed + 1
    BY <1>0, <1>4, <2>1 DEF LineRaised
  <2>3. CASE current = Idle
    <3>1. ~KeyMayAge'
      <4>1. SchedulerInv /\ Handler
        BY <1>0, <2>1 DEF KernelInv, OtherIrq, Handler
      <4>2. current' = Idle => waiting'[Console]
        BY <1>0, <2>3, <4>1, HandlerTicks, TheTasks
      <4> QED
        BY <4>2 DEF KeyMayAge
    <3> QED
      BY <1>0, <1>2, <1>3, <1>4, <2>2, <3>1
  <2>4. CASE current # Idle
    BY <1>0, <1>2, <1>3, <1>4, <2>2, <2>4
  <2> QED
    BY <2>3, <2>4
<1>5. ASSUME ~FallAsleep, NEW k \in Key, KeyIrq(k), Meanwhile
      PROVE  \/ elapsed' >= NapTicks
             \/ ticks'[Manager] + elapsed' >= NapTicks + (IF KeyMayAge' THEN 1 ELSE 0)
  <2>1. ~KeyMayAge' /\ elapsed' = elapsed
    BY <1>5 DEF KeyMayAge, KeyIrq, Meanwhile
  <2>2. CASE ticks'[Manager] = ticks[Manager]
    BY <1>0, <1>2, <1>5, <2>1, <2>2
  <2>3. CASE ticks'[Manager] # ticks[Manager]
    <3>1. ticks'[Manager] = ticks[Manager] - 1 /\ current = Idle
      BY <1>3, <1>5, <2>3
    <3>2. ~(waiting[Console] /\ irqNo[Console] = Keyboard)
      BY <1>0, <1>5, <2>3, KeyIrqDoes
    <3>3. ~waiting[Console]
      BY <1>0, <1>2, <1>5, <3>2 DEF KernelInv, BlockedInCall, AtPrompt
    <3>4. KeyMayAge
      BY <1>5, <3>1, <3>3 DEF KeyMayAge, KeyIrq
    <3> QED
      BY <1>0, <1>2, <1>5, <2>1, <3>1, <3>4
  <2> QED
    BY <2>2, <2>3
<1>6. ASSUME ~FallAsleep, ConsoleStep \/ ShellStep, Meanwhile
      PROVE  \/ elapsed' >= NapTicks
             \/ ticks'[Manager] + elapsed' >= NapTicks + (IF KeyMayAge' THEN 1 ELSE 0)
  <2>1. current # Idle /\ ~KeyMayAge' /\ elapsed' = elapsed
    BY <1>6, TaskStepIdle, TheTasks DEF KeyMayAge, Meanwhile
  <2> QED
    BY <1>0, <1>2, <1>3, <1>6, <2>1
<1>7. ASSUME ~FallAsleep, Halted, Meanwhile
      PROVE  \/ elapsed' >= NapTicks
             \/ ticks'[Manager] + elapsed' >= NapTicks + (IF KeyMayAge' THEN 1 ELSE 0)
  BY <1>0, <1>2, <1>7 DEF Halted, Meanwhile, KeyMayAge, vars, tvars, hardware
<1> QED
  BY <1>1, <1>4, <1>5, <1>6, <1>7 DEF SleepNext, ConsoleStep, ShellStep

\* Every step of the sleep's specification keeps its invariant.
LEMMA SleepStepInv ==
  ASSUME SleepInv, [SleepNext]_sleepvars PROVE SleepInv'
<1>1. KernelInv'
  BY SleepIsKernel, KernelStepInv DEF SleepInv, sleepvars
<1>2. /\ napping' \in BOOLEAN /\ elapsed' \in 0..NapTicks
      /\ napping' => current' # Manager
  BY NapStep
<1>3. CASE SleepNext
  <2>1. ticks'[Shell] = 0 /\ ticks'[Console] = 0
    <3>1. CASE ManagerStep
      <4>1. \A u \in {Shell, Console} : ticks'[u] = 0 \/ ticks'[u] = -1
        BY <3>1, ManagerSleeps DEF SleepInv
      <4>2. ticks'[Shell] \in Nat /\ ticks'[Console] \in Nat
        BY <1>1, TheTasks DEF KernelInv, SchedulerInv, TasksTypeOK
      <4> QED
        BY <4>1, <4>2
    <3> QED
      BY <1>3, <3>1, SleepIsKernel, SleepTicks
  <2> QED
    BY <1>1, <1>2, <1>3, <2>1, NapStaysCovered DEF SleepInv
<1>4. CASE UNCHANGED sleepvars
  <2>1. NapCovered' = NapCovered
    BY <1>4 DEF NapCovered, KeyMayAge, sleepvars, vars, tvars, hardware
  <2> QED
    BY <1>1, <1>2, <1>4, <2>1 DEF SleepInv, sleepvars, vars, tvars
<1> QED
  BY <1>3, <1>4

\* The invariant of the running system with the manager's sleep: a nap is covered by
\* the ticks left and the timer interrupts that came.
THEOREM SleepInductive == SleepSpec => []SleepInv
BY SleepInitInv, SleepStepInv, PTL DEF SleepSpec

\* With Enter pressed at the prompt only, and nothing but the timer and the keyboard
\* to interrupt, system call 5 lets the manager sleep for as many timer interrupts as
\* it asked for, whatever the number and whatever keys are typed meanwhile.
THEOREM NapsLongEnough == SleepSpec => NapsAtPrompt
<1>1. ASSUME SleepInv, SleepNext, Irqs = {0, Keyboard}, napping, current' = Manager, ~ahead'
      PROVE  elapsed' >= NapTicks
  <2>1. /\ KernelInv /\ KernelNext /\ ~ManagerStep /\ current # Manager
        /\ elapsed \in 0..NapTicks /\ NapTicks \in Nat
    BY <1>1, SleepIsKernel, KernelAssumption, NapsAssumption DEF SleepInv, ManagerStep
  <2>2. ticks[Manager] = 0
    <3>1. ticks'[Manager] = ticks[Manager]
      BY <1>1, <2>1, SleepTicks
    <3>2. SchedulerInv'
      BY <2>1, KernelSchedulerInv
    <3> QED
      BY <1>1, <3>1, <3>2 DEF SchedulerInv, CurrentReady, Ready
  <2>3. ~ahead
    BY <1>1, <2>1 DEF KernelNext, ConsoleStep, ConsoleInit, ConsoleRead, ConsoleSend,
       ConsoleWait, ShellStep, ShellGets, ShellTake, ShellRun, ShellFault, ManagerStep,
       OtherIrq, KeyIrq, Halted, vars
  <2>4. elapsed >= NapTicks
    BY <1>1, <2>1, <2>2, <2>3 DEF SleepInv, NapCovered
  <2>5. elapsed' >= elapsed
    BY <1>1, <2>1 DEF SleepNext, FallAsleep, LineRaised, Meanwhile
  <2> QED
    BY <2>1, <2>4, <2>5
<1>2. SleepInv /\ [SleepNext]_sleepvars =>
        [Irqs = {0, Keyboard} /\ napping /\ current' = Manager /\ ~ahead' =>
           elapsed' >= NapTicks]_sleepvars
  BY <1>1
<1> QED
  BY <1>2, SleepInductive, PTL DEF SleepSpec, NapsAtPrompt

=============================================================================
