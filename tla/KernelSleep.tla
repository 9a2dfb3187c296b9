---------------------------- MODULE KernelSleep ----------------------------
(***************************************************************************)
(* How long system call 5 sleeps.  waiting_ticks counts neither time nor   *)
(* timer interrupts: tasks_switch takes one whenever it walks past the     *)
(* sleeper, whatever began the walk.  The walk stops at idle, the last of  *)
(* the list, so that it comes past manager_task, the first, only when it   *)
(* begins at idle: with an interrupt of any device that wakes nobody.  Two *)
(* history variables set the sleep of manager_task against the timer.      *)
(***************************************************************************)
EXTENDS Kernel

VARIABLES
  napping,  \* the manager has called system call 5 and was not resumed since
  elapsed   \* timer interrupts since it called, counted up to NapTicks

sleepvars == <<vars, napping, elapsed>>

SleepInit == KernelInit /\ napping = FALSE /\ elapsed = 0

\* Whatever resumes the manager ends its nap.
StillNapping == napping' = (napping /\ current' # Manager)

FallAsleep ==
  /\ ManagerStep
  /\ napping' = TRUE
  /\ elapsed' = 0

LineRaised(n) ==
  /\ OtherIrq(n)
  /\ elapsed' = IF n = 0 /\ elapsed < NapTicks THEN elapsed + 1 ELSE elapsed
  /\ StillNapping

\* What tells nothing of the time.
Meanwhile == UNCHANGED elapsed /\ StillNapping

SleepNext ==
  \/ FallAsleep
  \/ \E n \in Irqs : LineRaised(n)
  \/ \E k \in Key : KeyIrq(k) /\ Meanwhile
  \/ ConsoleInit /\ Meanwhile
  \/ ConsoleRead /\ Meanwhile
  \/ ConsoleSend /\ Meanwhile
  \/ ConsoleWait /\ Meanwhile
  \/ ShellGets /\ Meanwhile
  \/ ShellTake /\ Meanwhile
  \/ ShellRun /\ Meanwhile
  \/ ShellFault /\ Meanwhile
  \/ Halted /\ Meanwhile

SleepSpec == SleepInit /\ [][SleepNext]_sleepvars
FairSleepSpec == SleepSpec /\ KernelFairness

-----------------------------------------------------------------------------
\* System call 5 lets its caller "wait at least ebx ticks": the manager is not
\* resumed before that many timer interrupts.
AtLeastTicks ==
  [][napping /\ current' = Manager => elapsed' >= NapTicks]_sleepvars

\* It is so for a user who presses Enter at the prompt only, on a machine where
\* nothing but the timer and the keyboard interrupts: interrupts_init lets every
\* line through, and those of other devices take ticks as the timer's do.
NapsAtPrompt ==
  [][Irqs = {0, Keyboard} /\ napping /\ current' = Manager /\ ~ahead' =>
       elapsed' >= NapTicks]_sleepvars

\* Why: only what interrupts idle takes a tick from the manager.  That is the
\* timer, or a key typed while the console is ready to run and idle was given
\* the rest of its time slice; the timer interrupt that did so took no tick.
KeyMayAge == current = Idle /\ ~waiting[Console] /\ ~obf
NapCovered ==
  Irqs = {0, Keyboard} /\ ~ahead /\ napping =>
    \/ elapsed >= NapTicks
    \/ ticks[Manager] + elapsed >= NapTicks + (IF KeyMayAge THEN 1 ELSE 0)

SleepInv ==
  /\ KernelInv
  /\ napping \in BOOLEAN /\ elapsed \in 0..NapTicks
  /\ napping => current # Manager
  /\ ticks[Shell] = 0 /\ ticks[Console] = 0
  /\ NapCovered

=============================================================================
