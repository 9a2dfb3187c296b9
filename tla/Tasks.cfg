\* Two tasks and idle; the timer and the keyboard interrupt.
CONSTANTS
  N = 3
  Irqs = {0, 1}
  Lines = {1}
  Naps = {0, 2}
  Garbage = {0, 1}
  MaxHits = 2
SPECIFICATION TasksSpec
INVARIANTS
  SchedulerInv
PROPERTIES
  SleepersAge
  HitsWake
