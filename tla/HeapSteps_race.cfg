\* Two tasks that share the heap.
CONSTANTS
  Callers = {1, 2}
  Lower = 4
  Upper = 100
  Sizes = {4}
  MaxHeld = 2
  Word = 65536
SPECIFICATION StepsSpec
INVARIANTS
  NoFalseReport
