\* One caller, whose calls are not interrupted.
CONSTANTS
  Callers = {1}
  Caller = 1
  Lower = 4
  Upper = 108
  Sizes = {4, 24}
  MaxHeld = 4
  Word = 65536
SPECIFICATION AloneSpec
PROPERTIES
  ImplementsHeap
