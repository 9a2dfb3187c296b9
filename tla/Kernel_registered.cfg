\* The user may press Enter at any time.
CONSTANTS
  N = 4
  Irqs = {0, 1}
  Lines = {1, 2, 3}
  Naps = {2}
  NapTicks = 2
  Garbage = {1}
  MaxHits = 0
  MaxKeys = 3
  MaxLines = 3
  Faults = FALSE
SPECIFICATION KernelSpec
INVARIANTS
  WaitsOnRegisteredIrq
