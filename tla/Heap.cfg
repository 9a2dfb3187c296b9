\* One caller; sizes around the limit of 20 spare bytes of the test for a split.
CONSTANTS
  Lower = 2
  Upper = 131
  Sizes = {0, 1, 4, 23}
SPECIFICATION HeapSpec
INVARIANTS
  HeapInv
  Accounting
  Aligned
  NullIsNoExpr
PROPERTIES
  ArenaSpec
