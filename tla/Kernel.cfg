\* The user types at any time; programs may divide by zero.  There is a line for
\* every scancode, so that the bound on lines stops nobody.
CONSTANTS
  N = 4
  Irqs = {0, 1}
  Lines = {1, 2, 3, 4}
  Naps = {3}
  NapTicks = 3
  Garbage = {1}
  MaxHits = 0
  MaxKeys = 3
  MaxLines = 4
  Faults = TRUE
SPECIFICATION FairSleepSpec
INVARIANTS
  SleepInv
  PassesMatchBytes
  WaitsOnKeyboard
  ParkedLineIsFresh
  WaiterIsInGets
PROPERTIES
  ChannelSafe
  NapsAtPrompt
  BytesAreRead
  LinesGoOn
  ManagerRedraws
