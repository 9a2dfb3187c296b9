\* Two tasks that write any strings on a screen of two rows of three cells.
CONSTANTS
  Tasks = {t1, t2}
  Width = 3
  Height = 2
  Byte = 7
  TabStop = 2
SPECIFICATION AloneSpec
INVARIANTS
  ScreenInv
  CursorOnScreen
PROPERTIES
  AsScreen
  LastCallReturns
