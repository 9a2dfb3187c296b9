\* A screen of three rows of three cells; lines and printed strings run past the
\* end of a row and of the screen, and strings run past the range of vx.
SPECIFICATION Spec
CONSTANTS
  Width = 3
  Height = 3
  Byte = 7
  TabStop = 2
  Characters <- Chars
  Keys = {"letter", "tab", "backspace", "enter", "shift", "release", "capslock"}
  Outputs <- Texts
  Initial = 2
  MaxLine = 4
INVARIANTS EditorInv EchoIsLine PutsAsPutcs
