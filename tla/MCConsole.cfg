SPECIFICATION ConsoleSpec
CONSTANTS
  Tty = {t1, t2}
  NoTty = NoTty
  INPUT_BUF = 2
  UINT = 4
  ReadSizes = {0, 1, 3}
INVARIANTS ConsoleInv
PROPERTIES ConsoleImplements EofIsZeroRead WritesEnd
\* A full console whose readers are all killed stops.
CHECK_DEADLOCK FALSE
