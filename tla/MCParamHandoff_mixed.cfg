SPECIFICATION Spec
CONSTANTS
  Threads = {t1, t2}
  t1 = t1
  Asks <- MCAsks
  Texts = {"p"}
  Blank = ""
  NoThread = None
INVARIANTS RightParameter
\* All commands have run, or the threads and the GUI wait for each other.
CHECK_DEADLOCK FALSE
