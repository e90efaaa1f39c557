SPECIFICATION WindowSpec
CONSTANTS
  Threads <- MCThreads
  Asks <- MCAsks
  Texts = {"p"}
  Blank = ""
  NoThread = None
  MaxConnections = 2
INVARIANTS WindowTypeOK ConversationsApart NothingDeletedInUse NoEarlyParameter RightParameterInTurn
PROPERTIES CommandsEnd GuiResponds
\* The window is gone, or the program has ended in another way.
CHECK_DEADLOCK FALSE
