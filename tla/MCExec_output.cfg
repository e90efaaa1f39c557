SPECIFICATION ExecuteSpec
CONSTANTS
  Threads = {t1}
  Programs <- MCPrograms
  NulChars <- MCNoNul
  BufferSize = 5
  Capacity = 4
  MayFail = {}
  Alphabet <- MCAlphabet
  Pieces <- MCPieces
  LastPieces <- MCLastPieces
  MaxPieces = 0
  Params <- MCParams
  MaxParams = 2
INVARIANTS OutputFaithful
CHECK_DEADLOCK FALSE
