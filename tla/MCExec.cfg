SPECIFICATION ExecuteSpec
CONSTANTS
  Threads = {t1, t2}
  Programs <- MCPrograms
  NulChars <- MCNulChars
  BufferSize = 3
  Capacity = 4
  MayFail = {"pipe", "fork", "read"}
  Alphabet <- MCAlphabet
  Pieces <- MCPieces
  LastPieces <- MCLastPieces
  MaxPieces = 2
  Params <- MCParams
  MaxParams = 2
INVARIANTS TypeOK NothingMissing StreamsSeparate NothingLeftOpen InputStaysOpen Substitutes
PROPERTY RunsEnd
\* The commands have run, or one of them is starved.
CHECK_DEADLOCK FALSE
