\* Reads may be short; a block is two bytes.
SPECIFICATION Spec
CONSTANTS
  Byte = {0, 1}
  Junk = Junk
  BufLen = 2
  Room = 4
  MaxLen = 5
  ShortReads = TRUE
  ShortWrites = FALSE
INVARIANTS
  CopiesWhatWasRead
  ReadsToTheEnd
  DiffCorrect
