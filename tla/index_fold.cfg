SPECIFICATION Spec
CONSTANTS
  Path = {p}
  Note = {n1, n2}
  Remember = {n1, n2}
  PathOf <- MCPathOf
  NoteOf <- MCNoteOf
  MaxChunk = 3
  Budget = 0
  None = None
PROPERTY RememberPreserves
CHECK_DEADLOCK FALSE
