SPECIFICATION FairSpec
CONSTANTS
  Path = {p}
  Note = {n1}
  Remember = {n1}
  PathOf <- MCPathOf
  NoteOf <- MCNoteOf
  MaxChunk = 3
  Budget = 1
  None = None
INVARIANTS
  VectorsMatchChunks
  SettledMatchesFile
 
CHECK_DEADLOCK FALSE
