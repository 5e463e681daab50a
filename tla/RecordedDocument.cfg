\* Drawing, undo and redo over a disk that may refuse any flush.
SPECIFICATION Spec
CONSTANTS
  BufCapacity = 2
  DiskFails = TRUE
  Tile = {t1, t2}
  MaxOps = 3
  UndoLimit = 2
  Uses = {"undo", "redo"}
INVARIANTS UndoChain RecordedWhileRecording TallyMatchesJournal
 
CHECK_DEADLOCK FALSE
