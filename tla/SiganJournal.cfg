\* Every record path, every way to end, and a disk that may refuse any flush.
SPECIFICATION Spec
CONSTANTS
  BufCapacity = 2
  DiskFails = TRUE
  MaxSeq = 3
  MaxNotes = 1
  Ends = {"closed", "killed", "powerOff"}
INVARIANTS TypeOK  AckedStaysOnFile ReadInOrder
 
CHECK_DEADLOCK FALSE
