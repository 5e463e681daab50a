\* A Sigan that stops, starts and always asks for the first frame it misses,
\* over a disk that may refuse any flush.
SPECIFICATION FairSpec
CONSTANTS
  BufCapacity = 2
  DiskFails = TRUE
  MaxSeq = 3
  MaxStops = 1
  PipeFrames = 1
  PeerAnswers = {"resume"}
  PumpedWhenIdle = TRUE
 
PROPERTIES ImplementsStream 
CHECK_DEADLOCK FALSE
