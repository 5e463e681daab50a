SPECIFICATION Spec
CONSTANTS
  None = None
  Pens = {pen}
  Others = {mouse}
  HistoryCap = 2
  Xs = {0, 1, 7}
  Ts = {0, 3}
  MaxPerMessage = 3
  MaxReports = 4
  MaxFaults = 1
  Spacing = 2
  MaxStampsPerSegment = 2
  MaxDelta = 2
  DirtyReserve = 2
  TileSize = 3
INVARIANTS StrokesAreClosed StampsAreEven CompositorSeesAll
CHECK_DEADLOCK FALSE
