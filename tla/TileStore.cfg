SPECIFICATION Spec
CONSTANTS
  Map = {layer, copy}
  Target = layer
  Coord = {c1}
  Part = {p1}
  Ink = {clear, red}
  Transparent = clear
  None = None
  Orphan = Orphan
  Buffer = {1, 2, 3}
INVARIANT CachedBlankIsTrue
INVARIANT DiffMissesNothing
PROPERTY SharingIsInvisible
CHECK_DEADLOCK FALSE
