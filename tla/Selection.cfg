SPECIFICATION Spec
CONSTANTS
  Full = 2
  TileSize = 2
  Widths = {3, 4}
  Radii = {1}
INVARIANT DrawingReachesSelection
INVARIANT BehavesPixelByPixel
CHECK_DEADLOCK FALSE
