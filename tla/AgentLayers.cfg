SPECIFICATION Spec
CONSTANTS
  MaxId = 4
  Name = {"layer", "lineart"}
  Pix = {0, 1}
  Role = {"line"}
  RoleOf <- MCRoleOf
  NoRole = "norole"
  Address <- MCAddress
  NewLayer <- MCNewLayer
  Props <- MCProps
  Limit = 1
  Deepest = 4
  MaxRequests = 4
INVARIANT TreeIsSound
INVARIANT SavedTreeComesBack
PROPERTY RestoreBringsBack
 
PROPERTY RefusedChangesNothing
CHECK_DEADLOCK FALSE
