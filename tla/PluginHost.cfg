SPECIFICATION FilterSpec
CONSTANTS
  Nothing = Nothing
  MaxCalls = 3
  MaxHosts = 3
INVARIANT BlameIsFair
PROPERTIES ApplyReturns HostsEnd
CHECK_DEADLOCK FALSE
