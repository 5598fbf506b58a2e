SPECIFICATION Spec
CONSTANTS
  Infinity = 5
  Initial = {0, 1, 3, 5}
  Advertised <- MCAdvertised
  Priorities <- MCPriorities
  Wanted = 2
INVARIANTS
  TypeOK
  AskedMeansRealtime
