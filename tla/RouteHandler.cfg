\* Up to three handlers over paths of at most three parts.
SPECIFICATION Spec
CONSTANTS
  Literals = {"a", "b{", "value"}
  Braced = {"b{"}
  Params = {"{x}", "{y}"}
  Paths <- MCPaths
  Targets <- MCTargets
  MaxAdds = 3
  None = None
CHECK_DEADLOCK FALSE
INVARIANTS
  TypeOK
  OneParameterPerLevel
  RoutesMatch
  LatestIsReached
PROPERTIES
  ThrowChangesNothing
