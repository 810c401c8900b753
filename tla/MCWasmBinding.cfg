SPECIFICATION BindingSpec
CONSTANTS
  a = a
  b = b
  g = g
  x = x
  y = y
  Param = Param
  Literals = {a, b, g}
  Values = {a, b, g}
  Names = {x, y}
  Garbled = {g}
  Dispatched = {"GET", "POST"}
  Keys <- MCKeys
  Paths <- MCPaths
  Patterns <- MCPatterns
  Verbs = {}
  Requests <- MCRequests
  MaxRoutes = 3
INVARIANTS BindingTypeOK DispatchedAsListed KeysOnce DumpShowsListed
PROPERTIES ResultsKept
