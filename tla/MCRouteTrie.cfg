SPECIFICATION Spec
CONSTANTS
  a = a
  b = b
  x = x
  y = y
  Param = Param
  Literals = {a, b}
  Values = {a, b}
  Names = {x, y}
  Patterns <- MCPatterns
  Requests <- MCRequests
  Verbs = {"GET", "HEAD"}
  MaxRoutes = 3
INVARIANTS TypeOK BindingsOfPath
PROPERTIES ImplementsTable
