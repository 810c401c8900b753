SPECIFICATION Spec
CONSTANTS
  Server = Server
  Router = Router
  SubRouter = SubRouter
  Paths <- MCPaths
  Scopes <- MCScopes
  MountPaths <- MCMountPaths
  MaxUses = 3
  MaxRoutes = 1
INVARIANT SubRouterGuarded
