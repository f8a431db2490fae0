SPECIFICATION FairSpec
CONSTANTS
  cfgRow = cfgRow
  useRow = useRow
  routes = routes
  key = key
  names = names
  routeLoadMu = routeLoadMu
  accessKeyLoadMu = accessKeyLoadMu
  Free = Free
  Row = {cfgRow, useRow}
  Item = {routes, names}
  RouteItem = {routes}
  RouteRow = {useRow}
  Lock = {routeLoadMu, accessKeyLoadMu}
  RowsOf <- MCRowsOf
  LockOf <- MCLockOf
  Reader = {r1, r2}
  Mutator = {m1, m2}
  MaxVersion = 1
INVARIANTS
  CacheCoherent
PROPERTIES
  ImplementsRegister
  EveryReadReturns
