SPECIFICATION Spec
CONSTANTS
  a1 = a1
  a2 = a2
  none = none
  direct = direct
  sboxA = sboxA
  sboxB = sboxB
  xrayA = xrayA
  n1 = n1
  n2 = n2
  src = src
  None = none
  Direct = direct
  XrayShapes = {xrayA}
  Admins = {a1, a2}
  Ids = {1, 2}
  RouteImports <- MCRouteImports
  RelayImports <- MCRelayImports
  Names = {n1, n2}
  InitialName <- MCInitialName
  RouteDocs <- MCRouteDocs
  PageSize = 1
  MaxEdits = 2
SYMMETRY Symmetry
CHECK_DEADLOCK FALSE
INVARIANT TypeOK
INVARIANT ReferencesResolve
INVARIANT InstalledResolves
INVARIANT ScanComplete
PROPERTY NoLostEdit
PROPERTY AppliedAsReviewed
