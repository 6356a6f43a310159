SPECIFICATION Spec
CONSTANTS
  g1 = g1
  g2 = g2
  Goroutine <- MCGoroutine
  Catalog <- MCCatalog
  Expr <- MetricExpr
  Container <- MetricContainer
  Name <- MCName
  Dim <- MCDim
  Factor <- MCFactor
  Request <- MetricRequests
  MaxLoads = 0
  Empty = "1"
  Dimensionless = "[]"
  Absent = Absent
  Free = Free
  Undefined = Undefined
  Mismatch = Mismatch
  Identity = Identity
  Compiled = Compiled
  ParseOf <- MCParseOf
  InternsOf <- MCInternsOf
  WalkOf <- MCWalkOf
  DimOf <- MCDimOf
  FactorOf <- MCFactorOf
  Ratio <- MCRatio
  OffsetOf <- MCOffsetOf
  LogOf <- MCLogOf
  InvalidOf <- MCInvalidOf
  DeltaMixOf <- MCDeltaMixOf
  RefOf <- MCRefOf
  HeaderOf <- MCHeaderOf
INVARIANTS NoDataRace
CHECK_DEADLOCK FALSE
