SPECIFICATION Spec
CONSTANTS
  g1 = g1
  Goroutine <- OneGoroutine
  Dim <- MCDim
  Dimensionless = "1"
  Catalog <- MCCatalog
  Scope <- PairScopes
  Value <- OneValue
  Eval <- MCEval
  MaxActive = 0
  Infinite = Infinite
  Mismatch = Mismatch
  Unknown = Unknown
  NonFinite = NonFinite
  NoTransform = NoTransform
  None = None
INVARIANTS OwnParameters
