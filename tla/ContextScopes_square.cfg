SPECIFICATION Spec
CONSTANTS
  g1 = g1
  Goroutine <- OneGoroutine
  Dim <- MCDim
  Dimensionless = "1"
  Catalog <- MCCatalog
  Scope <- SquareScopes
  Value <- MCValue
  Eval <- MCEval
  MaxActive = 0
  Infinite = Infinite
  Mismatch = Mismatch
  Unknown = Unknown
  NonFinite = NonFinite
  NoTransform = NoTransform
  None = None
INVARIANTS ConvertMatchesTo
