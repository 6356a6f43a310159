SPECIFICATION Spec
CONSTANTS
  g1 = g1
  Goroutine <- OneGoroutine
  Dim <- MCDim
  Dimensionless = "1"
  Catalog <- MCCatalog
  Scope <- MixedScopes
  Value <- MCValue
  Eval <- MCEval
  MaxActive = 2
  Infinite = Infinite
  Mismatch = Mismatch
  Unknown = Unknown
  NonFinite = NonFinite
  NoTransform = NoTransform
  None = None
INVARIANTS TypeOK CompiledAnswers LiveAnswers AcceptedConverts HopsLand PathsAreShortest
