SPECIFICATION Spec
CONSTANTS
  Number <- MCNumber
  Ident <- MCIdent
  MaxTokens = 5
  Catalog <- MCCatalog
  Dimension <- MCDimension
  Delta <- MCDelta
  Stem <- MCStem
  Prefixed <- MCPrefixed
  Rank <- MCRank
  siPrefixOrder <- MCsiPrefixOrder
  Spelling <- MCSpelling
  Stock <- MCStock
  Companions <- MCCompanions
  Exponents <- MCExponents
  Factors <- MCFactors
  Magnitudes <- MCMagnitudes
  MaxRead = 3
  MaxOperations = 2
  MaxNumerator = 1200
  MaxDenominator = 8
  MaxDegree = 2
INVARIANTS TypeOK ParserMatchesGrammar StackExplains CompactReadable PiGroupsComplete
PROPERTY ImplementsMeasures
CHECK_DEADLOCK FALSE
