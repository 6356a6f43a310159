SPECIFICATION Spec
CONSTANTS
  Line <- QueryLine
  Embedded <- MCEmbedded
  Meaning <- MCMeaning
  Identifier <- MCIdentifier
  Bracketed <- MCBracketed
  DeltaName <- MCDeltaName
  Split <- MCSplit
  Plural <- MCPlural
  PrefixedName <- MCPrefixedName
  Asked <- QueryAsked
  Place <- QueryPlace
  Policy <- MCPolicy
  Inclusion = {}
  Stray <- QueryStray
  MaxLines = 2
  MaxLoads = 1
  MaxCalls = 2
  MaxDepth = 6
INVARIANTS CachesStayFresh RootCoversRegistry BaseUnitsKeepAmount
PROPERTY DimensionsStay
CHECK_DEADLOCK FALSE
