SPECIFICATION Spec
CONSTANTS
  Line <- TextLine
  Embedded <- MCEmbedded
  Meaning <- MCMeaning
  Identifier <- MCIdentifier
  Bracketed <- MCBracketed
  DeltaName <- MCDeltaName
  Split <- MCSplit
  Plural <- MCPlural
  PrefixedName <- MCPrefixedName
  Asked = {}
  Place = {}
  Policy <- MCPolicy
  Inclusion <- TextInclusion
  Stray <- TextStray
  MaxLines = 3
  MaxLoads = 2
  MaxCalls = 1
  MaxDepth = 8
INVARIANTS TypeOK ParsedAsSections WalksEnd WalksAnswer ExpandedIsInclusion
PROPERTY AddGroupsAcyclic
CHECK_DEADLOCK FALSE
