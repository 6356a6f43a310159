SPECIFICATION Spec
CONSTANTS
  File <- CatalogFiles
  Lookup <- CatalogLookups
  Policy <- BothPolicies
  Token <- MCToken
  Letter <- MCLetter
  MaxLoads = 3
INVARIANTS TypeOK SpellingsLead SynthesizedCurrent DeltasExist ParsesStayFresh ParsedUnitsDefined UniqueProducts
PROPERTIES NothingRedefined
