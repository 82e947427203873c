SPECIFICATION FairSpec
CONSTANTS
  BlockBits = 2
  BlockColumns = 3
  ParitiesLength = 20
  HeaderSize = 2
  EstimateSlack = 1
  SizeModulus = 12
  MaxMessage = 7
  GiantStep = 2
  NULL = NULL
  SameKeys = {TRUE}
INVARIANT UnsignedIntIsEnough
