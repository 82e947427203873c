SPECIFICATION FairSpec
CONSTANTS
  BlockBits = 2
  BlockColumns = 3
  ParitiesLength = 12
  HeaderSize = 2
  EstimateSlack = 1
  SizeModulus = 1000
  MaxMessage = 2
  GiantStep = 2
  NULL = NULL
  SameKeys = {FALSE}
INVARIANT RetrievalFailureIsReported
