SPECIFICATION FairSpec
CONSTANTS
  BlockBits = 3
  BlockColumns = 2
  ParitiesLength = 13
  HeaderSize = 3
  EstimateSlack = 1
  SizeModulus = 11
  MaxMessage = 4
  GiantStep = 2
  NULL = NULL
  SameKeys = {TRUE, FALSE}
PROPERTIES EmbeddingEnds RetrievalEnds
