SPECIFICATION WetSpec
CONSTANTS
  NoOfMembers = 2
  MaxCover = 2
  FullSteps = {1}
  ReducedSteps = {3}
  Thresholds = {50}
INVARIANT FlipsToANeighbour
