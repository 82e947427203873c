\* The pool under every legal order of requests, denials and commits.
SPECIFICATION Spec
CONSTANTS
  GiantStep = 2
  Sizes = {0, 1, 2, 3, 5}
  MaxDigests = 6
  CopyDirections = {"forward"}
  NULL = NULL
  Garbage = Garbage
INVARIANTS TypeOK PoolHoldsTheNextKey KeyIsConserved
PROPERTIES ImplementsKeyStream
