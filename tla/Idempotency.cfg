CONSTANTS
  Workers = {w1, w2, w3}
  NoOne = NoOne
  MaxExcuses = 2
  MaxFailures = 1
SPECIFICATION FairSpec
INVARIANTS OnlyOwnerInside
PROPERTIES ImplementsBudget Settles
