CONSTANTS
  Workers = {w1, w2}
  NoOne = NoOne
  MaxExcuses = 0
  MaxFailures = 1
SPECIFICATION FairSpec
PROPERTY CrashedOwnerIsReplaced
