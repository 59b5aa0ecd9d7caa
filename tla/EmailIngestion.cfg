CONSTANTS
  Pollers = {legacy, tenant}
  BatchSize = 2
  MaxMails = 2
  MaxRebuilds = 1
  MaxCrashes = 1
  MaxFailures = 1
SPECIFICATION FairSpec
INVARIANTS OffsetCovers NoRowStranded
PROPERTY EveryMailIsTaken
