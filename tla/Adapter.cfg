SPECIFICATION FairSpec
CONSTANTS
  Scans = {s1, s2, s3}
  MaxConcurrency = 1
  Disturbed = {s2}
INVARIANTS SlotsConserved PayloadLives OrphansAreExplained VerdictIsHonest
PROPERTIES ScansEnd ImplementsScanCall
CHECK_DEADLOCK FALSE
