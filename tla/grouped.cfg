SPECIFICATION MCSpec
CONSTANTS
  Segments = 2
  SealOwners = 1
  FrontierAnchors = TRUE
  HeapGroups = 2
  MaxInc = 10
  MaxNew = 3
  MaxBlocks = 7
  MaxCrashes = 1
  MaxDead = 1
  MaxDue = 1
INVARIANTS GroupTypeOK GroupStateValid MaintenanceAccepted CoverageExact GroupPagesAccounted
PROPERTIES PublishedPagesStable StepsImplementIndex MaintenanceEnds DebrisReclaimed
