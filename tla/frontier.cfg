SPECIFICATION MCSpec
CONSTANTS
  t1 = t1
  t2 = t2
  Term = {t1, t2}
  NoTerm = NoTerm
  r1 = r1
  r2 = r2
  Root = {r1, r2}
  NoRoot = NoRoot
  Document <- FrontierDocument
  MaxBlocks = 8
  MaxOwners = 7
  MaxCrashes = 1
  MaxDead = 1
  OwnersPerPage = 3
  TermsPerPage = 2
  PostingsPerPage = 2
  SealedPerPage = 1
  Packed = TRUE
  CompactMode = {"Copy"}
  Program <- MCProgram
  OwnerSpan = 1
INVARIANTS AnchorsCurrent JournalRecoverable FrontierExact FrontierReadable
CHECK_DEADLOCK FALSE
