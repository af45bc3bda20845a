SPECIFICATION FairSpec
CONSTANTS
  t1 = t1
  t2 = t2
  t3 = t3
  Term = {t1, t2, t3}
  NoTerm = NoTerm
  Root = {r1, r2}
  NoRoot = NoRoot
  Document <- MixedDocument
  MaxBlocks = 6
  MaxOwners = 2
  MaxCrashes = 1
  MaxDead = 2
  OwnersPerPage = 1
  TermsPerPage = 2
  PostingsPerPage = 2
  SealedPerPage = 1
  Packed = FALSE
  CompactMode = {"Copy"}
INVARIANTS PublishedComplete PagesAccounted
PROPERTIES OperationsEnd DebrisCleared RootsRecycled
