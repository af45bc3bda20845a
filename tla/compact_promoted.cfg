SPECIFICATION Spec
CONSTANTS
  t1 = t1
  t2 = t2
  t3 = t3
  Term = {t1}
  NoTerm = NoTerm
  Root = {r1, r2, r3}
  NoRoot = NoRoot
  Document <- SmallDocument
  MaxBlocks = 7
  MaxOwners = 3
  MaxCrashes = 0
  MaxDead = 2
  OwnersPerPage = 2
  TermsPerPage = 1
  PostingsPerPage = 2
  SealedPerPage = 1
  Packed = TRUE
  CompactMode = {"Copy"}
INVARIANT CompactionSucceeds
