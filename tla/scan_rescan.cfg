SPECIFICATION RescanSpec
CONSTANTS
  t1 = t1
  Term = {t1}
  NoTerm = NoTerm
  Root = {r1, r2, r3}
  NoRoot = NoRoot
  Document <- SmallDocument
  MaxBlocks = 5
  MaxOwners = 3
  MaxCrashes = 0
  MaxDead = 1
  OwnersPerPage = 3
  TermsPerPage = 1
  PostingsPerPage = 2
  SealedPerPage = 1
  Packed = TRUE
  CompactMode = {"Copy"}
  Worker = {w1}
  Leader = w1
INVARIANT CapturedWorkReadable
