SPECIFICATION PhraseSpec
CONSTANTS
  t1 = t1
  Term = {t1}
  NoTerm = NoTerm
  Root = {r1, r2}
  NoRoot = NoRoot
  Document <- LargeDocument
  MaxBlocks = 6
  MaxOwners = 3
  MaxCrashes = 0
  MaxDead = 1
  OwnersPerPage = 2
  TermsPerPage = 1
  PostingsPerPage = 2
  SealedPerPage = 1
  Packed = TRUE
  CompactMode = {"Copy"}
INVARIANT PhraseNeverFails
