SPECIFICATION Spec
CONSTANTS
  t1 = t1
  t2 = t2
  t3 = t3
  Term = {t1}
  NoTerm = NoTerm
  Root = {r1, r2, r3}
  NoRoot = NoRoot
  Document <- SmallDocument
  MaxBlocks = 6
  MaxOwners = 4
  MaxCrashes = 1
  MaxDead = 1
  OwnersPerPage = 4
  TermsPerPage = 1
  PostingsPerPage = 3
  SealedPerPage = 1
  Packed = TRUE
  CompactMode = {"RetainSealedPrefix", "DirectTid"}
SYMMETRY RootSymmetry
INVARIANTS ChainsIntact RecoveryAccepts PagesAccounted NoStaleRoot
PROPERTIES ImplementsIndex
