SPECIFICATION MCSpec
CONSTANTS
  Backend = {1, 2, 3}
  NoBackend = 0
  d1 = d1
  d2 = d2
  Doc = {d1, d2}
  NoDoc = NoDoc
  Pages = 2
  PageOf <- MCPageOf
  BlockOf <- MCBlockOf
  Inline = {}
INVARIANTS ReadersProtected CountExact DeadlockOnlyByUpgrade
PROPERTIES OperationsServed
