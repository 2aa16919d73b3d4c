SPECIFICATION FairSpec
CONSTANTS
  Keys <- MCKeys
  Names <- MCNames
  Batches <- MCBatches
  B1 = B1
  B2 = B2
  BICs = {B1, B2}
  NoBIC = NoBIC
  MaxLimit = 1
  Loaders = {l1, l2}
  Readers = {r1}
  MaxReplaces = 3
INVARIANTS
  TypeOK
  FailsOnlyOnRepeats
PROPERTIES
  ReplaceReturns
  Atomic
CHECK_DEADLOCK FALSE
