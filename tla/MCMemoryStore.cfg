SPECIFICATION FairSpec
CONSTANTS
  Keys <- MCKeys
  Names <- MCNames
  Batches <- MCBatches
  B1 = B1
  B2 = B2
  BICs = {B1, B2}
  NoBIC = NoBIC
  MaxLimit = 1
  Writers = {w1, w2}
  Readers = {r1}
  NoWriter = NoWriter
INVARIANTS
  TypeOK
  IndexAgrees
  Consistent
PROPERTIES
  Atomic
  Isolation
  ReplaceReturns
