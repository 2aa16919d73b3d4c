SPECIFICATION Spec
CONSTANTS
  Keys <- MCKeys
  Names <- MCNames
  Batches <- MCBatches
  B1 = B1
  B2 = B2
  BICs = {B1, B2}
  NoBIC = NoBIC
  MaxLimit = 1
  Loaders = {l1, l2}
  Readers = {}
  MaxReplaces = 3
INVARIANTS
  OneEdition
CHECK_DEADLOCK FALSE
