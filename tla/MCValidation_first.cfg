SPECIFICATION Spec
CONSTANTS
  Keys <- MCKeys
  Names <- MCNames
  Batches <- MCBatches
  B1 = B1
  BICs = {B1}
  NoBIC = NoBIC
  MaxLimit = 3
  Requests = {r1}
  Ibans <- MCIbans
  NoKey = NoKey
  Germany = 1
  V1Countries = {1}
  Verified = {2}
  MaxLoads = 4
INVARIANT UnknownIsGenuine
CHECK_DEADLOCK FALSE
