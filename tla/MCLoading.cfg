SPECIFICATION Spec
CONSTANTS
  Keys <- MCKeys
  Names <- MCNames
  B1 = B1
  BICs = {B1}
  NoBIC = NoBIC
  Batches <- MCBatches
  MaxLimit = 2
  Commands = {c1, c2}
  Jobs <- MCJobs
  OddJobs <- MCOddJobs
  Editions <- MCEditions
  Embedded <- MCEmbedded
  FirstFiles <- MCFirstFiles
  FirstData <- MCFirstData
  Faults = {"overlap", "failure", "unreadable", "odd file"}
INVARIANTS
  TypeOK
  FileLoads
  DataConsistent
  NoSourceLost
PROPERTIES
  OthersKept
  SuccessMeansDone
