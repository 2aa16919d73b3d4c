SPECIFICATION Spec
CONSTANTS
  Keys <- MCKeys
  Names <- MCNames
  B1 = B1
  BICs = {B1}
  NoBIC = NoBIC
  Batches <- MCBatches
  MaxLimit = 2
  Commands = {c1, c2}
  Jobs <- OneCountryJobs
  OddJobs = {}
  Editions <- MCEditions
  Embedded <- MCEmbedded
  FirstFiles <- MCFirstFiles
  FirstData <- MCFirstData
  Faults = {}
PROPERTIES
  OneAtATime
