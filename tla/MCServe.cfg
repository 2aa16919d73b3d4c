SPECIFICATION FairSpec
CONSTANTS
  Clients = {c1, c2}
  ShutdownTimeout = 2
  WriteTimeout = 3
INVARIANTS TypeOK CutOnlyLate AnswersHeld
PROPERTIES StopsAfterSignal RequestsEnd
