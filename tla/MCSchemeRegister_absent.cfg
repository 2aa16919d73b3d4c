SPECIFICATION RegisterSpec
CONSTANTS
  Schemes <- MCSchemes
  AllSchemes <- MCAllSchemes
  Bics <- MCBics
  Editions <- MCEditions
  Faults = {"download"}
INVARIANTS
  AbsentIsUnknown
