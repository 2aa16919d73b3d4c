SPECIFICATION RegisterSpec
CONSTANTS
  Schemes <- MCSchemes
  AllSchemes <- MCAllSchemes
  Bics <- MCBics
  Editions <- MCEditions
  Faults = {"download", "write", "overlap"}
INVARIANTS
  RegisterTypeOK
  Reliable
  
  FilesStayLoadable
  UpdateRefreshes
