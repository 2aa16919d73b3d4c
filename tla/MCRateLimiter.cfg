SPECIFICATION LimiterSpec
CONSTANTS
  c1 = c1
  c2 = c2
  Clients <- MCClients
  Slots = {s1, s2}
  Proxy = Proxy
  Blank = Blank
  Setups = {TRUE, FALSE}
  PerMin = 2
  Minute = 2
  MaxLate = 1
  Horizon = 5
INVARIANTS
  LimiterTypeOK
  BoundedBurst
PROPERTIES
  RefusedAtLimit
  Forgotten
CHECK_DEADLOCK FALSE
