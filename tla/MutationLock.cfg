SPECIFICATION Spec
CONSTANTS
  r1 = r1
  r2 = r2
  s1 = s1
  Requests = {r1, r2}
  Inspectors = {s1}
  Startup = Startup
  Nobody = Nobody
  MaxFaults = 2
  MaxCrashes = 2
CHECK_DEADLOCK FALSE
INVARIANT TypeOK
PROPERTY ImplementsLock
PROPERTY StatusWasTrue
