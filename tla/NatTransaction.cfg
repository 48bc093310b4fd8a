SPECIFICATION Spec
CONSTANTS
  r1 = r1
  r2 = r2
  ipv4 = ipv4
  ipv6 = ipv6
  Families = {ipv4, ipv6}
  Forwards = {r1, r2}
  None = None
  MaxOperations = 2
  MaxRecoveries = 1
  MaxFaults = 2
  MaxCrashes = 2
SYMMETRY Symmetry
CHECK_DEADLOCK FALSE
INVARIANT TypeOK
INVARIANT SettledNat
INVARIANT ExclusiveEngines
PROPERTY OutcomeIsExact
