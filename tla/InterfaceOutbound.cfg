SPECIFICATION Spec
CONSTANTS
  v1 = v1
  v2 = v2
  Outbounds = {1, 2}
  OpenVPN = {2}
  Versions = {v1, v2}
  None = None
  Partial = Partial
  DirectorySurvives = TRUE
  MaxOperations = 2
  MaxEdits = 2
  MaxRecoveries = 1
  MaxFaults = 1
  MaxCrashes = 1
SYMMETRY Symmetry
CHECK_DEADLOCK FALSE
INVARIANT TypeOK
INVARIANT SettledInterfaces
PROPERTY RecoveryReconstructsDesired
PROPERTY UnchangedTunnelsStayUp
