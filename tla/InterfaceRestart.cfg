SPECIFICATION Spec
CONSTANTS
  v1 = v1
  v2 = v2
  Outbounds = {1, 2}
  OpenVPN = {2}
  Versions = {v1, v2}
  None = None
  Partial = Partial
  DirectorySurvives = FALSE
  MaxOperations = 1
  MaxEdits = 1
  MaxRecoveries = 0
  MaxFaults = 0
  MaxCrashes = 1
SYMMETRY Symmetry
CHECK_DEADLOCK FALSE
INVARIANT RestartReconstructsInterfaces
