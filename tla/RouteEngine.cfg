SPECIFICATION Spec
CONSTANTS
  r1 = r1
  r2 = r2
  Routes = {r1, r2}
  Documents <- AllDocuments
  Absent = Absent
  Stopped = Stopped
  MaxOperations = 3
  MaxRecoveries = 1
  MaxFaults = 1
  MaxCrashes = 1
SYMMETRY Symmetry
CHECK_DEADLOCK FALSE
INVARIANT TypeOK
INVARIANT SettledRouting
INVARIANT ActiveBypassIsOff
PROPERTY KillSwitchHolds
PROPERTY RecoveredRoutingIsInForce
