SPECIFICATION Spec
CONSTANTS
  Components = {"routing", "system_tools"}
  MaxDisturbances = 2
CHECK_DEADLOCK FALSE
INVARIANT TypeOK
INVARIANT StatusIsWitnessed
PROPERTY HealthConverges
