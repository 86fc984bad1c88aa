SPECIFICATION Spec
CONSTANTS
  TotalSteps = 2
  MaxIds = 2
  MaxFaults = 1
\* A workspace with an aliased control file, or all ids used, stops.
CHECK_DEADLOCK FALSE
INVARIANT ResetRecovers
