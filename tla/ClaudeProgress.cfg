SPECIFICATION Spec
CONSTANTS
  TotalSteps = 2
  Gated = {2}
  Sessions = {s1, s2}
  Flock = TRUE
  MaxRuns = 2
  MaxEvents = 2
SYMMETRY Symmetry
\* Once no event is left, a workspace without a run has nothing to do.
CHECK_DEADLOCK FALSE
INVARIANTS
  TypeOK
  Inspected
