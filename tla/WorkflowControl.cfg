SPECIFICATION Spec
CONSTANTS
  TotalSteps = 2
  Sessions = {s1, s2}
  NoSession = NoSession
  Turns = {t1, t2}
  NoTurn = NoTurn
  Contents = {c1}
  NoContent = NoContent
  Lease = 1
  MaxDisruptions = 2
SYMMETRY Symmetry
\* A workspace whose init crashed after TOPIC has no operation left.
CHECK_DEADLOCK FALSE
INVARIANTS
  TypeOK
  WorkflowInv
  SchemaValid
  OneGeneration
  AttemptOwner
  StopPressBounded
PROPERTIES
  MarkersUsedOnce
  FailureCountedOnce
