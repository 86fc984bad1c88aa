SPECIFICATION Spec
CONSTANTS
  TotalSteps = 3
  Sessions = {}
  NoSession = NoSession
  \* Stop deliveries are WorkflowControl's question.
  Turns = {}
  NoTurn = NoTurn
  Contents = {c1}
  NoContent = NoContent
  Lease = 1
  \* Three: a lost receipt, a resume and a crash in one behaviour.
  MaxDisruptions = 3
\* A workspace whose init crashed after TOPIC has no operation left.
CHECK_DEADLOCK FALSE
INVARIANTS
  ReceiptsBeforeState
  AttemptsDistinct
PROPERTIES
  ReceiptsImmutable
  ImplementsLedger
