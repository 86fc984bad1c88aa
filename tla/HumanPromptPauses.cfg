SPECIFICATION Spec
CONSTANTS
  TotalSteps = 2
  Sessions = {s1}
  NoSession = NoSession
  Turns = {t1}
  NoTurn = NoTurn
  Contents = {c1}
  NoContent = NoContent
  Lease = 1
  MaxDisruptions = 0
\* A workspace whose init crashed after TOPIC has no operation left.
CHECK_DEADLOCK FALSE
PROPERTY HumanPromptPauses
