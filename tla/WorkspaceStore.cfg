SPECIFICATION StoresSpec
CONSTANTS
  TotalSteps = 2
  MaxIds = 2
  MaxFaults = 3
  BatchLen = 2
  LogLimit = 5
  MaxWrites = 3
  MaxTrouble = 2
  MaxOutside = 1
  Commands = {c1, c2}
  MaxSnapshots = 1
  MaxEdits = 2
  MaxRuns = 2
  MaxMishaps = 1
  Gates = {g1, g2}
  MaxTreeEdits = 2
  MaxWorkflows = 2
  VisualIds = {"final-screenshot", "final-visual-inspection"}
  MaxItems = 4
  MaxFound = 3
  MaxArtifactEdits = 1
  Sources = 2
  MaxDocEdits = 2
  MaxEras = 1
  MaxQuestions = 2
  MaxReportLoss = 1
  Sessions = {s1, s2}
  OpenSteps = 2
  Milestone = 1
  MaxPrompts = 2
  MaxPauses = 1
\* A workspace with an aliased control file, or all ids used, stops; so do
\* the other parts once their bounds are used up.
CHECK_DEADLOCK FALSE
INVARIANTS
  TypeOK
  StateComplete
  OneWorkflow
  ReceiptsPreserved
  PinnedTopicKept
  LogTypeOK
  NoTornEvent
  EventAfterState
  OutsideLinesKept
  OneAssessment
  EvidenceOfSnapshot
  CurrentIsTrue
  GateMeasured
  ReceiptReportsAgree
  RetryRecognised
  JudgedAsOne
  BlocksBounded
PROPERTIES
  NeverReissued
  AskingEnds
