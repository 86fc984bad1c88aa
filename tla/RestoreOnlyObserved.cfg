SPECIFICATION Spec
CONSTANTS
  Procs = {p1, p2, p3}
  NoProc = NoProc
  MaxCalls = 4
  MaxFaults = 1
\* Every process may have crashed, or the calls are used up.
CHECK_DEADLOCK FALSE
PROPERTY RestoreOnlyObserved
