\* The two envs of rv_main, with more priorities than its 1 and 2.
CONSTANTS
  Env = {0, 1}
  NULL = NULL
  PRI = {1, 2, 3}
  TICK_WRAP = 2
  uvmunmap_returns = FALSE
SPECIFICATION TrapSpec
INVARIANTS
  TrapTypeOK
  ScratchProtocol
  UserIsCurenv
  SmashedNeverRuns
  PanicsExplained
\* Every panic is final.
CHECK_DEADLOCK FALSE
