\* As TrapSwitch.cfg, with one statement of the comments.
CONSTANTS
  Env = {0, 1}
  NULL = NULL
  PRI = {1, 2, 3}
  TICK_WRAP = 2
  uvmunmap_returns = FALSE
SPECIFICATION TrapSpec
INVARIANT
  ContextPreserved
CHECK_DEADLOCK FALSE
