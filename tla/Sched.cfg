\* Three envs, boot's priorities 1 and 2 and one more; env_destroy goes on after
\* uvmunmap.  No symmetry: it is not sound for liveness.
CONSTANTS
  Env = {e1, e2, e3}
  NULL = NULL
  PRI = {1, 2, 3}
  TICK_WRAP = 3
  uvmunmap_returns = TRUE
SPECIFICATION FairSpec
INVARIANTS
  TypeOK
  RunnableIffQueued
  SliceAccounting
  BoundedWait
PROPERTIES
  NoOvertaking
  YieldGivesWay
  NoStarvation
\* After a panic the kernel only lets the timer expire once more.
CHECK_DEADLOCK FALSE
